--------------------------- MODULE LocalTargetProofs ---------------------------
(***************************************************************************)
(* Proofs about LocalTarget for every case, fault list and step cap: a     *)
(* call meets one fault at most, the steps of a trajectory are the calls   *)
(* the tools had, a recovery is earned, and a sized case keeps every reply *)
(* in the session it was written for.                                      *)
(***************************************************************************)
EXTENDS LocalTarget, FiniteSetTheorems, NaturalsInduction, WellFoundedInduction,
        SequenceTheorems, TLAPS

-----------------------------------------------------------------------------
(* Positions: ranks in finite sets of numbers, and how they correspond.    *)

UpTo(S, k) == {j \in S : j <= k}

\* Different elements have different ranks, so Nth inverts the rank.
LEMMA NthIs ==
  ASSUME NEW S, IsFiniteSet(S), S \subseteq Nat, NEW k \in S
  PROVE  Nth(S, Cardinality(UpTo(S, k))) = k
<1>1. ASSUME NEW x \in S, NEW y \in S, x < y
      PROVE  Cardinality(UpTo(S, x)) # Cardinality(UpTo(S, y))
  <2>0. x \in Nat /\ y \in Nat /\ ~(y <= x) /\ y <= y /\ \A j \in S : j <= x => j <= y
    BY <1>1
  <2>1. UpTo(S, x) \subseteq UpTo(S, y) /\ y \in UpTo(S, y) /\ y \notin UpTo(S, x)
    BY <2>0 DEF UpTo
  <2>2. IsFiniteSet(UpTo(S, y))
    BY FS_Subset DEF UpTo
  <2> QED BY <2>1, <2>2, FS_Subset
<1>2. \A m \in S : Cardinality(UpTo(S, m)) = Cardinality(UpTo(S, k)) => m = k
  <2> SUFFICES ASSUME NEW m \in S, m # k PROVE Cardinality(UpTo(S, m)) # Cardinality(UpTo(S, k))
    OBVIOUS
  <2>1. m < k \/ k < m
    OBVIOUS
  <2> QED BY <1>1, <2>1
<1>3. Nth(S, Cardinality(UpTo(S, k)))
        = CHOOSE m \in S : Cardinality(UpTo(S, m)) = Cardinality(UpTo(S, k))
  BY DEF Nth, UpTo
<1> QED BY <1>2, <1>3

\* An order isomorphism between two finite sets of numbers.
OrderIso(f, S, T) ==
  /\ IsFiniteSet(S) /\ S \subseteq Nat /\ T \subseteq Nat
  /\ f \in [S -> T]
  /\ \A x, y \in S : x < y => f[x] < f[y]
  /\ \A c \in T : \E x \in S : f[x] = c

\* It keeps cardinalities and ranks.
LEMMA IsoKeepsRanks ==
  ASSUME NEW S, NEW T, NEW f, OrderIso(f, S, T)
  PROVE  /\ IsFiniteSet(T) /\ Cardinality(T) = Cardinality(S)
         /\ \A k \in S : Cardinality(UpTo(T, f[k])) = Cardinality(UpTo(S, k))
<1>0. IsFiniteSet(S) /\ S \subseteq Nat /\ T \subseteq Nat
  BY DEF OrderIso
<1>1. \A x, y \in S : f[x] = f[y] => x = y
  <2> SUFFICES ASSUME NEW x \in S, NEW y \in S, x # y PROVE f[x] # f[y]
    OBVIOUS
  <2>1. x < y \/ y < x
    BY <1>0
  <2>2. f[x] \in Nat /\ f[y] \in Nat
    BY <1>0 DEF OrderIso
  <2>3. f[x] < f[y] \/ f[y] < f[x]
    BY <2>1 DEF OrderIso
  <2> QED BY <2>2, <2>3
<1>2. f \in Bijection(S, T)
  BY <1>1 DEF OrderIso, Bijection, Injection, Surjection, IsInjective
<1>3. IsFiniteSet(T) /\ Cardinality(T) = Cardinality(S)
  BY <1>0, <1>2, FS_Bijection DEF ExistsBijection
<1>4. ASSUME NEW k \in S PROVE Cardinality(UpTo(T, f[k])) = Cardinality(UpTo(S, k))
  <2> DEFINE A == UpTo(S, k)
             B == UpTo(T, f[k])
             g == [x \in A |-> f[x]]
  <2>1. \A x \in A : f[x] \in B
    <3> SUFFICES ASSUME NEW x \in A PROVE f[x] \in B
      OBVIOUS
    <3>1. x \in S /\ (x = k \/ x < k) /\ f[x] \in T /\ f[k] \in T
      BY DEF UpTo, OrderIso
    <3>2. f[x] = f[k] \/ f[x] < f[k]
      BY <3>1 DEF OrderIso
    <3>3. f[x] \in Nat /\ f[k] \in Nat
      BY <1>0, <3>1
    <3>4. f[x] <= f[k]
      BY <3>2, <3>3
    <3> QED BY <3>1, <3>4 DEF UpTo
  <2>2. \A c \in B : \E x \in A : f[x] = c
    <3> SUFFICES ASSUME NEW c \in B PROVE \E x \in A : f[x] = c
      OBVIOUS
    <3>1. PICK x \in S : f[x] = c
      BY DEF UpTo, OrderIso
    <3>2. ~(k < x)
      <4>1. f[x] <= f[k] /\ f[x] \in Nat /\ f[k] \in Nat
        BY <1>0, <3>1 DEF UpTo, OrderIso
      <4>2. k < x => f[k] < f[x]
        BY DEF OrderIso
      <4> QED BY <4>1, <4>2
    <3>3. x <= k
      BY <1>0, <3>1, <3>2
    <3> QED BY <3>1, <3>3 DEF UpTo
  <2>3. A \subseteq S /\ IsFiniteSet(A)
    BY <1>0, FS_Subset DEF UpTo
  <2>4. g \in Bijection(A, B)
    <3> HIDE DEF A, B
    <3>1. g \in [A -> B] /\ \A x \in A : g[x] = f[x]
      BY <2>1
    <3> HIDE DEF g
    <3> QED BY <1>1, <2>2, <2>3, <3>1 DEF Bijection, Injection, Surjection, IsInjective
  <2> HIDE DEF A, B, g
  <2>5. Cardinality(A) = Cardinality(B)
    BY <2>3, <2>4, FS_Bijection DEF ExistsBijection
  <2> QED BY <2>5 DEF A, B
<1> QED BY <1>3, <1>4

-----------------------------------------------------------------------------
(* Flattening: what FlattenSeq builds, step by step.                       *)

LEMMA SetInduction ==
  ASSUME NEW S, 0 \in S, \A n \in Nat : n \in S => n + 1 \in S
  PROVE  \A n \in Nat : n \in S
<1> DEFINE Bad == Nat \ S
<1> SUFFICES ASSUME Bad # {} PROVE FALSE
  OBVIOUS
<1>1. PICK k \in Bad : \A j \in Bad : ~(<<j, k>> \in OpToRel(<, Nat))
  <2>1. IsWellFoundedOn(OpToRel(<, Nat), Nat) /\ Bad \subseteq Nat
    BY NatLessThanWellFounded
  <2> HIDE DEF Bad
  <2> QED BY <2>1, WFMin
<1>2. \A j \in Bad : ~(j < k)
  BY <1>1 DEF OpToRel
<1>3. k - 1 \in Nat /\ k - 1 < k /\ (k - 1) + 1 = k /\ k \notin S
  OBVIOUS
<1> QED BY <1>2, <1>3

\* f[i] is the concatenation of the first i sequences of ss, up to n.
FlatTo(n, f, ss, T) ==
  /\ f \in [1..n -> Seq(T)]
  /\ f[1] = ss[1]
  /\ \A i \in 2..n : f[i] = f[i - 1] \o ss[i]
FlatSteps(f, ss, T) == FlatTo(Len(ss), f, ss, T)

LEMMA FlatStepsExist ==
  ASSUME NEW T, NEW ss \in Seq(Seq(T)), ss # <<>>
  PROVE  \E f : FlatSteps(f, ss, T)
<1> DEFINE N == Len(ss)
           S == {n \in Nat : n \in 1..N => \E f : FlatTo(n, f, ss, T)}
<1>1. N \in Nat \ {0} /\ \A i \in 1..N : ss[i] \in Seq(T)
  BY EmptySeq, ElementOfSeq
<1> HIDE DEF N
<1>2. 0 \in S
  OBVIOUS
<1>3. ASSUME NEW n \in Nat, n \in S PROVE n + 1 \in S
  <2> SUFFICES ASSUME n + 1 \in 1..N PROVE \E f : FlatTo(n + 1, f, ss, T)
    OBVIOUS
  <2>1. CASE n = 0
    <3>1. FlatTo(n + 1, [i \in 1..1 |-> ss[1]], ss, T)
      BY <1>1, <2>1 DEF FlatTo
    <3> QED BY <3>1
  <2>2. CASE n # 0
    <3>1. n \in 1..N /\ 1 \in 1..n
      BY <1>1, <2>2
    <3>2. PICK f : FlatTo(n, f, ss, T)
      BY <1>3, <3>1
    <3> DEFINE g == [i \in 1..(n + 1) |-> IF i = n + 1 THEN f[n] \o ss[n + 1] ELSE f[i]]
    <3>3. f[n] \in Seq(T) /\ ss[n + 1] \in Seq(T)
      BY <1>1, <2>2, <3>2 DEF FlatTo
    <3>4. f[n] \o ss[n + 1] \in Seq(T)
      BY <3>3, ConcatProperties
    <3>5. g \in [1..(n + 1) -> Seq(T)] /\ g[1] = ss[1]
      BY <3>1, <3>2, <3>4 DEF FlatTo
    <3>6. ASSUME NEW i \in 2..(n + 1) PROVE g[i] = g[i - 1] \o ss[i]
      <4>1. CASE i = n + 1
        <5>1. n + 1 \in 1..(n + 1) /\ n \in 1..(n + 1) /\ n # n + 1 /\ i - 1 = n
          BY <3>1, <4>1
        <5> QED BY <4>1, <5>1
      <4>2. CASE i # n + 1
        <5>1. i \in 2..n /\ i \in 1..(n + 1) /\ i - 1 \in 1..(n + 1) /\ i - 1 # n + 1
          BY <4>2
        <5> QED BY <3>2, <4>2, <5>1 DEF FlatTo
      <4> QED BY <4>1, <4>2
    <3> HIDE DEF g
    <3>7. FlatTo(n + 1, g, ss, T)
      BY <3>5, <3>6 DEF FlatTo
    <3> QED BY <3>7
  <2> QED BY <2>1, <2>2
<1>4. N \in S
  <2> HIDE DEF S
  <2>1. \A n \in Nat : n \in S
    BY <1>2, <1>3, SetInduction
  <2> QED BY <1>1, <2>1
<1>5. PICK f : FlatTo(N, f, ss, T)
  BY <1>1, <1>4
<1>6. FlatSteps(f, ss, T)
  BY <1>5 DEF FlatSteps, N
<1> QED BY <1>6

\* FlattenSeq is the end of those steps.
LEMMA FlattenIs ==
  ASSUME NEW T, NEW ss \in Seq(Seq(T)), ss # <<>>, NEW f, FlatSteps(f, ss, T)
  PROVE  FlattenSeq(ss) = f[Len(ss)]
<1> DEFINE N == Len(ss)
           G(s) == [i \in 1..N |-> IF i = 1 THEN ss[i] ELSE s[i - 1] \o ss[i]]
           u == CHOOSE s : s = G(s)
<1>0. N \in Nat \ {0}
  BY EmptySeq
<1>1. f = G(f)
  <2>1. \A i \in 1..N : i = 1 \/ i \in 2..N
    BY <1>0
  <2> QED BY <1>0, <2>1 DEF FlatSteps, FlatTo
<1>2. u = G(u)
  <2> HIDE DEF G
  <2> QED BY <1>1
<1>3. FlattenSeq(ss) = u[N]
  BY <1>0 DEF FlattenSeq
<1>4. \A i \in 1..N : u[i] = IF i = 1 THEN ss[i] ELSE u[i - 1] \o ss[i]
  <2> HIDE DEF u
  <2> QED BY <1>2
<1>5. \A i \in 1..N : f[i] = IF i = 1 THEN ss[i] ELSE f[i - 1] \o ss[i]
  BY <1>1
<1> HIDE DEF u, G, N
<1> DEFINE S == {n \in Nat : n \in 1..N => u[n] = f[n]}
<1>6. 0 \in S
  BY <1>0
<1>7. ASSUME NEW n \in Nat, n \in S PROVE n + 1 \in S
  <2> SUFFICES ASSUME n + 1 \in 1..N PROVE u[n + 1] = f[n + 1]
    OBVIOUS
  <2>1. CASE n = 0
    BY <1>4, <1>5, <2>1
  <2>2. CASE n # 0
    <3>1. n \in 1..N /\ n + 1 # 1 /\ (n + 1) - 1 = n
      BY <1>0, <2>2
    <3>2. u[n] = f[n]
      BY <1>7, <3>1
    <3>3. u[n + 1] = u[n] \o ss[n + 1] /\ f[n + 1] = f[n] \o ss[n + 1]
      BY <1>4, <1>5, <3>1
    <3> QED BY <3>2, <3>3
  <2> QED BY <2>1, <2>2
<1>8. N \in S
  <2> HIDE DEF S
  <2>1. \A n \in Nat : n \in S
    BY <1>6, <1>7, SetInduction
  <2> QED BY <1>0, <2>1
<1>9. u[N] = f[N]
  BY <1>0, <1>8
<1> QED BY <1>3, <1>9 DEF N

\* Where the n-th sequence starts in the whole.
FlatStart(f, n) == IF n = 1 THEN 0 ELSE Len(f[n - 1])

LEMMA FlattenAt ==
  ASSUME NEW T, NEW ss \in Seq(Seq(T)), ss # <<>>, NEW f, FlatSteps(f, ss, T),
         NEW n \in 1..Len(ss)
  PROVE  /\ FlatStart(f, n) \in Nat /\ Len(f[n]) = FlatStart(f, n) + Len(ss[n])
         /\ \A i \in 1..Len(ss[n]) :
              /\ FlatStart(f, n) + i \in 1..Len(f[Len(ss)])
              /\ f[Len(ss)][FlatStart(f, n) + i] = ss[n][i]
<1> DEFINE N == Len(ss)
<1>1. /\ N \in Nat \ {0} /\ n \in 1..N
      /\ \A m \in 1..N : ss[m] \in Seq(T) /\ f[m] \in Seq(T)
      /\ f[1] = ss[1]
      /\ \A m \in 2..N : f[m] = f[m - 1] \o ss[m]
  BY EmptySeq, ElementOfSeq DEF FlatSteps, FlatTo
<1> HIDE DEF N
<1>2. \A m \in 1..N : Len(f[m]) \in Nat /\ Len(ss[m]) \in Nat
  BY <1>1, LenProperties
<1>3. ASSUME NEW m \in 2..N
      PROVE  /\ Len(f[m]) = Len(f[m - 1]) + Len(ss[m])
             /\ \A i \in 1..(Len(f[m - 1]) + Len(ss[m])) :
                  f[m][i] = IF i <= Len(f[m - 1]) THEN f[m - 1][i] ELSE ss[m][i - Len(f[m - 1])]
  <2>1. m \in 1..N /\ m - 1 \in 1..N
    BY <1>1
  <2>2. f[m - 1] \in Seq(T) /\ ss[m] \in Seq(T) /\ f[m] = f[m - 1] \o ss[m]
    BY <1>1, <2>1
  <2>3. /\ Len(f[m - 1] \o ss[m]) = Len(f[m - 1]) + Len(ss[m])
        /\ \A i \in 1..(Len(f[m - 1]) + Len(ss[m])) :
             (f[m - 1] \o ss[m])[i]
               = IF i <= Len(f[m - 1]) THEN f[m - 1][i] ELSE ss[m][i - Len(f[m - 1])]
    <3>1. PICK s, t : s = f[m - 1] /\ t = ss[m]
      OBVIOUS
    <3>2. /\ Len(s \o t) = Len(s) + Len(t)
          /\ \A i \in 1..(Len(s) + Len(t)) :
               (s \o t)[i] = IF i <= Len(s) THEN s[i] ELSE t[i - Len(s)]
      BY <2>2, <3>1, ConcatProperties
    <3> QED BY <3>1, <3>2, Zenon
  <2> QED BY <2>2, <2>3, Zenon
<1>4. /\ FlatStart(f, n) \in Nat /\ Len(f[n]) = FlatStart(f, n) + Len(ss[n])
      /\ \A i \in 1..Len(ss[n]) : f[n][FlatStart(f, n) + i] = ss[n][i]
  <2>1. CASE n = 1
    BY <1>1, <1>2, <2>1 DEF FlatStart
  <2>2. CASE n # 1
    <3>1. n \in 2..N /\ n - 1 \in 1..N
      BY <1>1, <2>2
    <3> DEFINE a == Len(f[n - 1])
               b == Len(ss[n])
    <3>2. a \in Nat /\ b \in Nat /\ FlatStart(f, n) = a
      BY <1>1, <1>2, <2>2, <3>1 DEF FlatStart
    <3>3. Len(f[n]) = a + b
      BY <1>3, <3>1
    <3>4. ASSUME NEW i \in 1..b PROVE f[n][a + i] = ss[n][i]
      <4>1. a + i \in 1..(a + b) /\ ~(a + i <= a) /\ (a + i) - a = i
        <5> HIDE DEF a, b
        <5> QED BY <3>2
      <4> QED BY <1>3, <3>1, <4>1
    <3> HIDE DEF a
    <3> QED BY <3>2, <3>3, <3>4
  <2> QED BY <2>1, <2>2
\* What is there stays there.
<1> DEFINE S == {m \in Nat : m \in n..N => /\ Len(f[n]) <= Len(f[m])
                                           /\ \A j \in 1..Len(f[n]) : f[m][j] = f[n][j]}
<1>5. 0 \in S
  BY <1>1
<1>6. ASSUME NEW m \in Nat, m \in S PROVE m + 1 \in S
  <2> SUFFICES ASSUME m + 1 \in n..N
               PROVE  /\ Len(f[n]) <= Len(f[m + 1])
                      /\ \A j \in 1..Len(f[n]) : f[m + 1][j] = f[n][j]
    OBVIOUS
  <2>1. CASE m + 1 = n
    <3>1. Len(f[n]) <= Len(f[n])
      BY <1>1, <1>2
    <3> QED BY <2>1, <3>1
  <2>2. CASE m + 1 # n
    <3>1. m \in n..N /\ m + 1 \in 2..N /\ (m + 1) - 1 = m /\ m \in 1..N
      BY <1>1, <2>2
    <3>2. Len(f[n]) <= Len(f[m]) /\ \A j \in 1..Len(f[n]) : f[m][j] = f[n][j]
      BY <1>6, <3>1
    <3>3. Len(f[n]) \in Nat /\ Len(f[m]) \in Nat /\ Len(ss[m + 1]) \in Nat
      BY <1>1, <1>2, <3>1
    <3>4. /\ Len(f[m + 1]) = Len(f[m]) + Len(ss[m + 1])
          /\ \A i \in 1..(Len(f[m]) + Len(ss[m + 1])) :
               f[m + 1][i] = IF i <= Len(f[m]) THEN f[m][i] ELSE ss[m + 1][i - Len(f[m])]
      <4>1. \A k : k = m + 1 =>
               /\ Len(f[k]) = Len(f[k - 1]) + Len(ss[k])
               /\ \A i \in 1..(Len(f[k - 1]) + Len(ss[k])) :
                    f[k][i] = IF i <= Len(f[k - 1]) THEN f[k - 1][i] ELSE ss[k][i - Len(f[k - 1])]
        BY <1>3, <3>1
      <4> QED BY <3>1, <4>1
    <3> DEFINE a == Len(f[n])
               b == Len(f[m])
               c == Len(ss[m + 1])
    <3>0. a \in Nat /\ b \in Nat /\ c \in Nat /\ a <= b /\ Len(f[m + 1]) = b + c
      BY <3>2, <3>3, <3>4
    <3>5. Len(f[n]) <= Len(f[m + 1])
      <4>1. a <= b + c
        <5> HIDE DEF a, b, c
        <5> QED BY <3>0
      <4> QED BY <3>0, <4>1
    <3>6. ASSUME NEW j \in 1..Len(f[n]) PROVE f[m + 1][j] = f[n][j]
      <4>1. j \in 1..(Len(f[m]) + Len(ss[m + 1])) /\ j <= Len(f[m])
        <5>1. j \in 1..a
          OBVIOUS
        <5>2. j \in 1..(b + c) /\ j <= b
          <6> HIDE DEF a, b, c
          <6> QED BY <3>0, <5>1
        <5> QED BY <5>2
      <4> QED BY <3>2, <3>4, <4>1
    <3> QED BY <3>5, <3>6
  <2> QED BY <2>1, <2>2
<1>7. N \in S
  <2> HIDE DEF S
  <2>1. \A m \in Nat : m \in S
    BY <1>5, <1>6, SetInduction
  <2> QED BY <1>1, <2>1
<1>8. Len(f[n]) <= Len(f[N]) /\ \A j \in 1..Len(f[n]) : f[N][j] = f[n][j]
  BY <1>1, <1>7
<1> HIDE DEF S
<1>9. ASSUME NEW i \in 1..Len(ss[n])
      PROVE  /\ FlatStart(f, n) + i \in 1..Len(f[N])
             /\ f[N][FlatStart(f, n) + i] = ss[n][i]
  <2>1. Len(f[n]) \in Nat /\ Len(f[N]) \in Nat /\ Len(ss[n]) \in Nat
    BY <1>1, <1>2
  <2>2. FlatStart(f, n) + i \in 1..Len(f[n])
    BY <1>4, <2>1
  <2>3. FlatStart(f, n) + i \in 1..Len(f[N])
    BY <1>8, <2>1, <2>2
  <2> QED BY <1>4, <1>8, <2>2, <2>3
<1> QED BY <1>4, <1>9 DEF N

-----------------------------------------------------------------------------
(* The planner's script.                                                   *)

Planned == [reply : Replies, from : Nat]
Tagged(ss) == [n \in DOMAIN ss |-> [k \in DOMAIN ss[n] |-> [reply |-> ss[n][k], from |-> n]]]

LEMMA TaggedIs ==
  ASSUME NEW ss \in Seq(Seq(Replies)), ss # <<>>
  PROVE  /\ Tagged(ss) \in Seq(Seq(Planned)) /\ Tagged(ss) # <<>>
         /\ Len(Tagged(ss)) = Len(ss) /\ DOMAIN ss = 1..Len(ss)
         /\ \A n \in 1..Len(ss) :
              /\ Len(Tagged(ss)[n]) = Len(ss[n]) /\ DOMAIN ss[n] = 1..Len(ss[n])
              /\ \A i \in 1..Len(ss[n]) : Tagged(ss)[n][i] = [reply |-> ss[n][i], from |-> n]
         /\ Script(ss) = FlattenSeq(Tagged(ss))
<1>1. Len(ss) \in Nat \ {0} /\ DOMAIN ss = 1..Len(ss)
  BY EmptySeq, LenProperties
<1>2. ASSUME NEW n \in 1..Len(ss)
      PROVE  /\ Tagged(ss)[n] \in Seq(Planned)
             /\ Len(Tagged(ss)[n]) = Len(ss[n]) /\ DOMAIN ss[n] = 1..Len(ss[n])
             /\ \A i \in 1..Len(ss[n]) : Tagged(ss)[n][i] = [reply |-> ss[n][i], from |-> n]
  <2>1. ss[n] \in Seq(Replies)
    BY ElementOfSeq
  <2>2. Len(ss[n]) \in Nat /\ DOMAIN ss[n] = 1..Len(ss[n])
        /\ \A i \in 1..Len(ss[n]) : ss[n][i] \in Replies
    BY <2>1, LenProperties, ElementOfSeq
  <2>3. Tagged(ss)[n] = [k \in 1..Len(ss[n]) |-> [reply |-> ss[n][k], from |-> n]]
    BY <1>1, <2>2 DEF Tagged
  <2>4. n \in Nat
    OBVIOUS
  <2>5. \A i \in 1..Len(ss[n]) : [reply |-> ss[n][i], from |-> n] \in Planned
    BY <2>2, <2>4 DEF Planned
  <2> QED BY <2>2, <2>3, <2>5
<1>3. Tagged(ss) \in [1..Len(ss) -> Seq(Planned)]
  BY <1>1, <1>2 DEF Tagged
<1>4. Tagged(ss) \in Seq(Seq(Planned)) /\ Len(Tagged(ss)) = Len(ss)
  BY <1>1, <1>3
<1>5. Tagged(ss) # <<>>
  BY <1>1, <1>4, EmptySeq
<1>6. Script(ss) = FlattenSeq(Tagged(ss))
  BY DEF Script, Tagged
<1> QED BY <1>1, <1>2, <1>4, <1>5, <1>6

LEMMA ScriptIs ==
  ASSUME NEW ss \in Seq(Seq(Replies)), ss # <<>>
  PROVE  Script(ss) \in Seq(Planned)
<1>1. /\ Tagged(ss) \in Seq(Seq(Planned)) /\ Tagged(ss) # <<>>
      /\ Script(ss) = FlattenSeq(Tagged(ss))
  BY TaggedIs
<1>2. PICK f : FlatSteps(f, Tagged(ss), Planned)
  BY <1>1, FlatStepsExist
<1>3. Script(ss) = f[Len(Tagged(ss))]
  BY <1>1, <1>2, FlattenIs
<1>4. Len(Tagged(ss)) \in 1..Len(Tagged(ss))
  BY <1>1, EmptySeq
<1> QED BY <1>2, <1>3, <1>4 DEF FlatSteps, FlatTo

-----------------------------------------------------------------------------
(* Types.                                                                  *)

Events == {"proposed_answer", "protocol_error", "tool_denied", "tool_result",
           "validator_feedback"}
CallRecord == [tool : Granted, number : Nat, masked : BOOLEAN]
HistoryEntry == [type : Events \cup Granted, call : CallRecord \cup {None}, from : Nat \cup {None}]
Firing == [fault : Nat, call_index : Nat]

VarsOK ==
  /\ sessions \in SessionLists /\ faults \in FaultLists /\ max_steps \in StepCaps
  /\ session \in 1..Len(sessions)
  /\ pc \in Ended \cup {"plan", "tool", "validate", "done"}
  /\ seen \in [Tools \cup Providers -> Nat]
  /\ popped \in [{"planner", "fallback"} -> Nat]
  /\ calls \in Seq(Granted) /\ before \in 0..Len(calls)
  /\ fired \in Seq(Firing)
  /\ \A k \in 1..Len(fired) : fired[k].fault \in 1..Len(faults)
  /\ history \in Seq(HistoryEntry) /\ steps_used \in 0..max_steps
  /\ rejected \in BOOLEAN

\* What is known at each place of the run.
PlaceOK ==
  /\ pc # "done" => trajectory = None
  /\ pc = "tool" => Len(history) # 0 /\ Tool \in Granted
  /\ pc = "validate" => Len(history) # 0
  /\ session = 1 => before = 0

TInv == VarsOK /\ PlaceOK

LEMMA CaseIs ==
  ASSUME VarsOK
  PROVE  /\ sessions \in Seq(Seq(Replies)) /\ sessions # <<>>
         /\ Len(sessions) \in Nat \ {0} /\ DOMAIN sessions = 1..Len(sessions)
         /\ faults \in Seq(Fault) /\ Len(faults) \in Nat /\ DOMAIN faults = 1..Len(faults)
         /\ max_steps \in Nat \ {0}
<1>1. sessions \in Seq(Seq(Replies)) /\ sessions # <<>> /\ faults \in Seq(Fault)
      /\ max_steps \in Nat \ {0}
  BY LocalAssumption DEF VarsOK
<1> QED BY <1>1, LenProperties, EmptySeq

LEMMA LengthsAre ==
  ASSUME VarsOK
  PROVE  /\ Len(calls) \in Nat /\ DOMAIN calls = 1..Len(calls)
         /\ Len(fired) \in Nat /\ DOMAIN fired = 1..Len(fired)
         /\ Len(history) \in Nat /\ DOMAIN history = 1..Len(history)
         /\ session \in Nat /\ before \in Nat /\ steps_used \in Nat
  BY CaseIs, LenProperties DEF VarsOK

\* A seam's firing: the one fault that acts in this call, recorded with the
\* call's number.
FiredBy(seam, kinds, f) ==
  /\ f \in 1..Len(faults) /\ faults[f].seam = seam /\ faults[f].kind \in kinds
  /\ seen[seam] < faults[f].times
  /\ fired' = Append(fired, [fault |-> f, call_index |-> seen[seam]])

LEMMA ActingIs ==
  ASSUME VarsOK, NEW seam, NEW kinds, ActsAs(seam, kinds)
  PROVE  \E f : FiredBy(seam, kinds, f)
<1>1. PICK f \in Active(seam) : faults[f].kind \in kinds /\ fired' = Fired(seam, f)
  BY DEF ActsAs
<1> QED BY <1>1, CaseIs DEF Active, Fired, FiredBy

LEMMA FiringsTyped ==
  ASSUME VarsOK, NEW seam \in Tools \cup Providers, NEW kinds,
         UNCHANGED fired \/ \E f : FiredBy(seam, kinds, f)
  PROVE  /\ fired' \in Seq(Firing)
         /\ \A k \in 1..Len(fired') : fired'[k].fault \in 1..Len(faults)
<1>1. CASE UNCHANGED fired
  BY <1>1 DEF VarsOK
<1>2. CASE \E f : FiredBy(seam, kinds, f)
  <2>1. PICK f : FiredBy(seam, kinds, f)
    BY <1>2
  <2> DEFINE new == [fault |-> f, call_index |-> seen[seam]]
  <2>2. new \in Firing /\ fired \in Seq(Firing) /\ fired' = Append(fired, new)
    BY <2>1, CaseIs DEF VarsOK, FiredBy, Firing
  <2>3. new.fault \in 1..Len(faults)
    BY <2>1 DEF FiredBy
  <2> HIDE DEF new
  <2>4. /\ fired' \in Seq(Firing) /\ Len(fired') = Len(fired) + 1
        /\ \A k \in 1..Len(fired) : fired'[k] = fired[k]
        /\ fired'[Len(fired) + 1] = new
    BY <2>2, AppendProperties
  <2>5. \A k \in 1..Len(fired') : k \in 1..Len(fired) \/ k = Len(fired) + 1
    BY <2>4, LengthsAre
  <2> QED BY <2>3, <2>4, <2>5 DEF VarsOK
<1> QED BY <1>1, <1>2

LEMMA CalledTyped ==
  ASSUME VarsOK, NEW seam \in Tools \cup Providers, Called(seam)
  PROVE  /\ seen' \in [Tools \cup Providers -> Nat]
         /\ seen'[seam] = seen[seam] + 1
         /\ \A s \in Tools \cup Providers : s # seam => seen'[s] = seen[s]
  BY DEF VarsOK, Called

\* A reply of either provider, and what the platform makes of it.
Given == [reply : Replies, from : Nat \cup {None}]

LEMMA ReplyIs ==
  ASSUME VarsOK, NEW p \in {"planner", "fallback"}
  PROVE  /\ Reply(p) \in Given
         /\ popped[p] < Len(Script(sessions)) => Reply(p) = Script(sessions)[popped[p] + 1]
<1>1. Script(sessions) \in Seq(Planned) /\ popped[p] \in Nat
  BY CaseIs, ScriptIs DEF VarsOK
<1>2. CASE popped[p] < Len(Script(sessions))
  <2>1. Reply(p) = Script(sessions)[popped[p] + 1]
    BY <1>2 DEF Reply
  <2>2. popped[p] + 1 \in 1..Len(Script(sessions))
    BY <1>1, <1>2, LenProperties
  <2>3. Script(sessions)[popped[p] + 1] \in Planned
    BY <1>1, <2>2, ElementOfSeq
  <2> QED BY <2>1, <2>3 DEF Planned, Given
<1>3. CASE ~(popped[p] < Len(Script(sessions)))
  BY <1>3 DEF Reply, Given, Replies
<1> QED BY <1>2, <1>3

\* The entries a planner's reply can leave in the history, and where they lead.
Taken(text, from, type) ==
  /\ history' = Append(history, Entry(type, None, from))
  /\ \/ type = "proposed_answer" /\ text = "final" /\ pc' = "validate"
     \/ type = "protocol_error" /\ text = "garbage" /\ pc' = "plan"
     \/ type = "tool_denied" /\ text \in Ungranted /\ pc' = "plan"
     \/ type = text /\ text \in Granted /\ pc' = "tool"
Parked(text) == text \in Gated /\ pc' = "waiting_approval" /\ UNCHANGED history

LEMMA TakeIs ==
  ASSUME NEW r \in Given, NEW text \in Replies, Take(r, text)
  PROVE  /\ steps_used' = steps_used + 1
         /\ Parked(text) \/ \E type \in Events \cup Granted : Taken(text, r.from, type)
<1>1. CASE text = "final"
  BY <1>1, LocalAssumption DEF Take, Taken, Events, Tools
<1>2. CASE text = "garbage"
  BY <1>2, LocalAssumption DEF Take, Taken, Events, Tools
<1>3. CASE text \in Ungranted
  BY <1>3, LocalAssumption DEF Take, Taken, Events, Tools
<1>4. CASE text \in Gated
  BY <1>4, LocalAssumption DEF Take, Parked, Tools
<1>5. CASE text \in Granted
  BY <1>5, LocalAssumption DEF Take, Taken, Tools
<1> QED BY <1>1, <1>2, <1>3, <1>4, <1>5 DEF Replies, Tools

LEMMA EntryGrows ==
  ASSUME VarsOK, NEW type \in Events \cup Granted, NEW from \in Nat \cup {None},
         history' = Append(history, Entry(type, None, from))
  PROVE  /\ history' \in Seq(HistoryEntry) /\ Len(history') = Len(history) + 1
         /\ \A k \in 1..Len(history) : history'[k] = history[k]
         /\ history'[Len(history) + 1] = Entry(type, None, from)
         /\ DOMAIN history' = 1..(Len(history) + 1)
<1>1. Entry(type, None, from) \in HistoryEntry
  BY DEF Entry, HistoryEntry
<1>2. history \in Seq(HistoryEntry)
  BY DEF VarsOK
<1>3. /\ history' \in Seq(HistoryEntry) /\ Len(history') = Len(history) + 1
      /\ \A k \in 1..Len(history) : history'[k] = history[k]
      /\ history'[Len(history) + 1] = Entry(type, None, from)
  BY <1>1, <1>2, AppendProperties
<1> QED BY <1>3, LenProperties

LEMMA TInit == Init => TInv
<1> SUFFICES ASSUME Init PROVE TInv
  OBVIOUS
<1>1. /\ sessions \in SessionLists /\ faults \in FaultLists /\ max_steps \in StepCaps
      /\ session = 1 /\ pc = "plan" /\ before = 0 /\ steps_used = 0 /\ rejected = FALSE
      /\ trajectory = None /\ calls = <<>> /\ fired = <<>> /\ history = <<>>
  BY DEF Init
<1>2. Len(sessions) \in Nat \ {0} /\ max_steps \in Nat
  BY <1>1, LocalAssumption, EmptySeq
<1>3. seen \in [Tools \cup Providers -> Nat] /\ popped \in [{"planner", "fallback"} -> Nat]
  BY DEF Init
<1>4. 1 \in 1..Len(sessions) /\ 0 \in 0..max_steps
  BY <1>2
<1>5. /\ calls \in Seq(Granted) /\ fired \in Seq(Firing) /\ history \in Seq(HistoryEntry)
      /\ before \in 0..Len(calls) /\ Len(fired) = 0
  BY <1>1, EmptySeq
<1>6. VarsOK
  <2>1. \A k \in 1..Len(fired) : fired[k].fault \in 1..Len(faults)
    BY <1>5
  <2>2. session \in 1..Len(sessions) /\ steps_used \in 0..max_steps /\ rejected \in BOOLEAN
        /\ pc \in Ended \cup {"plan", "tool", "validate", "done"}
    BY <1>1, <1>4
  <2> QED BY <1>1, <1>3, <1>5, <2>1, <2>2 DEF VarsOK
<1>7. PlaceOK
  BY <1>1 DEF PlaceOK
<1> QED BY <1>6, <1>7 DEF TInv

\* One planner step, whichever provider answered and whatever a fault did.
LEMMA PlanTyped ==
  ASSUME TInv, MayPlan, NEW kinds,
         UNCHANGED fired \/ \E f : FiredBy("planner", kinds, f),
         Called("planner"), NEW p \in {"planner", "fallback"},
         popped' = [popped EXCEPT ![p] = @ + 1],
         NEW r \in Given, NEW text \in Replies, Take(r, text), Unplanned
  PROVE  TInv'
<1>0. VarsOK
  BY DEF TInv
<1>1. "planner" \in Tools \cup Providers
  BY DEF Providers
<1>2. /\ fired' \in Seq(Firing)
      /\ \A k \in 1..Len(fired') : fired'[k].fault \in 1..Len(faults)
  BY <1>0, <1>1, FiringsTyped
<1>3. seen' \in [Tools \cup Providers -> Nat]
  BY <1>0, <1>1, CalledTyped
<1>4. popped' \in [{"planner", "fallback"} -> Nat]
  BY <1>0 DEF VarsOK
<1>5. steps_used' = steps_used + 1 /\ steps_used < max_steps /\ pc = "plan"
  BY TakeIs DEF MayPlan
<1>6. steps_used' \in 0..max_steps
  BY <1>0, <1>5, CaseIs, LengthsAre
<1>7. UNCHANGED <<sessions, faults, max_steps, session, calls, before, rejected, trajectory>>
  BY DEF Unplanned, case
<1>8. CASE Parked(text)
  <2>1. history' = history /\ pc' = "waiting_approval"
    BY <1>8 DEF Parked
  <2> QED BY <1>0, <1>2, <1>3, <1>4, <1>5, <1>6, <1>7, <2>1
          DEF TInv, VarsOK, PlaceOK, Ended
<1>9. CASE \E type \in Events \cup Granted : Taken(text, r.from, type)
  <2>1. PICK type \in Events \cup Granted : Taken(text, r.from, type)
    BY <1>9
  <2>2. history' = Append(history, Entry(type, None, r.from)) /\ r.from \in Nat \cup {None}
    BY <2>1 DEF Taken, Given
  <2>3. /\ history' \in Seq(HistoryEntry) /\ Len(history') = Len(history) + 1
        /\ history'[Len(history) + 1] = Entry(type, None, r.from)
    BY <1>0, <2>1, <2>2, EntryGrows
  <2>4. pc' \in {"plan", "tool", "validate"} /\ (pc' = "tool" => type \in Granted)
    BY <2>1 DEF Taken
  <2>5. Len(history') # 0 /\ Tool' = type
    BY <1>0, <2>3, LengthsAre DEF Tool, Last, Entry
  <2> QED BY <1>0, <1>2, <1>3, <1>4, <1>5, <1>6, <1>7, <2>3, <2>4, <2>5
          DEF TInv, VarsOK, PlaceOK
<1> QED BY <1>8, <1>9, TakeIs

\* The result of a call takes the place of the entry that asked for it.
ResultEntry(masked) ==
  Entry("tool_result", [tool |-> Tool, number |-> Len(calls) + 1, masked |-> masked],
        Last(history).from)

LEMMA ResultIs ==
  ASSUME TInv, pc = "tool", NEW masked \in BOOLEAN, Result(masked), calls' = Recorded
  PROVE  /\ history' \in Seq(HistoryEntry) /\ Len(history') = Len(history)
         /\ \A k \in 1..Len(history) :
              history'[k] = IF k = Len(history) THEN ResultEntry(masked) ELSE history[k]
         /\ calls' \in Seq(Granted) /\ Len(calls') = Len(calls) + 1
         /\ \A c \in 1..Len(calls) : calls'[c] = calls[c]
         /\ calls'[Len(calls) + 1] = Tool
<1>1. VarsOK /\ Tool \in Granted /\ Len(history) \in 1..Len(history)
  BY LengthsAre DEF TInv, PlaceOK
<1>2. history \in Seq(HistoryEntry) /\ calls \in Seq(Granted) /\ Len(calls) \in Nat
  BY <1>1, LengthsAre DEF VarsOK
<1>3. Last(history) \in HistoryEntry
  BY <1>1, <1>2, ElementOfSeq DEF Last
<1>4. ResultEntry(masked) \in HistoryEntry
  <2>1. [tool |-> Tool, number |-> Len(calls) + 1, masked |-> masked] \in CallRecord
    BY <1>1, <1>2 DEF CallRecord
  <2>2. Last(history).from \in Nat \cup {None}
    BY <1>3 DEF HistoryEntry
  <2> QED BY <2>1, <2>2 DEF ResultEntry, Entry, HistoryEntry, Events
<1>5. history' = [history EXCEPT ![Len(history)] = ResultEntry(masked)]
  BY DEF Result, ResultEntry, Last
<1>6. /\ history' \in Seq(HistoryEntry) /\ Len(history') = Len(history)
      /\ \A k \in 1..Len(history) :
           history'[k] = IF k = Len(history) THEN ResultEntry(masked) ELSE history[k]
  <2> DEFINE e == ResultEntry(masked)
  <2>1. e \in HistoryEntry /\ history' = [history EXCEPT ![Len(history)] = e]
    BY <1>4, <1>5
  <2> HIDE DEF e
  <2>2. /\ history' \in Seq(HistoryEntry) /\ Len(history') = Len(history)
        /\ \A k \in 1..Len(history) : history'[k] = IF k = Len(history) THEN e ELSE history[k]
    BY <1>1, <1>2, <2>1, ExceptSeq
  <2> QED BY <2>2 DEF e
<1>7. calls' = Append(calls, Tool)
  BY DEF Recorded
<1>8. /\ calls' \in Seq(Granted) /\ Len(calls') = Len(calls) + 1
      /\ \A c \in 1..Len(calls) : calls'[c] = calls[c]
      /\ calls'[Len(calls) + 1] = Tool
  BY <1>1, <1>2, <1>7, AppendProperties
<1> QED BY <1>6, <1>8

\* A call that reached its handler, whatever the handler's wrappers did.
LEMMA CallGrows ==
  ASSUME TInv, pc = "tool", calls' = Recorded
  PROVE  calls' \in Seq(Granted) /\ Len(calls') = Len(calls) + 1
  BY AppendProperties DEF TInv, VarsOK, PlaceOK, Recorded

LEMMA QuietOrActs ==
  ASSUME VarsOK, NEW seam, NEW kinds, Quiet(seam) \/ ActsAs(seam, kinds)
  PROVE  UNCHANGED fired \/ \E f : FiredBy(seam, kinds, f)
  BY ActingIs DEF Quiet

LEMMA TStep == TInv /\ [Next]_vars => TInv'
<1> SUFFICES ASSUME TInv, [Next]_vars PROVE TInv'
  OBVIOUS
<1>0. VarsOK /\ PlaceOK
  BY DEF TInv
<1>1. CASE Plan
  <2>1. UNCHANGED fired \/ \E f : FiredBy("planner", {"delay"}, f)
    BY <1>0, <1>1, QuietOrActs DEF Plan
  <2>2. Reply("planner") \in Given /\ Reply("planner").reply \in Replies
    BY <1>0, ReplyIs DEF Given
  <2> QED BY <1>1, <2>1, <2>2, PlanTyped DEF Plan
<1>2. CASE PlanTruncated
  <2>1. UNCHANGED fired \/ \E f : FiredBy("planner", {"truncated"}, f)
    BY <1>0, <1>2, QuietOrActs DEF PlanTruncated
  <2>2. Reply("planner") \in Given /\ "garbage" \in Replies
    BY <1>0, ReplyIs DEF Replies
  <2> QED BY <1>2, <2>1, <2>2, PlanTyped DEF PlanTruncated
<1>3. CASE PlanFallsBack
  <2>1. UNCHANGED fired \/ \E f : FiredBy("planner", {"retryable_error"}, f)
    BY <1>0, <1>3, QuietOrActs DEF PlanFallsBack
  <2>2. Reply("fallback") \in Given /\ Reply("fallback").reply \in Replies
    BY <1>0, ReplyIs DEF Given
  <2> QED BY <1>3, <2>1, <2>2, PlanTyped DEF PlanFallsBack
<1>4. CASE StepCap
  BY <1>0, <1>4 DEF StepCap, Unplanned, case, run, TInv, VarsOK, PlaceOK, Ended
<1>5. ASSUME NEW masked \in BOOLEAN, NEW kinds, pc = "tool",
             Quiet(Tool) \/ ActsAs(Tool, kinds),
             calls' = Recorded, Result(masked), Called(Tool), pc' = "plan",
             UNCHANGED <<case, session, popped, before, steps_used, rejected, trajectory>>
      PROVE  TInv'
  <2>1. Tool \in Tools \cup Providers
    BY <1>0, <1>5 DEF PlaceOK, Tools
  <2>2. UNCHANGED fired \/ \E f : FiredBy(Tool, kinds, f)
    BY <1>0, <1>5, QuietOrActs
  <2>3. /\ fired' \in Seq(Firing)
        /\ \A k \in 1..Len(fired') : fired'[k].fault \in 1..Len(faults)
    BY <1>0, <2>1, <2>2, FiringsTyped
  <2>4. seen' \in [Tools \cup Providers -> Nat]
    BY <1>0, <1>5, <2>1, CalledTyped
  <2>5. history' \in Seq(HistoryEntry) /\ calls' \in Seq(Granted) /\ Len(calls') = Len(calls) + 1
    BY <1>5, ResultIs
  <2>6. before \in 0..Len(calls')
    BY <1>0, <2>5, LengthsAre DEF VarsOK
  <2> QED BY <1>0, <1>5, <2>3, <2>4, <2>5, <2>6 DEF TInv, VarsOK, PlaceOK, case
<1>6. CASE ToolRuns
  BY <1>5, <1>6 DEF ToolRuns
<1>7. CASE ToolMasked
  BY <1>5, <1>7 DEF ToolMasked, RecordedThoughMasked
<1>8. CASE ToolRaises
  <2>1. Tool \in Tools \cup Providers /\ pc = "tool" /\ calls' = Recorded
    BY <1>0, <1>8 DEF ToolRaises, PlaceOK, Tools
  <2>2. UNCHANGED fired \/ \E f : FiredBy(Tool, {"raise"}, f)
    BY <1>0, <1>8, QuietOrActs DEF ToolRaises
  <2>3. /\ fired' \in Seq(Firing)
        /\ \A k \in 1..Len(fired') : fired'[k].fault \in 1..Len(faults)
    BY <1>0, <2>1, <2>2, FiringsTyped
  <2>4. seen' \in [Tools \cup Providers -> Nat]
    BY <1>0, <1>8, <2>1, CalledTyped DEF ToolRaises
  <2>5. calls' \in Seq(Granted) /\ Len(calls') = Len(calls) + 1
    BY <2>1, CallGrows
  <2>6. before \in 0..Len(calls')
    BY <1>0, <2>5, LengthsAre DEF VarsOK
  <2> QED BY <1>0, <1>8, <2>3, <2>4, <2>5, <2>6
          DEF ToolRaises, TInv, VarsOK, PlaceOK, case, run
<1>9. CASE ProviderRaises
  <2>1. PICK seam \in Providers : Called(seam) /\ \E kinds : ActsAs(seam, kinds)
    BY <1>9 DEF ProviderRaises, Providers
  <2>2. PICK kinds : UNCHANGED fired \/ \E f : FiredBy(seam, kinds, f)
    BY <1>0, <2>1, QuietOrActs
  <2>3. /\ fired' \in Seq(Firing)
        /\ \A k \in 1..Len(fired') : fired'[k].fault \in 1..Len(faults)
    BY <1>0, <2>1, <2>2, FiringsTyped
  <2>4. seen' \in [Tools \cup Providers -> Nat]
    BY <1>0, <2>1, CalledTyped
  <2> QED BY <1>0, <1>9, <2>3, <2>4 DEF ProviderRaises, TInv, VarsOK, PlaceOK, case, run
<1>10. CASE Validate
  <2>0. "validator" \in Tools \cup Providers /\ pc = "validate" /\ Len(history) # 0
    BY <1>0, <1>10 DEF Validate, Providers, PlaceOK
  <2>1. UNCHANGED fired \/ \E f : FiredBy("validator", {"delay", "truncated"}, f)
    BY <1>0, <1>10, QuietOrActs DEF Validate
  <2>2. /\ fired' \in Seq(Firing)
        /\ \A k \in 1..Len(fired') : fired'[k].fault \in 1..Len(faults)
    BY <1>0, <2>0, <2>1, FiringsTyped
  <2>3. seen' \in [Tools \cup Providers -> Nat]
    BY <1>0, <1>10, <2>0, CalledTyped DEF Validate
  <2>4. CASE pc' = "completed" /\ UNCHANGED <<history, rejected>>
    BY <1>0, <1>10, <2>2, <2>3, <2>4 DEF Validate, TInv, VarsOK, PlaceOK, case, Ended
  <2>5. CASE /\ pc' = "plan" /\ rejected' = TRUE
             /\ history' = Append(history, Entry("validator_feedback", None, Last(history).from))
    <3>1. Last(history).from \in Nat \cup {None}
      <4>1. Last(history) \in HistoryEntry
        BY <1>0, <2>0, LengthsAre, ElementOfSeq DEF VarsOK, Last
      <4> QED BY <4>1 DEF HistoryEntry
    <3>2. "validator_feedback" \in Events \cup Granted
      BY DEF Events
    <3>3. history' \in Seq(HistoryEntry)
      BY <1>0, <2>5, <3>1, <3>2, EntryGrows
    <3> QED BY <1>0, <1>10, <2>2, <2>3, <2>5, <3>3 DEF Validate, TInv, VarsOK, PlaceOK, case
  <2> QED BY <1>10, <2>4, <2>5 DEF Validate
<1>11. CASE NextSession
  <2>1. session' \in 1..Len(sessions) /\ session' # 1
    BY <1>0, <1>11, CaseIs, LengthsAre DEF NextSession, VarsOK
  <2>2. before' \in 0..Len(calls) /\ steps_used' \in 0..max_steps /\ history' \in Seq(HistoryEntry)
    BY <1>0, <1>11, CaseIs, LengthsAre, EmptySeq DEF NextSession
  <2>3. pc # "done" /\ pc' = "plan"
    BY <1>11 DEF NextSession, Ended
  <2> QED BY <1>0, <1>11, <2>1, <2>2, <2>3 DEF NextSession, TInv, VarsOK, PlaceOK, case
<1>12. CASE Return
  BY <1>0, <1>12 DEF Return, TInv, VarsOK, PlaceOK, case, run
<1>13. CASE UNCHANGED vars
  BY <1>0, <1>13 DEF vars, TInv, VarsOK, PlaceOK, case, run, Tool
<1> QED BY <1>1, <1>2, <1>3, <1>4, <1>6, <1>7, <1>8, <1>9, <1>10, <1>11, <1>12, <1>13 DEF Next

LEMMA TInvariant == Spec => []TInv
  BY TInit, TStep, PTL DEF Spec

(***************************************************************************)
(* The state of a case keeps its types: no session beyond the list, no     *)
(* step past the cap, calls only of granted tools, firings only of the     *)
(* case's faults (build_world, _run_sessions, faults.py).                  *)
(***************************************************************************)
THEOREM TypeCorrect == Spec => []TypeOK
<1>1. TInv => TypeOK
  BY CaseIs, LengthsAre DEF TInv, VarsOK, PlaceOK, TypeOK
<1> QED BY <1>1, TInvariant, PTL

-----------------------------------------------------------------------------
(* Faults: one at most per call, and none that aborts is survived.         *)

SeamOf(k) == faults[fired[k].fault].seam

\* Every firing was in a call of its seam that is over, and no two share one.
FiringsBelow ==
  /\ \A k \in 1..Len(fired) : /\ fired[k].call_index < faults[fired[k].fault].times
                              /\ fired[k].call_index < seen[SeamOf(k)]
  /\ \A k, m \in 1..Len(fired) :
       k # m /\ SeamOf(k) = SeamOf(m) => fired[k].call_index # fired[m].call_index

Survivable(fs, n) == \A k \in 1..n : ~Aborts(faults[fs[k].fault])

NoAbort ==
  pc # "done" \/ trajectory.status # "target_error" => Survivable(fired, Len(fired))

FInv == FiringsBelow /\ NoAbort

LEMMA FInit == Init => FInv
<1> SUFFICES ASSUME Init PROVE FInv
  OBVIOUS
<1>1. Len(fired) = 0
  BY EmptySeq DEF Init
<1> QED BY <1>1 DEF FInv, FiringsBelow, NoAbort, Survivable

LEMMA CallKeepsFirings ==
  ASSUME VarsOK, FiringsBelow, NEW seam \in Tools \cup Providers, Called(seam), NEW kinds,
         UNCHANGED fired \/ \E f : FiredBy(seam, kinds, f), faults' = faults
  PROVE  FiringsBelow'
<1>1. \A k \in 1..Len(fired) :
        /\ SeamOf(k) \in Tools \cup Providers /\ fired[k].call_index \in Nat
        /\ seen[SeamOf(k)] \in Nat /\ seen'[SeamOf(k)] \in Nat
        /\ seen[SeamOf(k)] <= seen'[SeamOf(k)]
  <2> SUFFICES ASSUME NEW k \in 1..Len(fired)
               PROVE  /\ SeamOf(k) \in Tools \cup Providers /\ fired[k].call_index \in Nat
                      /\ seen[SeamOf(k)] \in Nat /\ seen'[SeamOf(k)] \in Nat
                      /\ seen[SeamOf(k)] <= seen'[SeamOf(k)]
    OBVIOUS
  <2>1. fired[k].fault \in 1..Len(faults) /\ fired[k] \in Firing
    BY ElementOfSeq DEF VarsOK
  <2>2. faults[fired[k].fault] \in Fault
    BY <2>1, CaseIs, ElementOfSeq
  <2>3. SeamOf(k) \in Tools \cup Providers
    BY <2>2 DEF SeamOf, Fault
  <2>4. fired[k].call_index \in Nat
    BY <2>1 DEF Firing
  <2>5. seen[SeamOf(k)] \in Nat
    BY <2>3 DEF VarsOK
  <2>6. seen'[SeamOf(k)] = seen[SeamOf(k)] \/ seen'[SeamOf(k)] = seen[SeamOf(k)] + 1
    BY <2>3, CalledTyped
  <2> QED BY <2>3, <2>4, <2>5, <2>6
<1>2. CASE UNCHANGED fired
  <2>1. \A k \in 1..Len(fired) : SeamOf(k)' = SeamOf(k)
    BY <1>2 DEF SeamOf
  <2>2. \A k \in 1..Len(fired) : fired[k].call_index < seen'[SeamOf(k)]
    BY <1>1 DEF FiringsBelow
  <2> QED BY <1>2, <2>1, <2>2 DEF FiringsBelow
<1>3. CASE \E f : FiredBy(seam, kinds, f)
  <2>1. PICK f : FiredBy(seam, kinds, f)
    BY <1>3
  <2> DEFINE new == [fault |-> f, call_index |-> seen[seam]]
  <2>0. PICK n : n = Len(fired)
    OBVIOUS
  <2>2. new \in Firing /\ fired \in Seq(Firing) /\ fired' = Append(fired, new)
    BY <2>1, CaseIs DEF VarsOK, FiredBy, Firing
  <2>3. new.fault = f /\ new.call_index = seen[seam] /\ seen[seam] < faults[f].times
        /\ faults[f].seam = seam
    BY <2>1 DEF FiredBy
  <2> HIDE DEF new
  <2>4. /\ Len(fired') = n + 1 /\ fired'[n + 1] = new
        /\ \A k \in 1..n : fired'[k] = fired[k]
    BY <2>0, <2>2, AppendProperties
  <2>5. n \in Nat
    BY <2>0, LengthsAre
  <2>6. \A k \in 1..Len(fired') : k \in 1..n \/ k = n + 1
    BY <2>4, <2>5
  <2>7. \A k \in 1..n : SeamOf(k)' = SeamOf(k)
    BY <2>4 DEF SeamOf
  <2>8. SeamOf(n + 1)' = seam
    BY <2>3, <2>4 DEF SeamOf
  <2>9. seen'[seam] = seen[seam] + 1 /\ seen[seam] \in Nat
    BY CalledTyped DEF VarsOK
  <2>10. \A k \in 1..n : /\ fired[k].call_index < faults[fired[k].fault].times
                         /\ fired[k].call_index < seen'[SeamOf(k)]
                         /\ SeamOf(k) = seam => fired[k].call_index < seen[seam]
    BY <1>1, <2>0 DEF FiringsBelow
  <2>11. ASSUME NEW k \in 1..Len(fired')
         PROVE  /\ fired'[k].call_index < faults[fired'[k].fault].times
                /\ fired'[k].call_index < seen'[SeamOf(k)']
    <3>1. CASE k \in 1..n
      BY <2>4, <2>7, <2>10, <3>1
    <3>2. CASE k = n + 1
      BY <2>3, <2>4, <2>8, <2>9, <3>2
    <3> QED BY <2>6, <3>1, <3>2
  <2>12. \A k \in 1..n : SeamOf(k) = seam => fired[k].call_index # seen[seam]
    BY <1>1, <2>0, <2>9, <2>10
  <2>13. ASSUME NEW k \in 1..Len(fired'), NEW m \in 1..Len(fired'), k # m,
                SeamOf(k)' = SeamOf(m)'
         PROVE  fired'[k].call_index # fired'[m].call_index
    <3>1. CASE k \in 1..n /\ m \in 1..n
      <4>1. SeamOf(k) = SeamOf(m)
        BY <2>7, <2>13, <3>1
      <4>2. fired[k].call_index # fired[m].call_index
        BY <2>0, <2>13, <3>1, <4>1 DEF FiringsBelow
      <4> QED BY <2>4, <3>1, <4>2
    <3>2. CASE k \in 1..n /\ m = n + 1
      BY <2>3, <2>4, <2>7, <2>8, <2>12, <2>13, <3>2
    <3>3. CASE m \in 1..n /\ k = n + 1
      BY <2>3, <2>4, <2>7, <2>8, <2>12, <2>13, <3>3
    <3> QED BY <2>6, <2>13, <3>1, <3>2, <3>3
  <2> QED BY <2>11, <2>13 DEF FiringsBelow
<1> QED BY <1>2, <1>3

\* A fault whose kind the run survives.
LEMMA FiringIsSurvived ==
  ASSUME VarsOK, Survivable(fired, Len(fired)), NEW seam, NEW kinds,
         UNCHANGED fired \/ \E f : FiredBy(seam, kinds, f),
         "raise" \notin kinds /\ "fatal_error" \notin kinds,
         seam # "validator" \/ "retryable_error" \notin kinds, faults' = faults
  PROVE  Survivable(fired, Len(fired))'
<1>1. CASE UNCHANGED fired
  BY <1>1 DEF Survivable, Aborts
<1>2. CASE \E f : FiredBy(seam, kinds, f)
  <2>1. PICK f : FiredBy(seam, kinds, f)
    BY <1>2
  <2> DEFINE new == [fault |-> f, call_index |-> seen[seam]]
  <2>2. ~Aborts(faults[f])
    BY <2>1 DEF FiredBy, Aborts
  <2>3. seen[seam] \in Nat
    <3>1. faults[f] \in Fault
      BY <2>1, CaseIs, ElementOfSeq DEF FiredBy
    <3>2. seam \in Tools \cup Providers
      BY <2>1, <3>1 DEF FiredBy, Fault
    <3> QED BY <3>2 DEF VarsOK
  <2>4. new \in Firing /\ fired \in Seq(Firing) /\ fired' = Append(fired, new) /\ new.fault = f
    BY <2>1, <2>3, CaseIs DEF VarsOK, FiredBy, Firing
  <2> HIDE DEF new
  <2>5. /\ Len(fired') = Len(fired) + 1 /\ fired'[Len(fired) + 1] = new
        /\ \A k \in 1..Len(fired) : fired'[k] = fired[k]
    BY <2>4, AppendProperties
  <2>6. \A k \in 1..Len(fired') : k \in 1..Len(fired) \/ k = Len(fired) + 1
    BY <2>5, LengthsAre
  <2>7. ASSUME NEW k \in 1..Len(fired') PROVE ~Aborts(faults'[fired'[k].fault])
    BY <2>2, <2>4, <2>5, <2>6 DEF Survivable
  <2> QED BY <2>7 DEF Survivable, Aborts
<1> QED BY <1>1, <1>2

LEMMA FStep == TInv /\ FInv /\ [Next]_vars => FInv'
<1> SUFFICES ASSUME TInv, FInv, [Next]_vars PROVE FInv'
  OBVIOUS
<1>0. VarsOK /\ FiringsBelow /\ NoAbort
  BY DEF TInv, FInv
\* A call of a seam with a fault that the run survives, or with none.
<1>1. ASSUME NEW seam \in Tools \cup Providers, NEW kinds, pc # "done", pc' # "done",
             Quiet(seam) \/ ActsAs(seam, kinds), Called(seam), faults' = faults,
             "raise" \notin kinds, "fatal_error" \notin kinds,
             seam # "validator" \/ "retryable_error" \notin kinds
      PROVE  FInv'
  <2>1. UNCHANGED fired \/ \E f : FiredBy(seam, kinds, f)
    BY <1>0, <1>1, QuietOrActs
  <2>2. FiringsBelow'
    BY <1>0, <1>1, <2>1, CallKeepsFirings
  <2>3. Survivable(fired, Len(fired))'
    BY <1>0, <1>1, <2>1, FiringIsSurvived DEF NoAbort
  <2> QED BY <2>2, <2>3 DEF FInv, NoAbort
\* A call that aborts the case.
<1>2. ASSUME NEW seam \in Tools \cup Providers, NEW kinds, ActsAs(seam, kinds),
             Called(seam), faults' = faults, Aborted, pc' = "done"
      PROVE  FInv'
  <2>1. UNCHANGED fired \/ \E f : FiredBy(seam, kinds, f)
    BY <1>0, <1>2, QuietOrActs
  <2>2. FiringsBelow'
    BY <1>0, <1>2, <2>1, CallKeepsFirings
  <2>3. trajectory'.status = "target_error"
    BY <1>2 DEF Aborted
  <2> QED BY <1>2, <2>2, <2>3 DEF FInv, NoAbort
\* A step that calls nothing.
<1>3. ASSUME UNCHANGED <<seen, fired, faults>>, pc # "done",
             pc' # "done" \/ trajectory'.status # "target_error"
      PROVE  FInv'
  <2>1. FiringsBelow'
    BY <1>0, <1>3 DEF FiringsBelow, SeamOf
  <2>2. Survivable(fired, Len(fired))'
    BY <1>0, <1>3 DEF NoAbort, Survivable, Aborts
  <2> QED BY <2>1, <2>2 DEF FInv, NoAbort
<1>4. "planner" \in Tools \cup Providers /\ "validator" \in Tools \cup Providers
  BY DEF Providers
<1>5. pc = "tool" => Tool \in Tools \cup Providers
  BY DEF TInv, PlaceOK, Tools
<1>6. MayPlan => pc # "done"
  BY DEF MayPlan
<1>7. \A r \in Given, text \in Replies : Take(r, text) => pc' # "done"
  BY TakeIs DEF Taken, Parked
<1>8. \A p \in {"planner", "fallback"} : Reply(p) \in Given /\ Reply(p).reply \in Replies
  BY <1>0, ReplyIs DEF Given
<1>9. "garbage" \in Replies
  BY DEF Replies
<1>10. CASE Plan
  <2>1. pc' # "done"
    BY <1>7, <1>8, <1>10 DEF Plan
  <2> QED BY <1>1, <1>4, <1>6, <1>10, <2>1 DEF Plan, Unplanned, case
<1>11. CASE PlanTruncated
  <2>1. pc' # "done"
    BY <1>7, <1>8, <1>9, <1>11 DEF PlanTruncated
  <2> QED BY <1>1, <1>4, <1>6, <1>11, <2>1 DEF PlanTruncated, Unplanned, case
<1>12. CASE PlanFallsBack
  <2>1. pc' # "done"
    BY <1>7, <1>8, <1>12 DEF PlanFallsBack
  <2> QED BY <1>1, <1>4, <1>6, <1>12, <2>1 DEF PlanFallsBack, Unplanned, case
<1>13. CASE ToolRuns
  BY <1>1, <1>5, <1>13 DEF ToolRuns, case
<1>14. CASE ToolMasked
  BY <1>1, <1>5, <1>14 DEF ToolMasked, case
<1>15. CASE ToolRaises
  BY <1>2, <1>5, <1>15 DEF ToolRaises, case
<1>16. CASE ProviderRaises
  BY <1>2, <1>4, <1>16 DEF ProviderRaises, case
<1>17. CASE Validate
  BY <1>1, <1>4, <1>17 DEF Validate, case
<1>18. CASE StepCap
  BY <1>3, <1>18 DEF StepCap, Unplanned, case
<1>19. CASE NextSession
  BY <1>3, <1>19 DEF NextSession, Ended, case
<1>20. CASE Return
  BY <1>3, <1>20 DEF Return, Ended, case
<1>21. CASE UNCHANGED vars
  <2>1. UNCHANGED <<pc, seen, fired, faults, trajectory>>
    BY <1>21 DEF vars, case
  <2>2. FiringsBelow'
    BY <1>0, <2>1 DEF FiringsBelow, SeamOf
  <2>3. NoAbort'
    BY <1>0, <2>1 DEF NoAbort, Survivable, Aborts
  <2> QED BY <2>2, <2>3 DEF FInv
<1> QED BY <1>10, <1>11, <1>12, <1>13, <1>14, <1>15, <1>16, <1>17, <1>18, <1>19, <1>20, <1>21
        DEF Next

LEMMA FInvariant == Spec => []FInv
  BY FInit, FStep, TInvariant, PTL DEF Spec

(***************************************************************************)
(* A call meets one fault at most, and a fault fires only in the first     *)
(* `times` calls of its seam (OneFaultPerCall of LocalTarget; faults.py:   *)
(* wrap_tool_handler, FaultyProvider.complete).                            *)
(***************************************************************************)
THEOREM FaultsAreOnePerCall == Spec => []OneFaultPerCall
<1>1. TInv /\ FInv => OneFaultPerCall
  <2> SUFFICES ASSUME TInv, FInv PROVE OneFaultPerCall
    OBVIOUS
  <2>1. DOMAIN fired = 1..Len(fired)
    BY LengthsAre DEF TInv
  <2> QED BY <2>1 DEF FInv, FiringsBelow, SeamOf, OneFaultPerCall
<1> QED BY <1>1, TInvariant, FInvariant, PTL

-----------------------------------------------------------------------------
(* Results and calls: the tool results of a session are, in order, its     *)
(* recorded calls.                                                         *)

Number(k) == history[k].call.number

ResultsAreCalls ==
  /\ \A k \in Results : /\ Number(k) \in SessionCalls
                        /\ history[k].call.tool = calls[Number(k)]
  /\ \A j, k \in Results : j < k => Number(j) < Number(k)
  /\ \A c \in SessionCalls : \E k \in Results : Number(k) = c

RInv == pc # "done" => ResultsAreCalls

LEMMA RInit == Init => RInv
<1> SUFFICES ASSUME Init PROVE ResultsAreCalls
  BY DEF RInv
<1>1. history = <<>> /\ calls = <<>> /\ before = 0 /\ Len(<<>>) = 0 /\ DOMAIN history = {}
  BY EmptySeq DEF Init
<1>2. Results = {} /\ SessionCalls = {}
  BY <1>1 DEF Results, SessionCalls
<1> QED BY <1>2 DEF ResultsAreCalls

\* An entry that is no result leaves results and calls as they were.
LEMMA OtherEntries ==
  ASSUME VarsOK, ResultsAreCalls, NEW type \in Events \cup Granted, type # "tool_result",
         NEW from \in Nat \cup {None}, history' = Append(history, Entry(type, None, from)),
         calls' = calls, before' = before
  PROVE  ResultsAreCalls'
<1>1. /\ DOMAIN history' = 1..(Len(history) + 1) /\ DOMAIN history = 1..Len(history)
      /\ \A k \in 1..Len(history) : history'[k] = history[k]
      /\ history'[Len(history) + 1].type = type /\ Len(history) \in Nat
  BY EntryGrows, LengthsAre DEF Entry
<1>2. \A k \in 1..(Len(history) + 1) : k \in 1..Len(history) \/ k = Len(history) + 1
  BY <1>1
<1>3. \A k \in 1..Len(history) : k \in 1..(Len(history) + 1)
  BY <1>1
<1>4. Results' = Results
  BY <1>1, <1>2, <1>3, Zenon DEF Results
<1>5. \A k \in Results : history'[k] = history[k]
  BY <1>1 DEF Results
<1>6. SessionCalls' = SessionCalls
  BY DEF SessionCalls
<1>7. \A k \in Results : Number(k)' = Number(k) /\ history'[k].call.tool = history[k].call.tool
  BY <1>5 DEF Number
<1>8. \A k \in Results' : /\ Number(k)' \in SessionCalls'
                          /\ history'[k].call.tool = calls'[Number(k)']
  BY <1>4, <1>6, <1>7 DEF ResultsAreCalls
<1>9. \A j, k \in Results' : j < k => Number(j)' < Number(k)'
  BY <1>4, <1>7 DEF ResultsAreCalls
<1>10. \A c \in SessionCalls' : \E k \in Results' : Number(k)' = c
  BY <1>4, <1>6, <1>7 DEF ResultsAreCalls
<1> QED BY <1>8, <1>9, <1>10 DEF ResultsAreCalls

\* The result of a call takes the next number, after all the others.
LEMMA NextResult ==
  ASSUME TInv, ResultsAreCalls, pc = "tool", NEW masked \in BOOLEAN, Result(masked),
         calls' = Recorded, before' = before
  PROVE  ResultsAreCalls'
<1>0. VarsOK /\ Tool \in Granted
  BY DEF TInv, PlaceOK
<1>1. PICK n, c : n = Len(history) /\ c = Len(calls)
  OBVIOUS
<1>2. /\ n \in Nat /\ c \in Nat /\ before \in Nat /\ before <= c /\ n \in 1..n
      /\ DOMAIN history = 1..n /\ DOMAIN history' = 1..n
      /\ \A k \in 1..n : history'[k] = IF k = n THEN ResultEntry(masked) ELSE history[k]
      /\ Len(calls') = c + 1 /\ calls'[c + 1] = Tool
      /\ \A i \in 1..c : calls'[i] = calls[i]
  <2>1. history' \in Seq(HistoryEntry) /\ Len(history') = n
    BY <1>1, ResultIs
  <2>2. DOMAIN history' = 1..n
    BY <2>1, LenProperties
  <2>3. n \in 1..n /\ before \in Nat /\ before <= c
    BY <1>0, <1>1, LengthsAre DEF TInv, VarsOK, PlaceOK
  <2> QED BY <1>0, <1>1, <2>2, <2>3, LengthsAre, ResultIs
<1>3. history[n].type # "tool_result"
  <2>1. "tool_result" \notin Granted
    BY LocalAssumption DEF Tools
  <2> QED BY <1>0, <1>1, <2>1 DEF Tool, Last
<1>4. /\ history'[n].type = "tool_result" /\ Number(n)' = c + 1
      /\ history'[n].call.tool = Tool
  <2>1. /\ ResultEntry(masked).type = "tool_result"
        /\ ResultEntry(masked).call.number = Len(calls) + 1
        /\ ResultEntry(masked).call.tool = Tool
    BY DEF ResultEntry, Entry
  <2> QED BY <1>1, <1>2, <2>1 DEF Number
<1>5. Results' = Results \cup {n} /\ n \notin Results /\ \A k \in Results : k \in 1..n /\ k # n
  BY <1>2, <1>3, <1>4, Zenon DEF Results
<1>6. \A k \in Results : history'[k] = history[k] /\ Number(k)' = Number(k)
  BY <1>2, <1>5 DEF Number
<1>7. SessionCalls = (before + 1)..c /\ SessionCalls' = (before + 1)..(c + 1)
  BY <1>1, <1>2 DEF SessionCalls
<1>8. \A k \in Results : Number(k) \in (before + 1)..c /\ history[k].call.tool = calls[Number(k)]
  BY <1>7 DEF ResultsAreCalls
<1>9. ASSUME NEW k \in Results'
      PROVE  Number(k)' \in SessionCalls' /\ history'[k].call.tool = calls'[Number(k)']
  <2>1. CASE k \in Results
    <3>1. Number(k) \in 1..c /\ Number(k) \in (before + 1)..(c + 1)
      BY <1>2, <1>8, <2>1
    <3> QED BY <1>2, <1>6, <1>7, <1>8, <2>1, <3>1
  <2>2. CASE k = n
    <3>1. c + 1 \in (before + 1)..(c + 1)
      BY <1>2
    <3> QED BY <1>2, <1>4, <1>7, <2>2, <3>1
  <2> QED BY <1>5, <2>1, <2>2
<1>10. ASSUME NEW j \in Results', NEW k \in Results', j < k
       PROVE  Number(j)' < Number(k)'
  <2>1. CASE j \in Results /\ k \in Results
    BY <1>6, <1>10, <2>1 DEF ResultsAreCalls
  <2>2. CASE j \in Results /\ k = n
    BY <1>2, <1>4, <1>6, <1>8, <2>2
  <2>3. j # n
    BY <1>2, <1>5, <1>10
  <2> QED BY <1>5, <2>1, <2>2, <2>3
<1>11. ASSUME NEW i \in SessionCalls' PROVE \E k \in Results' : Number(k)' = i
  <2>1. CASE i = c + 1
    BY <1>4, <1>5, <2>1
  <2>2. CASE i # c + 1
    <3>1. i \in SessionCalls
      BY <1>2, <1>7, <2>2
    <3> QED BY <1>5, <1>6, <3>1 DEF ResultsAreCalls
  <2> QED BY <2>1, <2>2
<1> QED BY <1>9, <1>10, <1>11 DEF ResultsAreCalls

LEMMA RStep == TInv /\ RInv /\ [Next]_vars => RInv'
<1> SUFFICES ASSUME TInv, RInv, [Next]_vars PROVE RInv'
  OBVIOUS
<1>0. VarsOK
  BY DEF TInv
\* A planner step.
<1>1. ASSUME MayPlan, NEW r \in Given, NEW text \in Replies, Take(r, text), Unplanned
      PROVE  RInv'
  <2>1. ResultsAreCalls /\ calls' = calls /\ before' = before
    BY <1>1 DEF MayPlan, RInv, Unplanned
  <2>2. CASE Parked(text)
    <3>1. history' = history
      BY <2>2 DEF Parked
    <3> QED BY <2>1, <3>1 DEF RInv, ResultsAreCalls, Results, SessionCalls, Number
  <2>3. CASE \E type \in Events \cup Granted : Taken(text, r.from, type)
    <3>1. PICK type \in Events \cup Granted : Taken(text, r.from, type)
      BY <2>3
    <3>2. type # "tool_result"
      BY <3>1, LocalAssumption DEF Taken, Tools
    <3>3. r.from \in Nat \cup {None} /\ history' = Append(history, Entry(type, None, r.from))
      BY <3>1 DEF Taken, Given
    <3>4. ResultsAreCalls'
      BY <1>0, <2>1, <3>2, <3>3, OtherEntries
    <3> QED BY <3>4 DEF RInv
  <2> QED BY <1>1, <2>2, <2>3, TakeIs
<1>2. \A p \in {"planner", "fallback"} : Reply(p) \in Given /\ Reply(p).reply \in Replies
  BY <1>0, ReplyIs DEF Given
<1>3. "garbage" \in Replies
  BY DEF Replies
<1>4. CASE Plan
  BY <1>1, <1>2, <1>4 DEF Plan
<1>5. CASE PlanTruncated
  BY <1>1, <1>2, <1>3, <1>5 DEF PlanTruncated
<1>6. CASE PlanFallsBack
  BY <1>1, <1>2, <1>6 DEF PlanFallsBack
<1>7. CASE ToolRuns
  <2>1. ResultsAreCalls'
    BY <1>7, NextResult DEF ToolRuns, RInv
  <2> QED BY <2>1 DEF RInv
<1>8. CASE ToolMasked
  <2>1. ResultsAreCalls'
    BY <1>8, NextResult DEF ToolMasked, RecordedThoughMasked, RInv
  <2> QED BY <2>1 DEF RInv
<1>9. CASE ToolRaises \/ ProviderRaises \/ Return
  BY <1>9 DEF ToolRaises, ProviderRaises, Return, RInv
<1>10. CASE Validate
  <2>1. ResultsAreCalls /\ calls' = calls /\ before' = before /\ Len(history) # 0
    BY <1>10 DEF Validate, RInv, TInv, PlaceOK
  <2>2. CASE UNCHANGED <<history, rejected>>
    BY <2>1, <2>2 DEF RInv, ResultsAreCalls, Results, SessionCalls, Number
  <2>3. CASE history' = Append(history, Entry("validator_feedback", None, Last(history).from))
    <3>1. Last(history).from \in Nat \cup {None}
      <4>1. Last(history) \in HistoryEntry
        BY <1>0, <2>1, LengthsAre, ElementOfSeq DEF VarsOK, Last
      <4> QED BY <4>1 DEF HistoryEntry
    <3>2. "validator_feedback" \in Events \cup Granted
      BY DEF Events
    <3>3. ResultsAreCalls'
      BY <1>0, <2>1, <2>3, <3>1, <3>2, OtherEntries
    <3> QED BY <3>3 DEF RInv
  <2> QED BY <1>10, <2>2, <2>3 DEF Validate
<1>11. CASE NextSession
  <2>1. history' = <<>> /\ DOMAIN history' = {} /\ calls' = calls /\ before' = Len(calls)
    BY <1>11, EmptySeq DEF NextSession
  <2>2. Results' = {} /\ SessionCalls' = {}
    BY <1>0, <2>1, LengthsAre DEF Results, SessionCalls
  <2> QED BY <2>2 DEF RInv, ResultsAreCalls
<1>12. CASE StepCap \/ UNCHANGED vars
  <2>1. UNCHANGED <<history, calls, before>> /\ (pc' # "done" => pc # "done")
    BY <1>12 DEF StepCap, Unplanned, run, vars
  <2> QED BY <2>1 DEF RInv, ResultsAreCalls, Results, SessionCalls, Number
<1> QED BY <1>4, <1>5, <1>6, <1>7, <1>8, <1>9, <1>10, <1>11, <1>12 DEF Next

LEMMA RInvariant == Spec => []RInv
  BY RInit, RStep, TInvariant, PTL DEF Spec

\* The results of a session and its calls are in order-preserving bijection,
\* and so are those of one tool.
LEMMA ResultsIso ==
  ASSUME TInv, ResultsAreCalls
  PROVE  /\ IsFiniteSet(Results) /\ Results \subseteq Nat
         /\ IsFiniteSet(SessionCalls) /\ SessionCalls \subseteq Nat
         /\ OrderIso([k \in Results |-> Number(k)], Results, SessionCalls)
<1>1. DOMAIN history = 1..Len(history) /\ Len(history) \in Nat /\ before \in Nat
      /\ Len(calls) \in Nat
  BY LengthsAre DEF TInv
<1>2. Results \subseteq 1..Len(history) /\ IsFiniteSet(1..Len(history))
  BY <1>1, FS_Interval DEF Results
<1>3. IsFiniteSet(Results) /\ Results \subseteq Nat
  <2>1. PICK S : S = 1..Len(history)
    OBVIOUS
  <2>2. IsFiniteSet(S) /\ Results \subseteq S
    BY <1>2, <2>1
  <2>3. IsFiniteSet(Results)
    BY <2>2, FS_Subset
  <2> QED BY <1>1, <1>2, <2>3
<1>4. IsFiniteSet(SessionCalls) /\ SessionCalls \subseteq Nat
  <2>1. PICK a, b : a = before + 1 /\ b = Len(calls)
    OBVIOUS
  <2>2. a \in Int /\ b \in Int
    BY <1>1, <2>1
  <2>3. IsFiniteSet(a..b)
    BY <2>2, FS_Interval
  <2> QED BY <1>1, <2>1, <2>3 DEF SessionCalls
<1> QED BY <1>3, <1>4 DEF OrderIso, ResultsAreCalls

LEMMA InputIs ==
  ASSUME TInv, ResultsAreCalls, NEW k \in Results
  PROVE  Input(k) = Number(k)
<1> DEFINE tool == history[k].call.tool
           S == {j \in Results : history[j].call.tool = tool}
           T == CallsOf(tool)
           f == [j \in S |-> Number(j)]
           rank == Cardinality(ResultsOf(tool, k))
<1>1. /\ IsFiniteSet(S) /\ S \subseteq Nat /\ k \in S
      /\ IsFiniteSet(T) /\ T \subseteq Nat
  BY ResultsIso, FS_Subset DEF CallsOf
<1>2. OrderIso(f, S, T)
  <2>1. \A j \in S : Number(j) \in T
    BY DEF ResultsAreCalls, CallsOf
  <2>2. \A i, j \in S : i < j => Number(i) < Number(j)
    BY DEF ResultsAreCalls
  <2>3. \A c \in T : \E j \in S : Number(j) = c
    BY DEF ResultsAreCalls, CallsOf
  <2> HIDE DEF S, T
  <2> QED BY <1>1, <2>1, <2>2, <2>3 DEF OrderIso
<1>3. ResultsOf(tool, k) = UpTo(S, k)
  BY DEF ResultsOf, UpTo
<1>4. f[k] = Number(k)
  BY <1>1
<1>5. Input(k) = IF Cardinality(T) < rank THEN None ELSE Nth(T, rank)
  BY DEF Input
<1> HIDE DEF S, T, f, tool
<1>6. rank = Cardinality(UpTo(T, Number(k))) /\ Number(k) \in T
  <2>1. Cardinality(UpTo(T, f[k])) = Cardinality(UpTo(S, k))
    BY <1>1, <1>2, IsoKeepsRanks
  <2>2. f[k] \in T
    BY <1>1, <1>2 DEF OrderIso
  <2> QED BY <1>3, <1>4, <2>1, <2>2
<1>7. Cardinality(UpTo(T, Number(k))) <= Cardinality(T)
  BY <1>1, FS_Subset DEF UpTo
<1>8. Cardinality(T) \in Nat /\ Cardinality(UpTo(T, Number(k))) \in Nat
  BY <1>1, FS_Subset, FS_CardinalityType DEF UpTo
<1>9. Nth(T, rank) = Number(k)
  BY <1>1, <1>6, NthIs
<1> QED BY <1>5, <1>6, <1>7, <1>8, <1>9

\* The n-th tool step of what Steps gives is the session's n-th call.
LEMMA StepsAre ==
  ASSUME TInv, ResultsAreCalls
  PROVE  /\ Results = {k \in DOMAIN Steps : IsTool(Steps[k])}
         /\ Cardinality(Results) = Len(calls) - before
         /\ \A n \in 1..Cardinality(Results) :
              /\ Steps[Nth(Results, n)].name = calls[before + n]
              /\ Steps[Nth(Results, n)].input = before + n
<1>1. Len(calls) \in Nat /\ before \in Nat /\ before <= Len(calls)
  BY LengthsAre DEF TInv, VarsOK
<1>2. DOMAIN Steps = DOMAIN history
  BY DEF Steps
<1>3. Results = {k \in DOMAIN Steps : IsTool(Steps[k])}
  <2>1. ASSUME NEW k \in DOMAIN history
        PROVE  Steps[k].kind = "tool" <=> history[k].type = "tool_result"
    BY DEF Steps, Kind
  <2> QED BY <1>2, <2>1 DEF Results, IsTool
<1> DEFINE f == [k \in Results |-> Number(k)]
<1>4. /\ IsFiniteSet(Results) /\ Results \subseteq Nat
      /\ IsFiniteSet(SessionCalls) /\ SessionCalls \subseteq Nat
      /\ OrderIso(f, Results, SessionCalls)
      /\ \A k \in Results : f[k] = Number(k)
  BY ResultsIso
<1> HIDE DEF f
<1>5. /\ Cardinality(SessionCalls) = Cardinality(Results)
      /\ \A k \in Results : Cardinality(UpTo(SessionCalls, f[k])) = Cardinality(UpTo(Results, k))
  <2>1. PICK S, T, g : S = Results /\ T = SessionCalls /\ g = f
    OBVIOUS
  <2>2. OrderIso(g, S, T)
    BY <1>4, <2>1
  <2>3. /\ Cardinality(T) = Cardinality(S)
        /\ \A k \in S : Cardinality(UpTo(T, g[k])) = Cardinality(UpTo(S, k))
    BY <2>2, IsoKeepsRanks
  <2> QED BY <2>1, <2>3
<1>6. Cardinality(SessionCalls) = Len(calls) - before
  <2>1. PICK a, b : a = before + 1 /\ b = Len(calls)
    OBVIOUS
  <2>2. a \in Int /\ b \in Int
    BY <1>1, <2>1
  <2>3. Cardinality(a..b) = IF a > b THEN 0 ELSE b - a + 1
    BY <2>2, FS_Interval
  <2> QED BY <1>1, <2>1, <2>3 DEF SessionCalls
<1>7. ASSUME NEW n \in 1..Cardinality(Results)
      PROVE  /\ Steps[Nth(Results, n)].name = calls[before + n]
             /\ Steps[Nth(Results, n)].input = before + n
  <2>1. n \in 1..(Len(calls) - before)
    BY <1>5, <1>6
  <2>2. before + n \in SessionCalls
    BY <1>1, <2>1 DEF SessionCalls
  <2>3. PICK k \in Results : Number(k) = before + n
    BY <2>2 DEF ResultsAreCalls
  <2>4. UpTo(SessionCalls, before + n) = (before + 1)..(before + n)
    BY <1>1, <2>1 DEF UpTo, SessionCalls
  <2>5. Cardinality(UpTo(SessionCalls, before + n)) = n
    <3>1. Cardinality((before + 1)..(before + n))
            = IF before + 1 > before + n THEN 0 ELSE (before + n) - (before + 1) + 1
      BY <1>1, <2>1, FS_Interval
    <3> QED BY <1>1, <2>1, <2>4, <3>1
  <2>6. Cardinality(UpTo(Results, k)) = n
    BY <1>4, <1>5, <2>3, <2>5
  <2>7. Nth(Results, n) = k
    BY <1>4, <2>6, NthIs
  <2>8. history[k].type = "tool_result" /\ k \in DOMAIN history
    BY DEF Results
  <2>9. Steps[k].name = history[k].call.tool /\ Steps[k].input = Input(k)
    BY <2>8 DEF Steps
  <2>10. history[k].call.tool = calls[before + n]
    BY <2>3 DEF ResultsAreCalls
  <2>11. Input(k) = before + n
    BY <2>3, InputIs
  <2> QED BY <2>7, <2>9, <2>10, <2>11
<1> QED BY <1>3, <1>5, <1>6, <1>7

LEMMA ReturnedSteps ==
  ASSUME TInv, RInv, Return
  PROVE  StepsAreTheCalls'
<1>1. /\ trajectory' = [status |-> pc, steps |-> Steps, steps_used |-> steps_used,
                        all_tools_used |-> AllToolsUsed(Len(calls)), faults_fired |-> fired]
      /\ calls' = calls /\ before' = before /\ pc # "done"
  BY DEF Return, Ended
<1>2. ResultsAreCalls
  BY <1>1 DEF RInv
<1>3. PICK t : t = trajectory'
  OBVIOUS
<1>4. t.steps = Steps /\ t.all_tools_used = AllToolsUsed(Len(calls))
  BY <1>1, <1>3
<1>5. ToolSteps(t) = Results
  BY <1>2, <1>4, StepsAre DEF ToolSteps
<1>6. /\ Cardinality(ToolSteps(t)) = Len(calls) - before
      /\ \A n \in 1..Cardinality(ToolSteps(t)) :
           /\ t.steps[Nth(ToolSteps(t), n)].name = calls[before + n]
           /\ t.steps[Nth(ToolSteps(t), n)].input = before + n
  BY <1>2, <1>4, <1>5, StepsAre
<1>7. calls \in Seq(Granted) /\ Len(calls) \in Nat /\ before \in Nat
      /\ calls = [n \in 1..Len(calls) |-> calls[n]]
  BY LengthsAre, LenProperties DEF TInv, VarsOK
<1>8. all_tools_used(t) = calls
  <2>1. CASE Len(sessions) = 1
    <3>1. session = 1
      BY <2>1, CaseIs DEF TInv, VarsOK
    <3>2. before = 0
      BY <3>1 DEF TInv, PlaceOK
    <3>3. all_tools_used(t) = tools_used(t)
      BY <1>4, <2>1 DEF all_tools_used, AllToolsUsed
    <3>4. tools_used(t)
            = [n \in 1..Cardinality(ToolSteps(t)) |-> t.steps[Nth(ToolSteps(t), n)].name]
      BY DEF tools_used
    <3>5. Cardinality(ToolSteps(t)) = Len(calls) /\ \A n \in 1..Len(calls) : before + n = n
      BY <1>6, <1>7, <3>2
    <3>6. \A n \in 1..Len(calls) : t.steps[Nth(ToolSteps(t), n)].name = calls[n]
      BY <1>6, <3>5
    <3>7. tools_used(t) = [n \in 1..Len(calls) |-> calls[n]]
      BY <3>4, <3>5, <3>6
    <3> QED BY <1>7, <3>3, <3>7
  <2>2. CASE Len(sessions) # 1
    <3>1. t.all_tools_used = calls
      BY <1>4, <1>7, <2>2, SubSeqFull DEF AllToolsUsed
    <3>2. calls # None
      BY <1>7, LocalAssumption
    <3> QED BY <3>1, <3>2 DEF all_tools_used
  <2> QED BY <2>1, <2>2
<1> QED BY <1>1, <1>3, <1>6, <1>8 DEF StepsAreTheCalls

LEMMA StepsInit == Init => StepsAreTheCalls
  BY DEF Init, StepsAreTheCalls

LEMMA StepsStep == TInv /\ RInv /\ StepsAreTheCalls /\ [Next]_vars => StepsAreTheCalls'
<1> SUFFICES ASSUME TInv, RInv, StepsAreTheCalls, [Next]_vars PROVE StepsAreTheCalls'
  OBVIOUS
<1>1. ASSUME trajectory' = None PROVE StepsAreTheCalls'
  BY <1>1 DEF StepsAreTheCalls
<1>2. ASSUME trajectory' = trajectory, pc # "done" PROVE StepsAreTheCalls'
  BY <1>1, <1>2 DEF TInv, PlaceOK
<1>3. CASE Plan \/ PlanTruncated \/ PlanFallsBack \/ StepCap
  BY <1>2, <1>3 DEF Plan, PlanTruncated, PlanFallsBack, StepCap, MayPlan, Unplanned
<1>4. CASE ToolRuns \/ ToolMasked \/ Validate \/ NextSession
  BY <1>2, <1>4 DEF ToolRuns, ToolMasked, Validate, NextSession, Ended
<1>5. CASE ToolRaises \/ ProviderRaises
  <2>1. trajectory'.status = "target_error"
    BY <1>5 DEF ToolRaises, ProviderRaises, Aborted
  <2> QED BY <2>1 DEF StepsAreTheCalls
<1>6. CASE Return
  BY <1>6, ReturnedSteps
<1>7. CASE UNCHANGED vars
  <2>1. UNCHANGED <<trajectory, calls, before>>
    BY <1>7 DEF vars
  <2> QED BY <2>1 DEF StepsAreTheCalls
<1> QED BY <1>3, <1>4, <1>5, <1>6, <1>7 DEF Next

(***************************************************************************)
(* The k-th tool step of a trajectory is the k-th call of the last session *)
(* with that call's own arguments, and the compared list is the calls of   *)
(* the whole case, whatever faults, denials and sessions came between      *)
(* (StepsAreTheCalls of LocalTarget; convert.py, build_world).             *)
(***************************************************************************)
THEOREM TrajectoryShowsTheCalls == Spec => []StepsAreTheCalls
  BY StepsInit, StepsStep, TInvariant, RInvariant, PTL DEF Spec

-----------------------------------------------------------------------------
(* Recoveries.                                                             *)

\* A returned trajectory carries everything that fired.
FiringsReturned == pc = "done" => trajectory.faults_fired = fired

LEMMA FiringsReturnedStep == TInv /\ FiringsReturned /\ [Next]_vars => FiringsReturned'
<1> SUFFICES ASSUME TInv, FiringsReturned, [Next]_vars, pc' = "done"
             PROVE  trajectory'.faults_fired = fired'
  BY DEF FiringsReturned
<1>0. VarsOK
  BY DEF TInv
<1>1. \A r \in Given, text \in Replies : ~Take(r, text)
  BY TakeIs DEF Taken, Parked
<1>2. \A p \in {"planner", "fallback"} : Reply(p) \in Given /\ Reply(p).reply \in Replies
  BY <1>0, ReplyIs DEF Given
<1>3. "garbage" \in Replies
  BY DEF Replies
<1>4. ~Plan /\ ~PlanTruncated /\ ~PlanFallsBack
  BY <1>1, <1>2, <1>3 DEF Plan, PlanTruncated, PlanFallsBack
<1>5. ~StepCap /\ ~ToolRuns /\ ~ToolMasked /\ ~Validate /\ ~NextSession
  BY DEF StepCap, ToolRuns, ToolMasked, Validate, NextSession
<1>6. CASE ToolRaises \/ ProviderRaises
  BY <1>6 DEF ToolRaises, ProviderRaises, Aborted
<1>7. CASE Return
  BY <1>7 DEF Return
<1>8. CASE UNCHANGED vars
  BY <1>8 DEF vars, FiringsReturned
<1> QED BY <1>4, <1>5, <1>6, <1>7, <1>8 DEF Next

(***************************************************************************)
(* A recovery is earned (RecoveryIsEarned of LocalTarget): a case graded   *)
(* as recovered had a fault, none that the run cannot survive, and really  *)
(* called the tools it was to use, in every session (_recovered_grades,    *)
(* faults.py, _run_sessions).                                              *)
(***************************************************************************)
THEOREM RecoveriesAreEarned == Spec => []RecoveryIsEarned
<1>1. TInv /\ FInv /\ StepsAreTheCalls /\ FiringsReturned => RecoveryIsEarned
  <2> SUFFICES ASSUME TInv, FInv, StepsAreTheCalls, FiringsReturned, trajectory # None,
                      NEW e \in Expects, "recovered" \in DOMAIN e, Recovered(e, trajectory)
               PROVE  /\ fired # <<>>
                      /\ \A k \in DOMAIN fired : ~Aborts(faults[fired[k].fault])
                      /\ "tools_used" \in DOMAIN e => ToolsMatch(e.tools_used, calls)
    BY DEF RecoveryIsEarned
  <2>1. /\ Len(trajectory.faults_fired) >= 1
        /\ trajectory.status = "completed"
        /\ \A d \in Plain(e) : Holds(d, e, trajectory)
    BY DEF Recovered
  <2>2. trajectory.faults_fired = fired
    BY DEF TInv, PlaceOK, FiringsReturned
  <2>3. fired # <<>>
    BY <2>1, <2>2, EmptySeq
  <2>4. \A k \in DOMAIN fired : ~Aborts(faults[fired[k].fault])
    BY <2>1, LengthsAre DEF TInv, FInv, NoAbort, Survivable
  <2>5. all_tools_used(trajectory) = calls
    BY <2>1 DEF StepsAreTheCalls
  <2>6. "tools_used" \in DOMAIN e => ToolsMatch(e.tools_used, calls)
    BY <2>1, <2>5 DEF Plain, Holds
  <2> QED BY <2>3, <2>4, <2>6
<1>2. Init => FiringsReturned
  BY DEF Init, FiringsReturned
<1> QED BY <1>1, <1>2, FiringsReturnedStep, TInvariant, FInvariant, TrajectoryShowsTheCalls, PTL
        DEF Spec

-----------------------------------------------------------------------------
(* Sessions: a sized case without faults gives each its own replies.       *)

Undisturbed == Sized /\ faults = <<>> /\ ~rejected

\* The planner has given the scripts of the sessions before and one reply
\* per step of this one, and this one's script lasts exactly as long.
InStep(f) ==
  /\ popped["planner"] = FlatStart(f, session) + steps_used
  /\ steps_used <= Len(sessions[session])
  /\ pc \in {"plan", "tool", "validate", "completed", "done"}
  /\ pc \in {"plan", "tool"} => steps_used < Len(sessions[session])
  /\ pc \in {"validate", "completed"} => steps_used = Len(sessions[session])
  /\ \A k \in 1..Len(history) : history[k].from = session

OwnReplies ==
  Undisturbed => \E f : FlatSteps(f, Tagged(sessions), Planned) /\ InStep(f)

LEMMA OwnRepliesInit == Init => OwnReplies
<1> SUFFICES ASSUME Init, Undisturbed
             PROVE  \E f : FlatSteps(f, Tagged(sessions), Planned) /\ InStep(f)
  BY DEF OwnReplies
<1>0. VarsOK
  BY TInit DEF TInv
<1>1. PICK f : FlatSteps(f, Tagged(sessions), Planned)
  BY <1>0, CaseIs, TaggedIs, FlatStepsExist
<1>2. /\ popped["planner"] = 0 /\ session = 1 /\ steps_used = 0 /\ pc = "plan"
      /\ Len(history) = 0
  BY EmptySeq DEF Init
<1>3. Len(sessions[1]) \in 1..max_steps
  BY <1>0, CaseIs DEF Undisturbed, Sized
<1>4. FlatStart(f, 1) = 0 /\ max_steps \in Nat
  BY <1>0, CaseIs DEF FlatStart
<1>5. InStep(f)
  BY <1>2, <1>3, <1>4 DEF InStep
<1> QED BY <1>1, <1>5

\* The scripts of an undisturbed case, where they are in the planner's.
LEMMA SessionScript ==
  ASSUME VarsOK, Sized, NEW f, FlatSteps(f, Tagged(sessions), Planned), NEW n \in 1..Len(sessions)
  PROVE  /\ Len(sessions[n]) \in 1..max_steps
         /\ FlatStart(f, n) \in Nat /\ FlatStart(f, n + 1) = FlatStart(f, n) + Len(sessions[n])
         /\ \A i \in 1..Len(sessions[n]) :
              /\ FlatStart(f, n) + i <= Len(Script(sessions))
              /\ Script(sessions)[FlatStart(f, n) + i] = [reply |-> sessions[n][i], from |-> n]
              /\ sessions[n][i] = "final" <=> i = Len(sessions[n])
              /\ sessions[n][i] \notin Gated
<1>1. /\ Tagged(sessions) \in Seq(Seq(Planned)) /\ Tagged(sessions) # <<>>
      /\ Len(Tagged(sessions)) = Len(sessions) /\ DOMAIN sessions = 1..Len(sessions)
      /\ \A m \in 1..Len(sessions) :
           /\ Len(Tagged(sessions)[m]) = Len(sessions[m])
           /\ DOMAIN sessions[m] = 1..Len(sessions[m])
           /\ \A i \in 1..Len(sessions[m]) :
                Tagged(sessions)[m][i] = [reply |-> sessions[m][i], from |-> m]
      /\ Script(sessions) = FlattenSeq(Tagged(sessions))
  BY CaseIs, TaggedIs
<1>2. PICK ss : ss = Tagged(sessions)
  OBVIOUS
<1>3. /\ ss \in Seq(Seq(Planned)) /\ ss # <<>> /\ FlatSteps(f, ss, Planned)
      /\ n \in 1..Len(ss) /\ Len(ss[n]) = Len(sessions[n])
  BY <1>1, <1>2
<1>4. Script(sessions) = f[Len(ss)]
  BY <1>1, <1>2, <1>3, FlattenIs
<1>5. /\ FlatStart(f, n) \in Nat /\ Len(f[n]) = FlatStart(f, n) + Len(ss[n])
      /\ \A i \in 1..Len(ss[n]) :
           /\ FlatStart(f, n) + i \in 1..Len(f[Len(ss)])
           /\ f[Len(ss)][FlatStart(f, n) + i] = ss[n][i]
  BY <1>3, FlattenAt
<1>6. FlatStart(f, n + 1) = Len(f[n])
  <2>1. n + 1 # 1 /\ (n + 1) - 1 = n
    OBVIOUS
  <2> QED BY <2>1 DEF FlatStart
<1>7. /\ Len(sessions[n]) \in 1..max_steps
      /\ \A i \in 1..Len(sessions[n]) : /\ sessions[n][i] = "final" <=> i = Len(sessions[n])
                                        /\ sessions[n][i] \notin Gated
  BY <1>1 DEF Sized
<1>8. ASSUME NEW i \in 1..Len(sessions[n])
      PROVE  /\ FlatStart(f, n) + i <= Len(Script(sessions))
             /\ Script(sessions)[FlatStart(f, n) + i] = [reply |-> sessions[n][i], from |-> n]
  <2>1. FlatStart(f, n) + i \in 1..Len(Script(sessions))
    BY <1>3, <1>4, <1>5
  <2>2. Script(sessions)[FlatStart(f, n) + i] = Tagged(sessions)[n][i]
    BY <1>2, <1>3, <1>4, <1>5
  <2> QED BY <1>1, <2>1, <2>2
<1> QED BY <1>3, <1>5, <1>6, <1>7, <1>8

LEMMA NoFaultNoFiring ==
  ASSUME VarsOK, faults = <<>>, NEW seam, NEW kinds
  PROVE  ~ActsAs(seam, kinds)
<1>1. Len(faults) = 0
  BY EmptySeq
<1> SUFFICES ASSUME ActsAs(seam, kinds) PROVE FALSE
  OBVIOUS
<1>2. PICK f : FiredBy(seam, kinds, f)
  BY ActingIs
<1>3. f \in 1..Len(faults)
  BY <1>2 DEF FiredBy
<1> QED BY <1>1, <1>3

LEMMA OwnRepliesStep == TInv /\ OwnReplies /\ [Next]_vars => OwnReplies'
<1> SUFFICES ASSUME TInv, OwnReplies, [Next]_vars, Undisturbed'
             PROVE  \E f : FlatSteps(f, Tagged(sessions'), Planned) /\ InStep(f)'
  BY DEF OwnReplies
<1>0. VarsOK
  BY DEF TInv
<1>1. sessions' = sessions /\ faults' = faults /\ max_steps' = max_steps
  BY DEF Next, vars, case, Plan, PlanTruncated, PlanFallsBack, StepCap, ToolRuns, ToolMasked,
         ToolRaises, ProviderRaises, Validate, NextSession, Return, Unplanned
<1>2. rejected' = rejected \/ rejected' = TRUE
  BY DEF Next, vars, Plan, PlanTruncated, PlanFallsBack, StepCap, ToolRuns, ToolMasked,
         ToolRaises, ProviderRaises, Validate, NextSession, Return, Unplanned
<1>3. Sized /\ faults = <<>> /\ ~rejected /\ ~rejected'
  BY <1>1, <1>2 DEF Undisturbed, Sized
<1>4. PICK f : FlatSteps(f, Tagged(sessions), Planned) /\ InStep(f)
  BY <1>3 DEF OwnReplies, Undisturbed
<1> DEFINE own == sessions[session]
           start == FlatStart(f, session)
<1>5. /\ session \in 1..Len(sessions) /\ session \in Nat /\ steps_used \in Nat
      /\ max_steps \in Nat
      /\ Len(own) \in 1..max_steps /\ start \in Nat
      /\ FlatStart(f, session + 1) = start + Len(own)
      /\ \A i \in 1..Len(own) :
           /\ start + i <= Len(Script(sessions))
           /\ Script(sessions)[start + i] = [reply |-> own[i], from |-> session]
           /\ own[i] = "final" <=> i = Len(own)
           /\ own[i] \notin Gated
  <2>1. session \in 1..Len(sessions)
    BY <1>0 DEF VarsOK
  <2> QED BY <1>0, <1>3, <1>4, <2>1, SessionScript, LengthsAre, CaseIs
<1>6. \A seam, kinds : ~ActsAs(seam, kinds)
  BY <1>0, <1>3, NoFaultNoFiring
<1>7. SUFFICES InStep(f)'
  BY <1>1, <1>4
<1>8. CASE Plan
  <2>1. /\ pc = "plan" /\ session' = session /\ Take(Reply("planner"), Reply("planner").reply)
        /\ popped'["planner"] = popped["planner"] + 1
    BY <1>0, <1>8 DEF Plan, MayPlan, Unplanned, VarsOK
  <2> DEFINE i == steps_used + 1
  <2>2. i \in 1..Len(own) /\ popped["planner"] + 1 = start + i
        /\ popped["planner"] \in Nat
    <3>1. popped["planner"] = start + steps_used /\ steps_used < Len(own)
      BY <1>4, <2>1 DEF InStep
    <3> HIDE DEF own, start
    <3> QED BY <1>5, <3>1
  <2>3. Reply("planner") = [reply |-> own[i], from |-> session]
    <3>1. start + i <= Len(Script(sessions))
      BY <1>5, <2>2
    <3>2. Len(Script(sessions)) \in Nat
      BY <1>0, CaseIs, ScriptIs, LenProperties
    <3>3. popped["planner"] < Len(Script(sessions))
      BY <2>2, <3>1, <3>2
    <3>4. Reply("planner") = Script(sessions)[start + i]
      BY <2>2, <3>3 DEF Reply
    <3> QED BY <1>5, <2>2, <3>4
  <2>4. /\ Reply("planner") \in Given /\ own[i] \in Replies
        /\ Reply("planner").reply = own[i] /\ Reply("planner").from = session
    BY <1>0, <2>3, ReplyIs DEF Given
  <2>5. /\ steps_used' = i
        /\ Parked(own[i]) \/ \E type \in Events \cup Granted : Taken(own[i], session, type)
    BY <2>1, <2>4, TakeIs
  <2>6. PICK type \in Events \cup Granted : Taken(own[i], session, type)
    BY <1>5, <2>2, <2>5 DEF Parked
  <2>7. history' = Append(history, Entry(type, None, session))
    BY <2>6 DEF Taken
  <2>8. \A k \in 1..Len(history') : history'[k].from = session
    <3>1. /\ Len(history') = Len(history) + 1 /\ Len(history) \in Nat
          /\ \A k \in 1..Len(history) : history'[k] = history[k]
          /\ history'[Len(history) + 1] = Entry(type, None, session)
      BY <1>0, <1>5, <2>7, EntryGrows, LengthsAre
    <3>2. \A k \in 1..Len(history') : k \in 1..Len(history) \/ k = Len(history) + 1
      BY <3>1
    <3>3. Entry(type, None, session).from = session
      BY DEF Entry
    <3> QED BY <1>4, <3>1, <3>2, <3>3 DEF InStep
  <2>9. own[i] = "final" <=> i = Len(own)
    BY <1>5, <2>2
  <2>10. /\ pc' \in {"plan", "tool", "validate"}
         /\ pc' = "validate" <=> own[i] = "final"
    BY <2>6, LocalAssumption DEF Taken, Tools
  <2>11. popped'["planner"] = start + steps_used'
    BY <2>1, <2>2, <2>5
  <2>12. steps_used' <= Len(own) /\ (pc' # "validate" => steps_used' < Len(own))
         /\ (pc' = "validate" => steps_used' = Len(own))
    BY <1>5, <2>2, <2>5, <2>9, <2>10
  <2> QED BY <1>1, <2>1, <2>8, <2>10, <2>11, <2>12 DEF InStep
<1>9. CASE StepCap
  BY <1>4, <1>5, <1>9 DEF StepCap, InStep
<1>10. CASE PlanTruncated \/ PlanFallsBack \/ ToolMasked \/ ToolRaises \/ ProviderRaises
  BY <1>6, <1>10 DEF PlanTruncated, PlanFallsBack, ToolMasked, ToolRaises, ProviderRaises
<1>11. CASE ToolRuns
  <2>1. /\ pc = "tool" /\ pc' = "plan" /\ Result(FALSE) /\ calls' = Recorded
        /\ UNCHANGED <<session, popped, steps_used>>
    BY <1>11 DEF ToolRuns
  <2>2. /\ Len(history') = Len(history) /\ Len(history) \in 1..Len(history)
        /\ \A k \in 1..Len(history) :
             history'[k] = IF k = Len(history) THEN ResultEntry(FALSE) ELSE history[k]
    <3>1. FALSE \in BOOLEAN /\ Len(history) # 0 /\ Len(history) \in Nat
      BY <1>0, <2>1, LengthsAre DEF TInv, PlaceOK
    <3>2. Len(history) \in 1..Len(history)
      BY <3>1
    <3> QED BY <2>1, <3>1, <3>2, ResultIs
  <2>3. ResultEntry(FALSE).from = session
    BY <1>4, <2>2 DEF ResultEntry, Entry, Last, InStep
  <2>4. \A k \in 1..Len(history') : history'[k].from = session
    BY <1>4, <2>2, <2>3 DEF InStep
  <2> QED BY <1>1, <1>4, <2>1, <2>4 DEF InStep
<1>12. CASE Validate
  <2>1. /\ pc = "validate" /\ pc' = "completed" /\ history' = history
        /\ UNCHANGED <<session, popped, steps_used>>
    BY <1>3, <1>12 DEF Validate
  <2> QED BY <1>1, <1>4, <2>1 DEF InStep
<1>13. CASE NextSession
  <2>1. /\ pc = "completed" /\ pc' = "plan" /\ session' = session + 1 /\ session < Len(sessions)
        /\ steps_used' = 0 /\ popped' = popped /\ Len(history') = 0
    BY <1>4, <1>13, EmptySeq DEF NextSession, InStep, Ended
  <2>2. popped["planner"] = FlatStart(f, session + 1) + 0
    BY <1>4, <1>5, <2>1 DEF InStep
  <2>3. Len(sessions[session + 1]) \in 1..max_steps
    <3>1. session + 1 \in 1..Len(sessions)
      BY <1>0, <1>5, <2>1, CaseIs
    <3> QED BY <1>0, <1>3, <1>4, <3>1, SessionScript
  <2> QED BY <1>1, <1>5, <2>1, <2>2, <2>3 DEF InStep
<1>14. CASE Return
  BY <1>1, <1>4, <1>14 DEF Return, run, InStep
<1>15. CASE UNCHANGED vars
  BY <1>4, <1>15 DEF vars, case, run, InStep
<1> QED BY <1>8, <1>9, <1>10, <1>11, <1>12, <1>13, <1>14, <1>15 DEF Next

(***************************************************************************)
(* In a case sized as Case's docstring asks, with no fault and no answer   *)
(* sent back, every session acts on the replies written for it             *)
(* (RepliesStayInTheirSession of LocalTarget; _run_sessions).              *)
(***************************************************************************)
THEOREM SessionsKeepTheirReplies == Spec => []RepliesStayInTheirSession
<1>1. TInv /\ OwnReplies => RepliesStayInTheirSession
  BY LengthsAre DEF TInv, OwnReplies, Undisturbed, InStep, RepliesStayInTheirSession
<1> QED BY <1>1, OwnRepliesInit, OwnRepliesStep, TInvariant, PTL DEF Spec

===============================================================================
