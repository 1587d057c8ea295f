--------------------------- MODULE FileEditsProofs ---------------------------
(***************************************************************************)
(* Proofs about CheckpointFile and the attribution tracker it runs, for    *)
(* all texts over any symbols, all authors and any number of checkpoints,  *)
(* and about BashTool, for every set of files and shell commands, every    *)
(* grace window and every bound.                                           *)
(*                                                                         *)
(* The first part follows update_attributions from the inside out.  The    *)
(* lemmas on its operators say what Ordered and the fold of an update      *)
(* return, and that the cuts of the line diff, then of the token diff      *)
(* inside a hunk, form one chain from the start of both texts to their     *)
(* end: so a diff script rebuilds both.  Moves, transform, merge and the   *)
(* filling of gaps come next, each with the owners it keeps, up to the     *)
(* promise UpdateOK.  FilesOK carries it from one checkpoint to the next.  *)
(* Who is named for a line is then read off the bytes: a line hears the    *)
(* owners of the bytes that have a say in it, and EntryNamed keeps that    *)
(* every line is named for a newest one it hears.                          *)
(***************************************************************************)
EXTENDS MCFileEdits, TLAPS, FiniteSetTheorems, SequenceTheorems, WellFoundedInduction

----------------------------------------------------------------------------
(* Naturals, folds and walks *)

\* A set of naturals has a least element.
LEMMA LeastNat ==
  ASSUME NEW T, T \subseteq Nat, T # {}
  PROVE  \E x \in T : \A y \in T : x <= y
  <1> DEFINE R == OpToRel(<, Nat)
  <1>1. IsWellFoundedOn(R, Nat)
    BY NatLessThanWellFounded
  <1>2. PICK x \in T : \A y \in T : ~ (<<y, x>> \in R)
    <2> HIDE DEF R
    <2> QED BY <1>1, WFMin
  <1>3. \A y \in T : y < x => <<y, x>> \in R
    BY DEF OpToRel
  <1> HIDE DEF R
  <1>4. \A y \in T : x <= y
    <2> TAKE y \in T
    <2>1. x \in Nat /\ y \in Nat /\ ~ (y < x)
      BY <1>2, <1>3
    <2> QED
      BY <2>1
  <1> QED
    BY <1>4

\* A bounded one has a greatest.
LEMMA GreatestNat ==
  ASSUME NEW n \in Nat, NEW T, T \subseteq 0 .. n, T # {}
  PROVE  \E x \in T : \A y \in T : x >= y
  <1> DEFINE D == {n - x : x \in T}
  <1>1. D \subseteq Nat /\ D # {}
    <2>1. \A x \in T : n - x \in Nat
      OBVIOUS
    <2>2. PICK x \in T : TRUE
      OBVIOUS
    <2>3. n - x \in D
      OBVIOUS
    <2> QED
      BY <2>1, <2>3
  <1>2. PICK d \in D : \A e \in D : d <= e
    <2> HIDE DEF D
    <2> QED BY <1>1, LeastNat
  <1>3. PICK x \in T : d = n - x
    BY <1>2
  <1>4. \A y \in T : n - y \in D
    OBVIOUS
  <1>5. \A y \in T : x >= y
    <2> TAKE y \in T
    <2>1. d <= n - y
      BY <1>2, <1>4
    <2> HIDE DEF D
    <2> QED BY <2>1, <1>3
  <1> QED
    BY <1>5

\* The functions that are defined step by step: from b on, each value from the last.
Walks(V, N, b, h) == {f \in [0 .. N -> V] : f[0] = b /\ \A k \in 1 .. N : f[k] = h[k][f[k - 1]]}

\* There is one.
LEMMA WalkExists ==
  ASSUME NEW V, NEW N \in Nat, NEW b \in V, NEW h \in [1 .. N -> [V -> V]]
  PROVE  Walks(V, N, b, h) # {}
  <1> DEFINE Till(n) == {f \in [0 .. n -> V] : f[0] = b /\ \A k \in 1 .. n : f[k] = h[k][f[k - 1]]}
             T == {n \in 0 .. N : Till(n) = {}}
  <1>1. ASSUME T # {} PROVE FALSE
    <2>1. T \subseteq Nat
      OBVIOUS
    <2>2. PICK n \in T : \A m \in T : n <= m
      <3> HIDE DEF T
      <3> QED BY <1>1, <2>1, LeastNat
    <2>3. n # 0
      <3> DEFINE g == [k \in 0 .. 0 |-> b]
      <3>1. g \in Till(0)
        OBVIOUS
      <3> QED BY <2>2, <3>1
    <2>4. n - 1 \in 0 .. N /\ n \in 1 .. N
      BY <2>2, <2>3
    <2>5. n - 1 \notin T
      <3> HIDE DEF T
      <3> QED BY <2>2, <2>4
    <2>6. PICK f \in Till(n - 1) : TRUE
      <3> HIDE DEF Till
      <3> QED BY <2>4, <2>5
    <2> DEFINE g == [k \in 0 .. n |-> IF k = n THEN h[n][f[n - 1]] ELSE f[k]]
    <2>7. f \in [0 .. (n - 1) -> V]
      BY <2>6
    <2>8. h[n] \in [V -> V] /\ f[n - 1] \in V
      BY <2>4, <2>7
    <2>9. g \in [0 .. n -> V]
      <3>1. \A k \in 0 .. n : k # n => k \in 0 .. (n - 1)
        BY <2>4
      <3> QED BY <2>7, <2>8, <3>1
    <2>10. g[0] = b
      BY <2>4, <2>6
    <2>11. ASSUME NEW k \in 1 .. n PROVE g[k] = h[k][g[k - 1]]
      <3>1. g[k - 1] = f[k - 1]
        BY <2>4
      <3>2. CASE k = n
        BY <3>1, <3>2
      <3>3. CASE k # n
        <4>1. k \in 1 .. (n - 1)
          BY <3>3, <2>4
        <4>2. g[k] = f[k] /\ f[k] = h[k][f[k - 1]]
          BY <3>3, <4>1, <2>6
        <4> QED BY <3>1, <4>2
      <3> QED BY <3>2, <3>3
    <2>12. g \in Till(n)
      <3> HIDE DEF g
      <3> QED BY <2>9, <2>10, <2>11
    <2> QED BY <2>2, <2>12
  <1>2. Till(N) # {}
    <2>1. N \in 0 .. N
      OBVIOUS
    <2> HIDE DEF Till
    <2> QED BY <1>1, <2>1
  <1> QED BY <1>2 DEF Walks

\* A strict total order of S.
Orders(R, S) ==
  /\ \A x \in S : <<x, x>> \notin R
  /\ \A x, y, z \in S : <<x, y>> \in R /\ <<y, z>> \in R => <<x, z>> \in R
  /\ \A x, y \in S : x = y \/ <<x, y>> \in R \/ <<y, x>> \in R

\* s lists the members of S in the order R, each once.
Lists(s, S, R) ==
  /\ Cardinality(S) \in Nat
  /\ s \in [1 .. Cardinality(S) -> S]
  /\ \A x \in S : \E k \in 1 .. Cardinality(S) : s[k] = x
  /\ \A j, k \in 1 .. Cardinality(S) : j < k => <<s[j], s[k]>> \in R
  /\ \A j, k \in 1 .. Cardinality(S) : <<s[j], s[k]>> \in R => j < k

\* A finite set in order is a list of its members, each once.
LEMMA InOrder ==
  ASSUME NEW S, IsFiniteSet(S), NEW R, Orders(R, S), NEW rank,
         rank = [x \in S |-> Cardinality({y \in S : <<y, x>> \in R})]
  PROVE  Lists(ByRank(S, rank), S, R)
  <1> DEFINE n == Cardinality(S)
             Under(x) == {y \in S : <<y, x>> \in R}
             s == ByRank(S, rank)
  <1>1. n \in Nat
    BY FS_CardinalityType
  <1>2. \A x \in S : IsFiniteSet(Under(x)) /\ Cardinality(Under(x)) \in Nat
    <2> TAKE x \in S
    <2>1. Under(x) \subseteq S
      OBVIOUS
    <2> QED BY <2>1, FS_Subset, FS_CardinalityType
  <1>a. \A x \in S : rank[x] = Cardinality(Under(x)) /\ rank[x] \in Nat
    BY <1>2
  <1>3. \A x, y \in S : <<x, y>> \in R => rank[x] < rank[y]
    <2> SUFFICES ASSUME NEW x \in S, NEW y \in S, <<x, y>> \in R PROVE rank[x] < rank[y]
      OBVIOUS
    <2>1. Under(x) \subseteq Under(y) /\ x \in Under(y) /\ x \notin Under(x)
      BY DEF Orders
    <2>2. Cardinality(Under(x)) <= Cardinality(Under(y))
      BY <1>2, <2>1, FS_Subset
    <2>3. Cardinality(Under(x)) # Cardinality(Under(y))
      BY <1>2, <2>1, FS_Subset
    <2> HIDE DEF Under
    <2> QED BY <1>a, <2>2, <2>3
  <1>4. \A x \in S : rank[x] \in 0 .. (n - 1)
    <2> TAKE x \in S
    <2>1. Under(x) \subseteq S /\ x \notin Under(x)
      BY DEF Orders
    <2>2. Cardinality(Under(x)) <= n /\ Cardinality(Under(x)) # n
      BY <2>1, FS_Subset
    <2> QED BY <1>1, <1>2, <2>2
  <1>5. \A x, y \in S : rank[x] = rank[y] => x = y
    <2> SUFFICES ASSUME NEW x \in S, NEW y \in S, rank[x] = rank[y] PROVE x = y
      OBVIOUS
    <2>1. x = y \/ <<x, y>> \in R \/ <<y, x>> \in R
      BY DEF Orders
    <2>2. rank[x] \in Nat /\ rank[y] \in Nat
      BY <1>a
    <2>3. ~ (<<x, y>> \in R) /\ ~ (<<y, x>> \in R)
      <3>1. ~ (rank[x] < rank[y]) /\ ~ (rank[y] < rank[x])
        BY <2>2
      <3> QED BY <3>1, <1>3
    <2> QED BY <2>1, <2>3
  <1>6. {rank[x] : x \in S} = 0 .. (n - 1)
    <2> DEFINE I == {rank[x] : x \in S}
    <2>1. I \subseteq 0 .. (n - 1)
      BY <1>4
    <2>2. IsFiniteSet(0 .. (n - 1)) /\ Cardinality(0 .. (n - 1)) = n
      <3>1. 0 \in Int /\ n - 1 \in Int /\ n \in Nat
        BY <1>1
      <3>2. /\ IsFiniteSet(0 .. (n - 1))
            /\ Cardinality(0 .. (n - 1)) = IF 0 > n - 1 THEN 0 ELSE (n - 1) - 0 + 1
        BY <3>1, FS_Interval
      <3>3. n = IF 0 > n - 1 THEN 0 ELSE (n - 1) - 0 + 1
        BY <3>1
      <3> QED BY <3>2, <3>3
    <2>3. ExistsBijection(S, I)
      <3> DEFINE f == [x \in S |-> rank[x]]
      <3>1. f \in Bijection(S, I)
        BY <1>5 DEF Bijection, Injection, Surjection, IsInjective
      <3> QED BY <3>1 DEF ExistsBijection
    <2>4. IsFiniteSet(I) /\ Cardinality(I) = n
      <3> HIDE DEF I
      <3> QED BY <2>3, FS_Bijection
    <2> HIDE DEF I
    <2>5. I = 0 .. (n - 1)
      BY <2>1, <2>2, <2>4, FS_Subset
    <2> QED BY <2>5 DEF I
  <1>7. \A k \in 1 .. n : s[k] \in S /\ rank[s[k]] = k - 1
    <2> TAKE k \in 1 .. n
    <2>1. k - 1 \in 0 .. (n - 1)
      BY <1>1
    <2>2. \E x \in S : rank[x] = k - 1
      BY <1>6, <2>1
    <2>3. s[k] = CHOOSE x \in S : rank[x] = k - 1
      BY DEF ByRank
    <2> HIDE DEF s
    <2> QED BY <2>2, <2>3
  <1>8. s \in [1 .. n -> S]
    <2>1. s = [k \in 1 .. n |-> CHOOSE x \in S : rank[x] = k - 1]
      BY DEF ByRank
    <2> HIDE DEF s
    <2> QED BY <2>1, <1>7
  <1>9. \A x \in S : \E k \in 1 .. n : s[k] = x
    <2> TAKE x \in S
    <2>1. rank[x] + 1 \in 1 .. n
      BY <1>1, <1>4
    <2>2. s[rank[x] + 1] \in S /\ rank[s[rank[x] + 1]] = rank[x]
      <3> HIDE DEF s
      <3>1. rank[x] \in Nat /\ (rank[x] + 1) - 1 = rank[x]
        BY <1>a
      <3> QED BY <2>1, <1>7, <3>1
    <2> HIDE DEF s
    <2> QED BY <2>1, <2>2, <1>5
  <1> HIDE DEF s, n, Under
  <1>10. ASSUME NEW j \in 1 .. n, NEW k \in 1 .. n
         PROVE  /\ j < k => <<s[j], s[k]>> \in R
                /\ <<s[j], s[k]>> \in R => j < k
    <2>1. s[j] \in S /\ s[k] \in S /\ rank[s[j]] = j - 1 /\ rank[s[k]] = k - 1
      BY <1>7
    <2>2. ASSUME j < k PROVE <<s[j], s[k]>> \in R
      <3>0. j \in Nat /\ k \in Nat /\ j - 1 # k - 1
        BY <2>2, <1>1
      <3>1. s[j] # s[k]
        BY <2>1, <3>0
      <3>2. ~ (<<s[k], s[j]>> \in R)
        <4>1. ~ (rank[s[k]] < rank[s[j]])
          BY <2>1, <2>2, <3>0
        <4> QED BY <2>1, <4>1, <1>3
      <3> QED BY <2>1, <3>1, <3>2 DEF Orders
    <2>3. ASSUME <<s[j], s[k]>> \in R PROVE j < k
      <3>1. rank[s[j]] < rank[s[k]]
        BY <2>1, <2>3, <1>3
      <3> QED BY <2>1, <3>1, <1>1
    <2> QED BY <2>2, <2>3
  <1> QED BY <1>1, <1>8, <1>9, <1>10 DEF s, n, Lists

----------------------------------------------------------------------------
(* Lines and texts *)

\* A finite set of integers, Ordered, rises and has them all.
LEMMA NumbersInOrder ==
  ASSUME NEW S, S \subseteq Int, IsFiniteSet(S)
  PROVE  LET s == Ordered(S, <)
             n == Cardinality(S)
         IN  /\ n \in Nat
             /\ s \in [1 .. n -> S]
             /\ \A x \in S : \E k \in 1 .. n : s[k] = x
             /\ \A j, k \in 1 .. n : j < k => s[j] < s[k]
  <1> DEFINE R == {x \in S \X S : x[1] < x[2]}
             rank == [x \in S |-> Cardinality({y \in S : y < x})]
             s == ByRank(S, rank)
             n == Cardinality(S)
  <1>1. Orders(R, S)
    BY DEF Orders
  <1>2. rank = [x \in S |-> Cardinality({y \in S : <<y, x>> \in R})]
    <2>1. \A x \in S : {y \in S : y < x} = {y \in S : <<y, x>> \in R}
      OBVIOUS
    <2> HIDE DEF R
    <2> QED BY <2>1
  <1>3. Ordered(S, <) = s
    BY DEF Ordered
  <1>4. \A x, y \in S : <<x, y>> \in R => x < y
    OBVIOUS
  <1> HIDE DEF R, rank
  <1>a. Lists(s, S, R)
    BY <1>1, <1>2, InOrder
  <1>5. /\ n \in Nat
        /\ s \in [1 .. n -> S]
        /\ \A x \in S : \E k \in 1 .. n : s[k] = x
        /\ \A j, k \in 1 .. n : j < k => <<s[j], s[k]>> \in R
    <2> HIDE DEF s
    <2> QED BY <1>a DEF Lists
  <1>6. \A j, k \in 1 .. n : j < k => s[j] < s[k]
    <2> HIDE DEF s
    <2> TAKE j, k \in 1 .. n
    <2>1. s[j] \in S /\ s[k] \in S
      BY <1>5
    <2> QED BY <2>1, <1>4, <1>5
  <1> QED BY <1>3, <1>5, <1>6

\* A function on 1..n is a sequence.
LEMMA FunctionIsSeq ==
  ASSUME NEW n \in Nat, NEW S, NEW s \in [1 .. n -> S]
  PROVE  s \in Seq(S) /\ Len(s) = n /\ DOMAIN s = 1 .. n
  <1>1. s \in Seq(S)
    BY SeqDef
  <1> QED BY <1>1, LenProperties

\* The lines of a text lie inside it, one after the other.
LEMMA LinesFacts ==
  ASSUME NEW c \in Seq(Symbols)
  PROVE  LET l == Lines(c)
         IN  /\ Len(l) \in Nat /\ DOMAIN l = 1 .. Len(l)
             /\ l \in Seq([start : Nat, end : Nat])
             /\ \A k \in DOMAIN l : /\ l[k].start \in Nat /\ l[k].end \in Nat
                                    /\ l[k].start < l[k].end /\ l[k].end <= Len(c)
             /\ \A j, k \in DOMAIN l : j < k => l[j].end <= l[k].start
  <1> DEFINE S == {i \in DOMAIN c : c[i] = NL \/ i = Len(c)}
             e == Ordered(S, <)
             n == Cardinality(S)
             l == Lines(c)
             b(k) == IF k = 1 THEN 0 ELSE e[k - 1]
  <1>1. Len(c) \in Nat /\ DOMAIN c = 1 .. Len(c)
    OBVIOUS
  <1>2. S \subseteq 1 .. Len(c) /\ S \subseteq Int
    BY <1>1
  <1>3. IsFiniteSet(S)
    <2>1. IsFiniteSet(1 .. Len(c))
      BY <1>1, FS_Interval
    <2> HIDE DEF S
    <2> QED BY <1>2, <2>1, FS_Subset
  <1>a. l = [k \in DOMAIN e |-> Span(IF k = 1 THEN 0 ELSE e[k - 1], e[k])]
    BY DEF Lines
  <1> HIDE DEF S
  <1>4. /\ n \in Nat
        /\ e \in [1 .. n -> S]
        /\ \A j, k \in 1 .. n : j < k => e[j] < e[k]
    BY <1>2, <1>3, NumbersInOrder
  <1> HIDE DEF e, n, l
  <1>5. \A k \in 1 .. n : e[k] \in 1 .. Len(c)
    BY <1>2, <1>4
  <1>6. \A k \in 1 .. n : k # 1 => k - 1 \in 1 .. n /\ k - 1 < k
    BY <1>4
  <1>7. l = [k \in 1 .. n |-> Span(b(k), e[k])]
    BY <1>a, <1>4
  <1>8. ASSUME NEW k \in 1 .. n
        PROVE  /\ l[k] = [start |-> b(k), end |-> e[k]]
               /\ b(k) \in Nat /\ e[k] \in Nat /\ b(k) < e[k] /\ e[k] <= Len(c)
               /\ l[k] \in [start : Nat, end : Nat]
               /\ l[k].start = b(k) /\ l[k].end = e[k]
    <2>1. l[k] = [start |-> b(k), end |-> e[k]]
      BY <1>7 DEF Span
    <2>2. e[k] \in 1 .. Len(c)
      BY <1>5
    <2>3. CASE k = 1
      BY <2>1, <2>2, <2>3, <1>1
    <2>4. CASE k # 1
      <3>1. e[k - 1] \in 1 .. Len(c) /\ e[k - 1] < e[k]
        BY <2>4, <1>4, <1>5, <1>6
      <3> QED BY <2>1, <2>2, <2>4, <3>1, <1>1
    <2> QED BY <2>3, <2>4
  <1>9. l \in [1 .. n -> [start : Nat, end : Nat]]
    <2> HIDE DEF b
    <2> QED BY <1>7, <1>8
  <1>10. l \in Seq([start : Nat, end : Nat]) /\ Len(l) = n /\ DOMAIN l = 1 .. n
    <2> DEFINE X == [start : Nat, end : Nat]
    <2>1. l \in [1 .. n -> X]
      BY <1>9
    <2> HIDE DEF X
    <2>2. l \in Seq(X) /\ Len(l) = n /\ DOMAIN l = 1 .. n
      BY <2>1, <1>4, FunctionIsSeq
    <2> QED BY <2>2 DEF X
  <1>11. ASSUME NEW j \in 1 .. n, NEW k \in 1 .. n, j < k PROVE l[j].end <= l[k].start
    <2>0. l[j].end = e[j] /\ l[k].start = b(k) /\ k # 1
      <3>1. l[j].end = e[j]
        <4> HIDE DEF b
        <4> QED BY <1>8
      <3>2. l[k].start = b(k)
        <4> HIDE DEF b
        <4> QED BY <1>8
      <3> QED BY <3>1, <3>2, <1>11, <1>4
    <2>1. l[j].end = e[j] /\ l[k].start = e[k - 1]
      BY <2>0
    <2>2. k - 1 \in 1 .. n /\ (j = k - 1 \/ j < k - 1)
      BY <1>4, <1>11
    <2>3. e[j] \in Int /\ e[k - 1] \in Int
      BY <2>2, <1>5
    <2>4. j < k - 1 => e[j] < e[k - 1]
      BY <2>2, <1>4
    <2> QED BY <2>1, <2>2, <2>3, <2>4
  <1>12. \A k \in 1 .. n : /\ l[k].start \in Nat /\ l[k].end \in Nat
                          /\ l[k].start < l[k].end /\ l[k].end <= Len(c)
    <2> TAKE k \in 1 .. n
    <2>1. l[k].start = b(k) /\ l[k].end = e[k]
      BY <1>8
    <2> HIDE DEF b
    <2> QED BY <2>1, <1>8
  <1> HIDE DEF b
  <1> QED BY <1>4, <1>10, <1>11, <1>12 DEF l

\* The bytes of a span.
Inside(c, s) == s.start \in Nat /\ s.end \in Nat /\ s.start <= s.end /\ s.end <= Len(c)

\* A span's text, byte by byte.
LEMMA TextFacts ==
  ASSUME NEW c \in Seq(Symbols), NEW s, Inside(c, s)
  PROVE  /\ Text(c, s) \in Seq(Symbols)
         /\ Len(Text(c, s)) = s.end - s.start
         /\ DOMAIN Text(c, s) = 1 .. (s.end - s.start)
         /\ \A i \in 1 .. (s.end - s.start) : Text(c, s)[i] = c[s.start + i]
  <1>1. s.start + 1 \in 1 .. (Len(c) + 1) /\ s.end \in 0 .. Len(c) /\ s.start \in Nat
    BY DEF Inside
  <1>2. Len(c) \in Nat
    OBVIOUS
  <1>3. /\ SubSeq(c, s.start + 1, s.end) \in Seq(Symbols)
        /\ Len(SubSeq(c, s.start + 1, s.end)) = s.end - s.start
        /\ \A i \in 1 .. (s.end - s.start) : SubSeq(c, s.start + 1, s.end)[i] = c[s.start + i]
    <2> DEFINE m == s.start + 1
               n == s.end
    <2>1. m \in 1 .. (Len(c) + 1) /\ n \in (m - 1) .. Len(c) /\ s.start = m - 1
      BY <1>1, <1>2 DEF Inside
    <2> HIDE DEF m, n
    <2>2. /\ SubSeq(c, m, n) \in Seq(Symbols)
          /\ Len(SubSeq(c, m, n)) = n - m + 1
          /\ \A i \in 1 .. (n - m + 1) : SubSeq(c, m, n)[i] = c[m + i - 1]
      BY <2>1, SubSeqProperties
    <2>3. n - m + 1 = n - s.start /\ \A i \in Int : m + i - 1 = s.start + i
      BY <2>1, <1>2
    <2>4. \A i \in 1 .. (n - s.start) : SubSeq(c, m, n)[i] = c[s.start + i]
      <3> TAKE i \in 1 .. (n - s.start)
      <3>1. i \in 1 .. (n - m + 1) /\ m + i - 1 = s.start + i
        BY <2>1, <2>3, <1>2
      <3> QED BY <3>1, <2>2
    <2> QED BY <2>2, <2>3, <2>4 DEF m, n
  <1>4. DOMAIN SubSeq(c, s.start + 1, s.end) = 1 .. (s.end - s.start)
    BY <1>3, LenProperties
  <1> QED BY <1>3, <1>4 DEF Text

\* Two stretches have the same text if they have the same bytes, one by one.
LEMMA BytesMakeText ==
  ASSUME NEW c \in Seq(Symbols), NEW d \in Seq(Symbols), NEW s, NEW t, Inside(c, s), Inside(d, t),
         s.end - s.start = t.end - t.start,
         \A i \in 1 .. (s.end - s.start) : c[s.start + i] = d[t.start + i]
  PROVE  Text(c, s) = Text(d, t)
  <1> DEFINE n == s.end - s.start
  <1>1. /\ Text(c, s) \in Seq(Symbols) /\ DOMAIN Text(c, s) = 1 .. n
        /\ \A i \in 1 .. n : Text(c, s)[i] = c[s.start + i]
    BY TextFacts
  <1>2. /\ Text(d, t) \in Seq(Symbols) /\ DOMAIN Text(d, t) = 1 .. n
        /\ \A i \in 1 .. n : Text(d, t)[i] = d[t.start + i]
    BY TextFacts
  <1>3. Text(c, s) = [i \in 1 .. n |-> Text(c, s)[i]]
    BY <1>1, LenProperties
  <1>4. Text(d, t) = [i \in 1 .. n |-> Text(d, t)[i]]
    BY <1>2, LenProperties
  <1>5. \A i \in 1 .. n : Text(c, s)[i] = Text(d, t)[i]
    BY <1>1, <1>2
  <1> HIDE DEF n
  <1> QED BY <1>3, <1>4, <1>5

----------------------------------------------------------------------------
(* Points, edges and chains *)

\* Places in the old and the new text at once.
Points == Nat \X Nat

\* Cuts of which each lies before or behind each other.
Chain(C) == C \subseteq Points /\ \A p, q \in C : Upto(p, q) \/ Upto(q, p)

\* The two ends of an edge are neighbours in their set.
LEMMA EdgeIs ==
  ASSUME NEW C, C \subseteq Points, NEW e \in Edges(C)
  PROVE  /\ e[1] \in C /\ e[2] \in C /\ e[1] # e[2] /\ Upto(e[1], e[2])
         /\ e = <<e[1], e[2]>>
         /\ \A p \in C : Upto(p, e[1]) \/ Upto(e[2], p)
         /\ e[1][1] \in Nat /\ e[1][2] \in Nat /\ e[2][1] \in Nat /\ e[2][2] \in Nat
         /\ e[1] = <<e[1][1], e[1][2]>> /\ e[2] = <<e[2][1], e[2][2]>>
  BY DEF Edges, Points

\* A point is its two coordinates.
LEMMA PointIs ==
  ASSUME NEW p \in Points
  PROVE  p = <<p[1], p[2]>> /\ p[1] \in Nat /\ p[2] \in Nat
  BY DEF Points

\* Upto orders points.
LEMMA UptoTwice ==
  ASSUME NEW p \in Points, NEW q \in Points
  PROVE  /\ Upto(p, p)
         /\ Upto(p, q) /\ Upto(q, p) => p = q
         /\ \A r \in Points : Upto(p, q) /\ Upto(q, r) => Upto(p, r)
  <1>1. Upto(p, p)
    BY PointIs DEF Upto
  <1>2. Upto(p, q) /\ Upto(q, p) => p = q
    <2> SUFFICES ASSUME Upto(p, q), Upto(q, p) PROVE p = q
      OBVIOUS
    <2>1. p[1] = q[1] /\ p[2] = q[2]
      BY PointIs DEF Upto
    <2> QED BY <2>1, PointIs
  <1>3. \A r \in Points : Upto(p, q) /\ Upto(q, r) => Upto(p, r)
    <2> TAKE r \in Points
    <2>1. {p[1], p[2], q[1], q[2], r[1], r[2]} \subseteq Nat
      BY PointIs
    <2> QED BY <2>1 DEF Upto
  <1> QED BY <1>1, <1>2, <1>3

\* Two edges of the same cuts do not cross.
LEMMA EdgesApart ==
  ASSUME NEW C, C \subseteq Points, NEW e \in Edges(C), NEW f \in Edges(C)
  PROVE  e = f \/ Upto(e[2], f[1]) \/ Upto(f[2], e[1])
  <1> SUFFICES ASSUME ~ Upto(e[2], f[1]), ~ Upto(f[2], e[1]) PROVE e = f
    OBVIOUS
  <1>1. e[1] \in Points /\ e[2] \in Points /\ f[1] \in Points /\ f[2] \in Points
    BY EdgeIs
  <1>2. Upto(f[1], e[1]) /\ Upto(e[2], f[2])
    BY EdgeIs
  <1>3. Upto(e[1], f[1]) /\ Upto(f[2], e[2])
    BY EdgeIs
  <1>4. e[1] = f[1] /\ e[2] = f[2]
    BY <1>1, <1>2, <1>3, UptoTwice
  <1> QED BY <1>4, EdgeIs

\* Between two cuts, every position is in an edge.
LEMMA EdgeAt ==
  ASSUME NEW C, Chain(C), NEW lo \in C, NEW hi \in C, NEW i \in {1, 2}, NEW x \in Nat,
         lo[i] <= x, x < hi[i]
  PROVE  \E e \in Edges(C) : /\ e[1][i] <= x /\ x < e[2][i]
                             /\ Upto(lo, e[1]) /\ Upto(e[2], hi)
  <1> DEFINE Size(p) == p[1] + p[2]
             B == {p \in C : p[i] <= x}
             A == {p \in C : x < p[i]}
             SB == {Size(p) : p \in B}
             SA == {Size(p) : p \in A}
  <1>1. \A p \in C : p \in Points /\ p[1] \in Nat /\ p[2] \in Nat /\ Size(p) \in Nat /\ p[i] \in Nat
    BY PointIs DEF Chain
  <1>2. lo \in B /\ hi \in A
    OBVIOUS
  <1>3. \A p \in B, q \in A : Upto(p, q) /\ p # q
    <2> TAKE p \in B, q \in A
    <2>1. p[i] < q[i]
      BY <1>1
    <2>2. ~ Upto(q, p)
      BY <1>1, <2>1 DEF Upto
    <2> QED BY <2>1, <2>2, <1>1 DEF Chain
  <1>4. \A p, q \in C : Upto(p, q) => Size(p) <= Size(q) /\ (Size(p) = Size(q) => p = q)
    <2> SUFFICES ASSUME NEW p \in C, NEW q \in C, Upto(p, q)
                 PROVE  Size(p) <= Size(q) /\ (Size(p) = Size(q) => p = q)
      OBVIOUS
    <2>1. Size(p) <= Size(q) /\ (Size(p) = Size(q) => p[1] = q[1] /\ p[2] = q[2])
      BY <1>1 DEF Upto
    <2> QED BY <2>1, <1>1, PointIs
  <1>5. PICK p \in B : \A r \in B : Size(p) >= Size(r)
    <2>1. SB \subseteq 0 .. Size(hi) /\ SB # {}
      <3>1. \A r \in B : Size(r) \in 0 .. Size(hi)
        <4> TAKE r \in B
        <4>1. Upto(r, hi) /\ r \in C /\ hi \in C
          BY <1>2, <1>3
        <4>2. Size(r) <= Size(hi)
          BY <4>1, <1>4
        <4> HIDE DEF Size
        <4> QED BY <4>1, <4>2, <1>1
      <3> HIDE DEF Size, B
      <3> QED BY <3>1, <1>2
    <2>2. PICK z \in SB : \A y \in SB : z >= y
      <3> HIDE DEF SB
      <3>1. Size(hi) \in Nat
        BY <1>1
      <3> HIDE DEF Size
      <3> QED BY <2>1, <3>1, GreatestNat
    <2> HIDE DEF Size, B
    <2> QED BY <2>2
  <1>6. PICK q \in A : \A r \in A : Size(q) <= Size(r)
    <2>1. SA \subseteq Nat /\ SA # {}
      <3> HIDE DEF Size
      <3> QED BY <1>1, <1>2
    <2>2. PICK z \in SA : \A y \in SA : z <= y
      <3> HIDE DEF SA
      <3> QED BY <2>1, LeastNat
    <2> HIDE DEF Size, A
    <2> QED BY <2>2
  <1>7. p \in C /\ q \in C /\ p \in Points /\ q \in Points
    BY <1>1
  <1>8. \A r \in C : Upto(r, p) \/ Upto(q, r)
    <2> TAKE r \in C
    <2>0. Size(p) \in Nat /\ Size(q) \in Nat /\ Size(r) \in Nat
      BY <1>1, <1>7
    <2>1. CASE r \in B
      <3>1. Upto(r, p) \/ Upto(p, r)
        BY <1>7 DEF Chain
      <3>2. CASE Upto(p, r)
        <4>1. Size(p) <= Size(r) /\ (Size(p) = Size(r) => p = r)
          BY <3>2, <1>4, <1>7
        <4>2. Size(p) >= Size(r)
          BY <1>5, <2>1
        <4> HIDE DEF Size
        <4>3. p = r
          BY <4>1, <4>2, <2>0
        <4> QED BY <4>3, <3>2
      <3> QED BY <3>1, <3>2
    <2>2. CASE r \in A
      <3>1. Upto(r, q) \/ Upto(q, r)
        BY <1>7 DEF Chain
      <3>2. CASE Upto(r, q)
        <4>1. Size(r) <= Size(q) /\ (Size(r) = Size(q) => r = q)
          BY <3>2, <1>4, <1>7
        <4>2. Size(q) <= Size(r)
          BY <1>6, <2>2
        <4> HIDE DEF Size
        <4>3. q = r
          BY <4>1, <4>2, <2>0
        <4> QED BY <4>3, <3>2
      <3> QED BY <3>1, <3>2
    <2>3. r \in B \/ r \in A
      <3>1. r[i] \in Nat
        BY <1>1
      <3> QED BY <3>1
    <2> QED BY <2>1, <2>2, <2>3
  <1> DEFINE e == <<p, q>>
  <1>9. e \in Edges(C)
    <2>1. e \in C \X C /\ e[1] = p /\ e[2] = q
      BY <1>7
    <2> HIDE DEF e, B, A
    <2> QED BY <2>1, <1>3, <1>5, <1>6, <1>8 DEF Edges
  <1>10. Upto(lo, p) /\ Upto(q, hi)
    <2>1. ~ Upto(q, lo)
      <3>1. Upto(lo, q) /\ lo # q /\ lo \in Points
        BY <1>2, <1>3, <1>1
      <3> QED BY <3>1, <1>7, UptoTwice
    <2>2. ~ Upto(hi, p)
      <3>1. Upto(p, hi) /\ p # hi /\ hi \in Points
        BY <1>2, <1>3, <1>1
      <3> QED BY <3>1, <1>7, UptoTwice
    <2> QED BY <1>8, <2>1, <2>2
  <1>11. e[1] = p /\ e[2] = q /\ p[i] <= x /\ x < q[i]
    OBVIOUS
  <1> HIDE DEF e, B, A
  <1> QED BY <1>9, <1>10, <1>11

\* Edges that start together are the same.
LEMMA EdgeByStart ==
  ASSUME NEW C, C \subseteq Points, NEW e \in Edges(C), NEW f \in Edges(C), e[1] = f[1]
  PROVE  e = f
  <1>1. e[1] \in Points /\ e[2] \in Points /\ f[2] \in Points
    BY EdgeIs
  <1>2. ~ Upto(e[2], f[1])
    BY <1>1, EdgeIs, UptoTwice
  <1>3. ~ Upto(f[2], e[1])
    BY <1>1, EdgeIs, UptoTwice
  <1> QED BY <1>2, <1>3, EdgesApart

----------------------------------------------------------------------------
(* Alignments *)

\* Pairs of stretches with the same text, none of which cross.
Matched(old, new, a) ==
  /\ \A x \in a : /\ Inside(old, x[1]) /\ x[1].start < x[1].end
                  /\ Inside(new, x[2]) /\ x[2].start < x[2].end
                  /\ Text(old, x[1]) = Text(new, x[2])
  /\ \A x, y \in a : x = y \/ Upto(End(x), Begin(y)) \/ Upto(End(y), Begin(x))

\* What the diff library may answer matches equal texts in order.
LEMMA AlignmentMatches ==
  ASSUME NEW old, NEW new, NEW os, NEW ws, NEW a \in Alignments(old, new, os, ws),
         \A s \in os : Inside(old, s) /\ s.start < s.end,
         \A s \in ws : Inside(new, s) /\ s.start < s.end
  PROVE  Matched(old, new, a) /\ \A x \in a : x[1] \in os /\ x[2] \in ws
  <1> DEFINE same == {x \in os \X ws : Text(old, x[1]) = Text(new, x[2])}
             common == {b \in SUBSET same : \A x, y \in b : \/ x = y
                                                            \/ Upto(End(x), Begin(y))
                                                            \/ Upto(End(y), Begin(x))}
  <1>1. a \in common
    BY DEF Alignments
  <1>2. \A x \in a : x \in same
    BY <1>1
  <1>3. \A x \in a : x[1] \in os /\ x[2] \in ws /\ Text(old, x[1]) = Text(new, x[2])
    BY <1>2
  <1>4. \A x, y \in a : x = y \/ Upto(End(x), Begin(y)) \/ Upto(End(y), Begin(x))
    BY <1>1
  <1> HIDE DEF same, common
  <1> QED BY <1>3, <1>4 DEF Matched

\* Where a matched pair begins and ends.
LEMMA MatchedPair ==
  ASSUME NEW old, NEW new, NEW a, Matched(old, new, a), NEW x \in a
  PROVE  /\ Begin(x) \in Points /\ End(x) \in Points
         /\ Begin(x)[1] = x[1].start /\ Begin(x)[2] = x[2].start
         /\ End(x)[1] = x[1].end /\ End(x)[2] = x[2].end
         /\ Begin(x)[1] \in Nat /\ Begin(x)[2] \in Nat /\ End(x)[1] \in Nat /\ End(x)[2] \in Nat
         /\ Begin(x)[1] < End(x)[1] /\ Begin(x)[2] < End(x)[2]
         /\ End(x)[1] <= Len(old) /\ End(x)[2] <= Len(new)
         /\ Begin(x) \in Begins(a) /\ End(x) \in Ends(a)
         /\ Upto(Begin(x), End(x))
  <1>1. Inside(old, x[1]) /\ x[1].start < x[1].end /\ Inside(new, x[2]) /\ x[2].start < x[2].end
    BY DEF Matched
  <1>2. Begin(x) = <<x[1].start, x[2].start>> /\ End(x) = <<x[1].end, x[2].end>>
    BY DEF Begin, End
  <1>3. {x[1].start, x[2].start, x[1].end, x[2].end} \subseteq Nat
    BY <1>1 DEF Inside
  <1>4. Begin(x) \in Points /\ End(x) \in Points
    BY <1>2, <1>3 DEF Points
  <1>5. Begin(x) \in Begins(a) /\ End(x) \in Ends(a)
    BY DEF Begins, Ends
  <1>6. Upto(Begin(x), End(x))
    BY <1>1, <1>2, <1>3 DEF Upto
  <1> QED BY <1>1, <1>2, <1>3, <1>4, <1>5, <1>6 DEF Inside

\* Those places can be ordered.
LEMMA MatchedChain ==
  ASSUME NEW old, NEW new, NEW a, Matched(old, new, a)
  PROVE  Chain(Begins(a) \cup Ends(a))
  <1> DEFINE C == Begins(a) \cup Ends(a)
  <1>1. \A p \in C : \E x \in a : p = Begin(x) \/ p = End(x)
    BY DEF Begins, Ends
  <1>2. C \subseteq Points
    <2>1. \A x \in a : Begin(x) \in Points /\ End(x) \in Points
      BY MatchedPair
    <2> HIDE DEF C
    <2> QED BY <1>1, <2>1
  <1>3. ASSUME NEW p \in C, NEW q \in C PROVE Upto(p, q) \/ Upto(q, p)
    <2>1. PICK x \in a : p = Begin(x) \/ p = End(x)
      BY <1>1
    <2>2. PICK y \in a : q = Begin(y) \/ q = End(y)
      BY <1>1
    <2>3. /\ Begin(x) \in Points /\ End(x) \in Points /\ Upto(Begin(x), End(x))
          /\ Begin(y) \in Points /\ End(y) \in Points /\ Upto(Begin(y), End(y))
      BY MatchedPair
    <2>4. x = y \/ Upto(End(x), Begin(y)) \/ Upto(End(y), Begin(x))
      BY DEF Matched
    <2>5. CASE x = y
      BY <2>1, <2>2, <2>3, <2>5, UptoTwice
    <2>6. CASE Upto(End(x), Begin(y))
      <3>1. Upto(p, End(x)) /\ Upto(Begin(y), q)
        BY <2>1, <2>2, <2>3, UptoTwice
      <3>2. p \in Points /\ q \in Points
        BY <1>2
      <3>3. Upto(p, Begin(y))
        BY <3>1, <3>2, <2>3, <2>6, UptoTwice
      <3> QED BY <3>1, <3>2, <3>3, <2>3, UptoTwice
    <2>7. CASE Upto(End(y), Begin(x))
      <3>1. Upto(q, End(y)) /\ Upto(Begin(x), p)
        BY <2>1, <2>2, <2>3, UptoTwice
      <3>2. p \in Points /\ q \in Points
        BY <1>2
      <3>3. Upto(q, Begin(x))
        BY <3>1, <3>2, <2>3, <2>7, UptoTwice
      <3> QED BY <3>1, <3>2, <3>3, <2>3, UptoTwice
    <2> QED BY <2>4, <2>5, <2>6, <2>7
  <1> HIDE DEF C
  <1> QED BY <1>2, <1>3 DEF Chain, C

\* Where two contents begin and end.
Origin == <<0, 0>>
\* The end of both texts.
Corner(old, new) == <<Len(old), Len(new)>>
\* Where the runs of the line diff begin and end.
LineCuts(old, new, a) ==
  {<<0, 0>>, <<Len(old), Len(new)>>} \cup (Begins(a) \ Ends(a)) \cup (Ends(a) \ Begins(a))

\* They too are ordered, from the start of both texts to their end.
LEMMA LineCutsChain ==
  ASSUME NEW old \in Seq(Symbols), NEW new \in Seq(Symbols), NEW a, Matched(old, new, a)
  PROVE  /\ Chain(LineCuts(old, new, a))
         /\ Origin \in LineCuts(old, new, a) /\ Corner(old, new) \in LineCuts(old, new, a)
         /\ \A p \in LineCuts(old, new, a) : Upto(p, Corner(old, new))
         /\ LineRuns(old, new, a) = Edges(LineCuts(old, new, a))
  <1> DEFINE C == LineCuts(old, new, a)
             D == Begins(a) \cup Ends(a)
             hi == Corner(old, new)
  <1>1. hi \in Points /\ Origin \in Points
    BY DEF Points, Corner, Origin
  <1>2. \A p \in Points : Upto(Origin, p)
    BY PointIs DEF Upto, Origin
  <1>3. \A p \in D : p \in Points /\ Upto(p, hi)
    <2> TAKE p \in D
    <2>1. PICK x \in a : p = Begin(x) \/ p = End(x)
      BY DEF Begins, Ends
    <2>2. p \in Points /\ p[1] <= Len(old) /\ p[2] <= Len(new)
      <3>1. /\ Begin(x)[1] <= Len(old) /\ Begin(x)[2] <= Len(new)
            /\ End(x)[1] <= Len(old) /\ End(x)[2] <= Len(new)
        <4>1. /\ Begin(x)[1] \in Nat /\ End(x)[1] \in Nat /\ Begin(x)[1] < End(x)[1]
              /\ Begin(x)[2] \in Nat /\ End(x)[2] \in Nat /\ Begin(x)[2] < End(x)[2]
              /\ End(x)[1] <= Len(old) /\ End(x)[2] <= Len(new)
          BY MatchedPair
        <4>2. Len(old) \in Nat /\ Len(new) \in Nat
          OBVIOUS
        <4> QED BY <4>1, <4>2
      <3>2. Begin(x) \in Points /\ End(x) \in Points
        BY MatchedPair
      <3> QED BY <2>1, <3>1, <3>2
    <2> QED BY <2>2 DEF Upto, Corner
  <1>4. C = {Origin, hi} \cup (Begins(a) \ Ends(a)) \cup (Ends(a) \ Begins(a))
    BY DEF LineCuts, Origin, Corner
  <1>5. C \subseteq {Origin, hi} \cup D
    BY <1>4
  <1>6. Chain(D)
    BY MatchedChain
  <1>7. \A p \in C : p \in Points /\ Upto(p, hi)
    <2> HIDE DEF D, C, hi
    <2> QED BY <1>1, <1>2, <1>3, <1>5, UptoTwice
  <1>8. \A p, q \in C : Upto(p, q) \/ Upto(q, p)
    <2> HIDE DEF D, C, hi
    <2> TAKE p, q \in C
    <2>1. p \in Points /\ q \in Points /\ Upto(p, hi) /\ Upto(q, hi)
      BY <1>7
    <2>2. p = Origin \/ p = hi \/ p \in D
      BY <1>5
    <2>3. q = Origin \/ q = hi \/ q \in D
      BY <1>5
    <2> QED BY <2>1, <2>2, <2>3, <1>2, <1>6 DEF Chain
  <1>9. LineRuns(old, new, a) = Edges(C)
    BY DEF LineRuns, LineCuts
  <1>10. Origin \in C /\ hi \in C
    <2> HIDE DEF C, hi
    <2> QED BY <1>4
  <1> HIDE DEF C, hi, D
  <1>11. Chain(C)
    BY <1>7, <1>8 DEF Chain
  <1> QED BY <1>7, <1>9, <1>10, <1>11 DEF C, hi

\* What is cut behind the start of a match is cut behind its end.
LEMMA CutsSpareMatches ==
  ASSUME NEW old \in Seq(Symbols), NEW new \in Seq(Symbols), NEW a, Matched(old, new, a),
         NEW x \in a, NEW q \in LineCuts(old, new, a), Upto(Begin(x), q), q # Begin(x)
  PROVE  Upto(End(x), q)
  <1>1. /\ Begin(x) \in Points /\ End(x) \in Points /\ Upto(Begin(x), End(x))
        /\ End(x)[1] \in Nat /\ End(x)[2] \in Nat
        /\ End(x)[1] <= Len(old) /\ End(x)[2] <= Len(new)
    BY MatchedPair
  <1>2. q = Origin \/ q = Corner(old, new) \/ \E y \in a : q = Begin(y) \/ q = End(y)
    BY DEF LineCuts, Begins, Ends, Origin, Corner
  <1>3. q # Origin
    <2>1. Origin \in Points /\ Upto(Origin, Begin(x))
      BY <1>1, PointIs DEF Origin, Points, Upto
    <2> QED BY <2>1, <1>1, UptoTwice
  <1>4. CASE q = Corner(old, new)
    BY <1>1, <1>4 DEF Corner, Upto
  <1>5. ASSUME NEW y \in a, q = Begin(y) \/ q = End(y) PROVE Upto(End(x), q)
    <2>1. /\ Begin(y) \in Points /\ End(y) \in Points /\ Upto(Begin(y), End(y))
          /\ Begin(y)[1] \in Nat /\ End(y)[1] \in Nat /\ Begin(y)[1] < End(y)[1]
      BY MatchedPair
    <2>2. x = y \/ Upto(End(x), Begin(y)) \/ Upto(End(y), Begin(x))
      BY DEF Matched
    <2>3. CASE x = y
      <3>1. q = End(x)
        BY <1>5, <2>3
      <3> QED BY <3>1, <1>1, UptoTwice
    <2>4. CASE Upto(End(x), Begin(y))
      <3>1. Upto(End(x), End(y))
        BY <2>1, <2>4, <1>1, UptoTwice
      <3> QED BY <2>4, <3>1, <1>5
    <2>5. CASE Upto(End(y), Begin(x))
      <3>1. Upto(End(y), q)
        <4>1. q \in Points
          BY <1>5, <2>1
        <4> QED BY <4>1, <2>1, <2>5, <1>1, UptoTwice
      <3>2. q # Begin(y)
        BY <3>1, <2>1 DEF Upto
      <3>3. q = End(y)
        BY <3>2, <1>5
      <3>4. q = Begin(x)
        BY <3>3, <2>1, <2>5, <1>1, UptoTwice
      <3> QED BY <3>4
    <2> QED BY <2>2, <2>3, <2>4, <2>5
  <1> QED BY <1>2, <1>3, <1>4, <1>5

\* Arithmetic of a match: how long it is.
LEMMA MatchLength ==
  ASSUME NEW i \in Nat, NEW j \in Nat, NEW k \in Nat, NEW l \in Nat, i < j, l - k = j - i,
         NEW d, d = j - i
  PROVE  d \in Nat /\ d > 0 /\ j = i + d /\ l = k + d
  OBVIOUS

\* And how far it leads.
LEMMA MatchReach ==
  ASSUME NEW u \in Nat, NEW w \in Nat, NEW n \in Nat, NEW m \in Nat, NEW b \in Nat,
         NEW i, NEW j, NEW k, NEW l, m > 0, i = u + n, k = w + n, j = i + m, l = k + m, j <= b
  PROVE  n + m \in Nat /\ n + m > n /\ n + m <= b /\ j = u + (n + m) /\ l = w + (n + m)
  OBVIOUS

\* A run of matched lines has the same text on both sides.
LEMMA EqualRunText ==
  ASSUME NEW old \in Seq(Symbols), NEW new \in Seq(Symbols), NEW a, Matched(old, new, a),
         NEW e \in Edges(LineCuts(old, new, a)), e[1] \in Begins(a)
  PROVE  /\ Text(old, OldSpan(e)) = Text(new, NewSpan(e))
         /\ e[1][1] < e[2][1]
  <1> DEFINE C == LineCuts(old, new, a)
             u == e[1][1]
             w == e[1][2]
             At(n) == <<u + n, w + n>>
             Same(n) == \A i \in 1 .. n : old[u + i] = new[w + i]
             T == {n \in 0 .. Len(old) : At(n) \in Begins(a) /\ Upto(At(n), e[2]) /\ At(n) # e[2] /\ Same(n)}
  <1>1. Len(old) \in Nat /\ Len(new) \in Nat
    OBVIOUS
  <1>2. Chain(C) /\ C \subseteq Points /\ \A p \in C : Upto(p, Corner(old, new))
    BY LineCutsChain DEF Chain
  <1>3. /\ e[1] \in C /\ e[2] \in C /\ e[1] # e[2] /\ Upto(e[1], e[2])
        /\ \A p \in C : Upto(p, e[1]) \/ Upto(e[2], p)
        /\ u \in Nat /\ w \in Nat /\ e[2][1] \in Nat /\ e[2][2] \in Nat
        /\ e[1] = <<u, w>> /\ e[2] = <<e[2][1], e[2][2]>>
        /\ e[1] \in Points /\ e[2] \in Points
    <2>1. C \subseteq Points /\ e \in Edges(C)
      BY <1>2
    <2>2. /\ e[1] \in C /\ e[2] \in C /\ e[1] # e[2] /\ Upto(e[1], e[2])
          /\ \A p \in C : Upto(p, e[1]) \/ Upto(e[2], p)
          /\ e[1][1] \in Nat /\ e[1][2] \in Nat /\ e[2][1] \in Nat /\ e[2][2] \in Nat
          /\ e[1] = <<e[1][1], e[1][2]>> /\ e[2] = <<e[2][1], e[2][2]>>
      <3> HIDE DEF C
      <3> QED BY <2>1, EdgeIs
    <2> HIDE DEF C
    <2> QED BY <2>1, <2>2
  <1>4. e[2][1] <= Len(old) /\ e[2][2] <= Len(new)
    BY <1>2, <1>3 DEF Upto, Corner
  <1>5. \A x \in a : Upto(Begin(x), e[2]) /\ e[2] # Begin(x) => Upto(End(x), e[2])
    BY <1>3, CutsSpareMatches
  <1> HIDE DEF C
  <1>6. 0 \in T
    <2>1. At(0) = e[1]
      BY <1>3
    <2>2. Same(0)
      OBVIOUS
    <2> HIDE DEF At, Same
    <2> QED BY <2>1, <2>2, <1>1, <1>3
  <1>7. PICK n \in T : \A m \in T : n >= m
    <2>1. T \subseteq 0 .. Len(old)
      OBVIOUS
    <2> HIDE DEF T
    <2> QED BY <1>1, <1>6, <2>1, GreatestNat
  <1>8. PICK x \in a : At(n) = Begin(x)
    <2>1. At(n) \in Begins(a)
      BY <1>7
    <2> HIDE DEF At, T
    <2> QED BY <2>1 DEF Begins
  <1> DEFINE L == x[1].end - x[1].start
             m == n + L
  <1>9. n \in Nat /\ n <= Len(old) /\ Same(n) /\ Upto(Begin(x), e[2]) /\ e[2] # Begin(x)
    <2> HIDE DEF At, Same
    <2> QED BY <1>1, <1>7, <1>8
  <1> HIDE DEF T
  <1>10. Upto(End(x), e[2])
    BY <1>5, <1>9
  <1>11. /\ Inside(old, x[1]) /\ Inside(new, x[2]) /\ Text(old, x[1]) = Text(new, x[2])
         /\ x[1].start \in Nat /\ x[1].end \in Nat /\ x[2].start \in Nat /\ x[2].end \in Nat
         /\ x[1].start < x[1].end /\ x[2].start < x[2].end
         /\ x[1].end <= Len(old) /\ x[2].end <= Len(new)
    BY DEF Matched, Inside
  <1>12. /\ x[1].start = u + n /\ x[2].start = w + n
         /\ End(x) = <<x[1].end, x[2].end>> /\ End(x) \in Ends(a) /\ End(x) \in Points
    <2>1. Begin(x)[1] = x[1].start /\ Begin(x)[2] = x[2].start
      BY MatchedPair
    <2>2. At(n)[1] = u + n /\ At(n)[2] = w + n
      OBVIOUS
    <2>3. End(x) \in Points /\ End(x) \in Ends(a) /\ End(x) = <<x[1].end, x[2].end>>
      BY MatchedPair DEF End
    <2> HIDE DEF At
    <2> QED BY <2>1, <2>2, <2>3, <1>8
  <1>13. /\ x[2].end - x[2].start = L /\ L \in Nat /\ L > 0
         /\ x[1].end = x[1].start + L /\ x[2].end = x[2].start + L
    <2>1. Len(Text(old, x[1])) = L /\ Len(Text(new, x[2])) = x[2].end - x[2].start
      BY <1>11, TextFacts
    <2>2. Len(Text(old, x[1])) = Len(Text(new, x[2]))
      BY <1>11
    <2>3. x[2].end - x[2].start = x[1].end - x[1].start
      BY <2>1, <2>2
    <2>4. PICK i \in Nat, j \in Nat, k \in Nat, l \in Nat :
             /\ x[1].start = i /\ x[1].end = j /\ x[2].start = k /\ x[2].end = l
             /\ i < j /\ l - k = j - i /\ L = j - i
      BY <1>11, <2>3
    <2> HIDE DEF L, m
    <2>5. L \in Nat /\ L > 0 /\ j = i + L /\ l = k + L
      BY <2>4, MatchLength
    <2> QED BY <2>3, <2>4, <2>5
  <1> HIDE DEF L, Same, At, u, w
  <1>14. m \in Nat /\ m > n /\ m <= Len(old) /\ x[1].end = u + m /\ x[2].end = w + m
    <2>1. /\ n \in Nat /\ L \in Nat /\ L > 0 /\ u \in Nat /\ w \in Nat /\ Len(old) \in Nat
          /\ x[1].start = u + n /\ x[2].start = w + n /\ x[1].end <= Len(old)
          /\ x[1].end = x[1].start + L /\ x[2].end = x[2].start + L
      BY <1>1, <1>9, <1>11, <1>12, <1>13, <1>3
    <2> QED BY <2>1, MatchReach
  <1>a. End(x) = At(m)
    BY <1>14, <1>12 DEF At
  <1>15. Same(m)
    <2> SUFFICES ASSUME NEW i \in 1 .. m PROVE old[u + i] = new[w + i]
      BY DEF Same
    <2>1. CASE i <= n
      <3>1. i \in 1 .. n
        BY <1>9, <1>14, <2>1
      <3> QED BY <3>1, <1>9 DEF Same
    <2>2. CASE i > n
      <3> DEFINE j == i - n
      <3>0. i \in Nat /\ m = n + L /\ n \in Nat /\ L \in Nat /\ i <= m
        BY <1>9, <1>13, <1>14 DEF m
      <3>1. j \in 1 .. L /\ x[1].start + j = u + i /\ x[2].start + j = w + i
        <4>1. j \in 1 .. L /\ n + j = i
          BY <3>0, <2>2
        <4> HIDE DEF j
        <4> QED BY <4>1, <3>0, <1>3, <1>12
      <3>2. Text(old, x[1])[j] = old[x[1].start + j]
        <4> HIDE DEF j
        <4>1. j \in 1 .. (x[1].end - x[1].start)
          BY <3>1 DEF L
        <4> QED BY <1>11, <4>1, TextFacts
      <3>3. Text(new, x[2])[j] = new[x[2].start + j]
        <4> HIDE DEF j
        <4> QED BY <1>11, <1>13, <3>1, TextFacts
      <3> HIDE DEF j
      <3> QED BY <3>1, <3>2, <3>3, <1>11
    <2>3. i <= n \/ i > n
      BY <1>9, <1>14
    <2> QED BY <2>1, <2>2, <2>3
  <1> HIDE DEF m
  <1>16. End(x) = e[2]
    <2> SUFFICES ASSUME End(x) # e[2] PROVE FALSE
      OBVIOUS
    <2>1. End(x) \notin Begins(a)
      <3> SUFFICES ASSUME End(x) \in Begins(a) PROVE FALSE
        OBVIOUS
      <3>1. m \in T
        <4> QED BY <1>1, <1>10, <1>12, <1>14, <1>15, <1>a DEF T
      <3>2. n >= m
        BY <3>1, <1>7
      <3> QED BY <3>2, <1>9, <1>14
    <2>2. End(x) \in C
      BY <2>1, <1>12 DEF C, LineCuts
    <2>3. ~ Upto(End(x), e[1])
      <3>1. End(x)[1] = x[1].end /\ x[1].end > u
        BY <1>3, <1>9, <1>11, <1>12
      <3> QED BY <3>1, <1>3, <1>11 DEF Upto
    <2>4. Upto(e[2], End(x))
      BY <2>2, <2>3, <1>3
    <2> QED BY <2>4, <1>3, <1>10, <1>12, UptoTwice
  <1>17. e[2][1] = u + m /\ e[2][2] = w + m
    BY <1>14, <1>16, <1>12
  <1> DEFINE s == OldSpan(e)
             t == NewSpan(e)
  <1>18. s.start = u /\ s.end = u + m /\ t.start = w /\ t.end = w + m
    BY <1>17 DEF OldSpan, NewSpan, Span, u, w
  <1> HIDE DEF s, t
  <1>19. Inside(old, s) /\ Inside(new, t) /\ s.end - s.start = m /\ t.end - t.start = m
    BY <1>1, <1>3, <1>4, <1>14, <1>17, <1>18 DEF Inside
  <1>20. \A i \in 1 .. (s.end - s.start) : old[s.start + i] = new[t.start + i]
    BY <1>15, <1>18, <1>19 DEF Same
  <1>21. Text(old, s) = Text(new, t)
    BY <1>19, <1>20, BytesMakeText
  <1>22. u < e[2][1]
    BY <1>3, <1>9, <1>14, <1>17
  <1> QED BY <1>21, <1>22 DEF s, t, u

----------------------------------------------------------------------------
(* Tokens and the regions of a hunk *)

\* What Min returns.
LEMMA LeastIs ==
  ASSUME NEW T, T \subseteq Nat, T # {}
  PROVE  Min(T) \in T /\ \A x \in T : Min(T) <= x
  <1>1. \E x \in T : \A y \in T : x <= y
    BY LeastNat
  <1> QED BY <1>1 DEF Min

\* What Max returns.
LEMMA GreatestIs ==
  ASSUME NEW n \in Nat, NEW T, T \subseteq 0 .. n, T # {}
  PROVE  Max(T) \in T /\ \A x \in T : Max(T) >= x
  <1>1. \E x \in T : \A y \in T : x >= y
    BY GreatestNat
  <1> QED BY <1>1 DEF Max

\* A token is one byte, and every byte but blanks is one.
LEMMA TokenIs ==
  ASSUME NEW c \in Seq(Symbols), NEW span, Inside(c, span)
  PROVE  /\ \A s \in TokensIn(c, span) :
              /\ s.start \in Nat /\ s.end = s.start + 1
              /\ span.start <= s.start /\ s.end <= span.end
              /\ Inside(c, s) /\ s.start < s.end
         /\ \A p \in Nat : span.start <= p /\ p < span.end /\ c[p + 1] \notin Blanks =>
              Span(p, p + 1) \in TokensIn(c, span)
  <1> DEFINE P == {q \in span.start .. (span.end - 1) : c[q + 1] \notin Blanks}
  <1>1. TokensIn(c, span) = {Span(p, p + 1) : p \in P}
    BY DEF TokensIn
  <1>2. span.start \in Nat /\ span.end \in Nat /\ span.end <= Len(c) /\ Len(c) \in Nat
    BY DEF Inside
  <1>3. \A p \in P : p \in Nat /\ span.start <= p /\ p + 1 <= span.end
    BY <1>2
  <1>4. \A p \in Nat : span.start <= p /\ p < span.end /\ c[p + 1] \notin Blanks => p \in P
    BY <1>2
  <1> HIDE DEF P
  <1>5. ASSUME NEW s \in TokensIn(c, span)
        PROVE  /\ s.start \in Nat /\ s.end = s.start + 1
               /\ span.start <= s.start /\ s.end <= span.end
               /\ Inside(c, s) /\ s.start < s.end
    <2>1. PICK p \in P : s = Span(p, p + 1)
      BY <1>1
    <2>2. s.start = p /\ s.end = p + 1
      BY <2>1 DEF Span
    <2>3. p \in Nat /\ span.start <= p /\ p + 1 <= span.end
      BY <1>3
    <2> QED BY <2>2, <2>3, <1>2 DEF Inside
  <1> QED BY <1>1, <1>4, <1>5

\* Where the first token begins and the last one ends.
FirstOf(toks, default) == IF toks = {} THEN default ELSE Min({x.start : x \in toks})
\* Where the last of some tokens ends.
LastOf(toks, default) == IF toks = {} THEN default ELSE Max({x.end : x \in toks})

\* From the first to the last of some tokens between two positions.
LEMMA BoxSide ==
  ASSUME NEW T, NEW lo \in Nat, NEW hi \in Nat, lo <= hi,
         \A s \in T : s.start \in Nat /\ s.end = s.start + 1 /\ lo <= s.start /\ s.start < hi,
         NEW low, low = FirstOf(T, lo), NEW high, high = LastOf(T, low)
  PROVE  /\ low \in Nat /\ high \in Nat /\ lo <= low /\ low <= high /\ high <= hi
         /\ \A s \in T : low <= s.start /\ s.end <= high
  <1>1. CASE T = {}
    BY <1>1 DEF FirstOf, LastOf
  <1>2. CASE T # {}
    <2> DEFINE B == {s.start : s \in T}
               E == {s.end : s \in T}
    <2>1. B # {} /\ E # {} /\ low = Min(B) /\ high = Max(E)
      BY <1>2 DEF FirstOf, LastOf
    <2>2. \A s \in T : s.end \in 0 .. hi /\ s.start \in Nat
      OBVIOUS
    <2>3. B \subseteq Nat /\ E \subseteq 0 .. hi
      BY <2>2
    <2>4. \A s \in T : s.start \in B /\ s.end \in E
      OBVIOUS
    <2>5. \A x \in B : \E s \in T : x = s.start
      OBVIOUS
    <2>6. \A x \in E : \E s \in T : x = s.end
      OBVIOUS
    <2> HIDE DEF B, E
    <2>7. low \in B /\ \A x \in B : low <= x
      BY <2>1, <2>3, LeastIs
    <2>8. high \in E /\ \A x \in E : high >= x
      BY <2>1, <2>3, GreatestIs
    <2>9. PICK s \in T : low = s.start
      BY <2>5, <2>7
    <2>10. PICK t \in T : high = t.end
      BY <2>6, <2>8
    <2>11. low \in Nat /\ high \in Nat /\ lo <= low /\ high <= hi
      BY <2>9, <2>10
    <2>12. \A r \in T : low <= r.start /\ r.end <= high
      <3> TAKE r \in T
      <3>1. r.end \in E /\ r.start \in B /\ r.end \in Nat
        BY <2>4, <2>2
      <3> QED BY <3>1, <2>7, <2>8, <2>11
    <2>13. low <= high
      <3>1. low <= s.start /\ s.end <= high /\ s.end = s.start + 1 /\ s.start \in Nat
        BY <2>12
      <3> QED BY <3>1, <2>11
    <2> QED BY <2>11, <2>12, <2>13
  <1> QED BY <1>1, <1>2

\* The box of a run of tokens lies in the run and holds its new tokens.
LEMMA BoxIs ==
  ASSUME NEW ot, NEW wt, \A s \in ot \cup wt : s.start \in Nat /\ s.end = s.start + 1,
         NEW r, r[1] \in Points, r[2] \in Points, Upto(r[1], r[2]), NEW b, b = Box(ot, wt, r)
  PROVE  /\ b[1] \in Points /\ b[2] \in Points
         /\ Upto(r[1], b[1]) /\ Upto(b[1], b[2]) /\ Upto(b[2], r[2])
         /\ \A s \in wt : r[1][2] <= s.start /\ s.start < r[2][2] =>
              b[1][2] <= s.start /\ s.end <= b[2][2]
  <1> DEFINE dels == {x \in ot : r[1][1] <= x.start /\ x.start < r[2][1]}
             adds == {x \in wt : r[1][2] <= x.start /\ x.start < r[2][2]}
             l1 == FirstOf(dels, r[1][1])
             l2 == FirstOf(adds, r[1][2])
             h1 == LastOf(dels, l1)
             h2 == LastOf(adds, l2)
  <1>1. b = <<<<l1, l2>>, <<h1, h2>>>>
    BY DEF Box, Edge, FirstOf, LastOf
  <1>2. /\ r[1][1] \in Nat /\ r[1][2] \in Nat /\ r[2][1] \in Nat /\ r[2][2] \in Nat
        /\ r[1][1] <= r[2][1] /\ r[1][2] <= r[2][2]
    BY PointIs DEF Upto
  <1>3. /\ l1 \in Nat /\ h1 \in Nat /\ r[1][1] <= l1 /\ l1 <= h1 /\ h1 <= r[2][1]
    <2>1. \A s \in dels : s.start \in Nat /\ s.end = s.start + 1 /\ r[1][1] <= s.start /\ s.start < r[2][1]
      OBVIOUS
    <2> HIDE DEF dels
    <2> QED BY <1>2, <2>1, BoxSide
  <1>4. /\ l2 \in Nat /\ h2 \in Nat /\ r[1][2] <= l2 /\ l2 <= h2 /\ h2 <= r[2][2]
        /\ \A s \in adds : l2 <= s.start /\ s.end <= h2
    <2>1. \A s \in adds : s.start \in Nat /\ s.end = s.start + 1 /\ r[1][2] <= s.start /\ s.start < r[2][2]
      OBVIOUS
    <2> HIDE DEF adds
    <2> QED BY <1>2, <2>1, BoxSide
  <1>5. \A s \in wt : r[1][2] <= s.start /\ s.start < r[2][2] => s \in adds
    OBVIOUS
  <1> HIDE DEF l1, l2, h1, h2, dels, adds
  <1>6. b[1] = <<l1, l2>> /\ b[2] = <<h1, h2>>
    BY <1>1
  <1>7. b[1][1] = l1 /\ b[1][2] = l2 /\ b[2][1] = h1 /\ b[2][2] = h2
    BY <1>6
  <1>8. b[1] \in Points /\ b[2] \in Points
    BY <1>3, <1>4, <1>6 DEF Points
  <1>9. Upto(r[1], b[1]) /\ Upto(b[1], b[2]) /\ Upto(b[2], r[2])
    BY <1>3, <1>4, <1>7 DEF Upto
  <1>10. \A s \in wt : r[1][2] <= s.start /\ s.start < r[2][2] => b[1][2] <= s.start /\ s.end <= b[2][2]
    BY <1>4, <1>5, <1>7
  <1> QED BY <1>8, <1>9, <1>10

\* What a run is cut into stays within the run.
Piece(x, e) ==
  /\ Chain(x.cuts) /\ e[1] \in x.cuts /\ e[2] \in x.cuts
  /\ \A p \in x.cuts : Upto(e[1], p) /\ Upto(p, e[2])
  /\ x.split \subseteq x.cuts \ {e[2]}

\* Every token of a run's new side is substantive or kept.
Explained(old, new, x, e) ==
  \A p \in Nat : e[1][2] <= p /\ p < e[2][2] /\ new[p + 1] \notin Blanks =>
    \/ \E f \in x.fresh : /\ f.start \in Nat /\ f.end \in Nat
                          /\ f.start <= p /\ p < f.end
    \/ \E g \in Edges(x.cuts) : /\ g[1][2] <= p /\ p < g[2][2]
                                /\ g[1] \notin x.split /\ g[1][1] < g[2][1]
                                /\ Text(old, OldSpan(g)) = Text(new, NewSpan(g))

\* The stretches between the matches of a hunk.
Regions(e, a) ==
  {r \in ({e[1]} \cup Ends(a)) \X ({e[2]} \cup Begins(a)) :
     /\ Upto(r[1], r[2])
     /\ \A x \in a : Upto(End(x), r[1]) \/ Upto(r[2], Begin(x))}

\* The matches of a hunk.
Within(e, a) == \A x \in a : Upto(e[1], Begin(x)) /\ Upto(End(x), e[2])

\* A region lies in its hunk, and no match lies in it.
LEMMA RegionIs ==
  ASSUME NEW old, NEW new, NEW a, Matched(old, new, a),
         NEW e, e[1] \in Points, e[2] \in Points, Upto(e[1], e[2]), Within(e, a),
         NEW r \in Regions(e, a)
  PROVE  /\ r = <<r[1], r[2]>>
         /\ r[1] \in Points /\ r[2] \in Points /\ Upto(r[1], r[2])
         /\ Upto(e[1], r[1]) /\ Upto(r[2], e[2])
         /\ r[1] = e[1] \/ \E x \in a : r[1] = End(x)
         /\ r[2] = e[2] \/ \E x \in a : r[2] = Begin(x)
         /\ \A x \in a : Upto(End(x), r[1]) \/ Upto(r[2], Begin(x))
  <1>1. /\ r = <<r[1], r[2]>>
        /\ r[1] = e[1] \/ \E x \in a : r[1] = End(x)
        /\ r[2] = e[2] \/ \E x \in a : r[2] = Begin(x)
        /\ Upto(r[1], r[2])
        /\ \A x \in a : Upto(End(x), r[1]) \/ Upto(r[2], Begin(x))
    BY DEF Regions, Begins, Ends
  <1>2. \A x \in a : /\ Begin(x) \in Points /\ End(x) \in Points /\ Upto(Begin(x), End(x))
                     /\ Upto(e[1], Begin(x)) /\ Upto(End(x), e[2])
    BY MatchedPair DEF Within
  <1>3. r[1] \in Points /\ r[2] \in Points
    BY <1>1, <1>2
  <1>4. \A x \in a : Upto(e[1], End(x)) /\ Upto(Begin(x), e[2])
    <2> TAKE x \in a
    <2> QED BY <1>2, UptoTwice
  <1>5. Upto(e[1], r[1]) /\ Upto(r[2], e[2])
    BY <1>1, <1>2, <1>4, UptoTwice
  <1> QED BY <1>1, <1>3, <1>5

\* Two regions do not overlap.
LEMMA RegionsApart ==
  ASSUME NEW old, NEW new, NEW a, Matched(old, new, a),
         NEW e, e[1] \in Points, e[2] \in Points, Upto(e[1], e[2]), Within(e, a),
         NEW r \in Regions(e, a), NEW s \in Regions(e, a)
  PROVE  r = s \/ Upto(r[2], s[1]) \/ Upto(s[2], r[1])
  <1> SUFFICES ASSUME ~ Upto(r[2], s[1]), ~ Upto(s[2], r[1]) PROVE r = s
    OBVIOUS
  <1>1. \A x \in a : Begin(x) \in Points /\ End(x) \in Points /\ Upto(Begin(x), End(x))
    BY MatchedPair
  <1>2. ASSUME NEW t \in Regions(e, a), NEW z \in Regions(e, a),
               ~ Upto(t[2], z[1]), ~ Upto(z[2], t[1])
        PROVE  Upto(z[1], t[1]) /\ Upto(t[2], z[2])
    <2>1. /\ t[1] \in Points /\ t[2] \in Points /\ Upto(e[1], t[1]) /\ Upto(t[2], e[2])
          /\ \A x \in a : Upto(End(x), t[1]) \/ Upto(t[2], Begin(x))
      BY RegionIs
    <2>2. /\ z[1] \in Points /\ z[2] \in Points
          /\ z[1] = e[1] \/ \E x \in a : z[1] = End(x)
          /\ z[2] = e[2] \/ \E x \in a : z[2] = Begin(x)
          /\ \A x \in a : Upto(End(x), z[1]) \/ Upto(z[2], Begin(x))
      BY RegionIs
    <2>3. Upto(z[1], t[1])
      <3>1. CASE z[1] = e[1]
        BY <3>1, <2>1
      <3>2. ASSUME NEW x \in a, z[1] = End(x) PROVE Upto(z[1], t[1])
        <4>1. ~ Upto(t[2], Begin(x))
          BY <1>1, <1>2, <2>1, <2>2, <3>2, UptoTwice
        <4> QED BY <4>1, <2>1, <3>2
      <3> QED BY <2>2, <3>1, <3>2
    <2>4. Upto(t[2], z[2])
      <3>1. CASE z[2] = e[2]
        BY <3>1, <2>1
      <3>2. ASSUME NEW x \in a, z[2] = Begin(x) PROVE Upto(t[2], z[2])
        <4>1. CASE Upto(t[2], Begin(x))
          BY <3>2, <4>1
        <4>2. ~ Upto(End(x), t[1])
          BY <1>1, <1>2, <2>1, <2>2, <3>2, UptoTwice
        <4> QED BY <4>1, <4>2, <2>1
      <3> QED BY <2>2, <3>1, <3>2
    <2> QED BY <2>3, <2>4
  <1>3. Upto(s[1], r[1]) /\ Upto(r[2], s[2])
    BY <1>2
  <1>4. Upto(r[1], s[1]) /\ Upto(s[2], r[2])
    BY <1>2
  <1>5. /\ r[1] \in Points /\ r[2] \in Points /\ s[1] \in Points /\ s[2] \in Points
        /\ r = <<r[1], r[2]>> /\ s = <<s[1], s[2]>>
    BY RegionIs
  <1>6. r[1] = s[1] /\ r[2] = s[2]
    BY <1>3, <1>4, <1>5, UptoTwice
  <1> QED BY <1>5, <1>6

\* An unmatched token lies in a region.
LEMMA RegionAt ==
  ASSUME NEW old, NEW new, NEW a, Matched(old, new, a),
         NEW e, e[1] \in Points, e[2] \in Points, Upto(e[1], e[2]), Within(e, a),
         NEW p \in Nat, e[1][2] <= p, p < e[2][2],
         \A x \in a : Begin(x)[2] > p \/ End(x)[2] <= p
  PROVE  \E r \in Regions(e, a) : r[1][2] <= p /\ p < r[2][2]
  <1> DEFINE S1 == {e[1]} \cup Ends(a)
             S2 == {e[2]} \cup Begins(a)
             B == {q \in S1 : q[2] <= p}
             A == {q \in S2 : p < q[2]}
             NB == {q[2] : q \in B}
             NA == {q[2] : q \in A}
  <1>1. \A x \in a : /\ Begin(x) \in Points /\ End(x) \in Points /\ Upto(Begin(x), End(x))
                     /\ Begin(x)[2] \in Nat /\ End(x)[2] \in Nat /\ Begin(x)[2] < End(x)[2]
                     /\ Upto(e[1], Begin(x)) /\ Upto(End(x), e[2])
    BY MatchedPair DEF Within
  <1>2. e[1][2] \in Nat /\ e[2][2] \in Nat
    BY PointIs
  <1>3. \A q \in S1 : q[2] \in Nat
    BY <1>1, <1>2 DEF Ends
  <1>4. \A q \in S2 : q[2] \in Nat
    BY <1>1, <1>2 DEF Begins
  <1>5. e[1] \in B /\ e[2] \in A
    OBVIOUS
  <1>6. PICK b \in B : \A q \in B : b[2] >= q[2]
    <2>1. \A q \in B : q[2] \in 0 .. p
      BY <1>3
    <2> HIDE DEF B
    <2>2. NB \subseteq 0 .. p /\ NB # {}
      BY <2>1, <1>5
    <2>3. PICK z \in NB : \A y \in NB : z >= y
      <3> HIDE DEF NB
      <3> QED BY <2>2, GreatestNat
    <2> QED BY <2>3
  <1>7. PICK c \in A : \A q \in A : c[2] <= q[2]
    <2>1. \A q \in A : q[2] \in Nat
      BY <1>4
    <2> HIDE DEF A
    <2>2. NA \subseteq Nat /\ NA # {}
      BY <2>1, <1>5
    <2>3. PICK z \in NA : \A y \in NA : z <= y
      <3> HIDE DEF NA
      <3> QED BY <2>2, LeastNat
    <2> QED BY <2>3
  <1>8. b[2] \in Nat /\ c[2] \in Nat /\ b[2] <= p /\ p < c[2]
    BY <1>3, <1>4
  <1>9. b = e[1] \/ \E x \in a : b = End(x)
    BY DEF Ends
  <1>10. c = e[2] \/ \E x \in a : c = Begin(x)
    BY DEF Begins
  <1>11. ASSUME NEW x \in a PROVE Upto(End(x), b) \/ Upto(c, Begin(x))
    <2>1. CASE End(x)[2] <= p
      <3>1. End(x) \in B
        BY <2>1 DEF Ends
      <3>2. End(x)[2] <= b[2]
        <4> HIDE DEF B
        <4> QED BY <3>1, <1>6, <1>8, <1>1
      <3>3. CASE b = e[1]
        BY <3>2, <3>3, <1>1, <1>2, PointIs DEF Upto
      <3>4. ASSUME NEW y \in a, b = End(y) PROVE Upto(End(x), b)
        <4>1. x = y \/ Upto(End(x), Begin(y)) \/ Upto(End(y), Begin(x))
          BY DEF Matched
        <4>2. CASE x = y
          BY <4>2, <3>4, <1>1, UptoTwice
        <4>3. CASE Upto(End(x), Begin(y))
          BY <4>3, <3>4, <1>1, UptoTwice
        <4>4. ~ Upto(End(y), Begin(x))
          BY <3>2, <3>4, <1>1, <1>8 DEF Upto
        <4> QED BY <4>1, <4>2, <4>3, <4>4
      <3> QED BY <1>9, <3>3, <3>4
    <2>2. CASE Begin(x)[2] > p
      <3>1. Begin(x) \in A
        BY <2>2 DEF Begins
      <3>2. c[2] <= Begin(x)[2]
        <4> HIDE DEF A
        <4> QED BY <3>1, <1>7
      <3>3. CASE c = e[2]
        BY <3>2, <3>3, <1>1, <1>2, PointIs DEF Upto
      <3>4. ASSUME NEW y \in a, c = Begin(y) PROVE Upto(c, Begin(x))
        <4>1. x = y \/ Upto(End(x), Begin(y)) \/ Upto(End(y), Begin(x))
          BY DEF Matched
        <4>2. CASE x = y
          BY <4>2, <3>4, <1>1, UptoTwice
        <4>3. CASE Upto(End(y), Begin(x))
          BY <4>3, <3>4, <1>1, UptoTwice
        <4>4. ~ Upto(End(x), Begin(y))
          BY <3>2, <3>4, <1>1, <1>8 DEF Upto
        <4> QED BY <4>1, <4>2, <4>3, <4>4
      <3> QED BY <1>10, <3>3, <3>4
    <2> QED BY <2>1, <2>2
  <1>12. Upto(b, c)
    <2>1. CASE b = e[1] /\ c = e[2]
      BY <2>1
    <2>2. ASSUME NEW x \in a, b = End(x) PROVE Upto(b, c)
      <3>1. CASE c = e[2]
        BY <3>1, <2>2, <1>1
      <3>2. ASSUME NEW y \in a, c = Begin(y) PROVE Upto(b, c)
        <4>1. x = y \/ Upto(End(x), Begin(y)) \/ Upto(End(y), Begin(x))
          BY DEF Matched
        <4>2. x # y
          BY <2>2, <3>2, <1>1, <1>8
        <4>3. ~ Upto(End(y), Begin(x))
          <5>1. Begin(y)[2] > End(x)[2]
            BY <2>2, <3>2, <1>8
          <5> QED BY <5>1, <1>1 DEF Upto
        <4> QED BY <4>1, <4>2, <4>3, <2>2, <3>2
      <3> QED BY <1>10, <3>1, <3>2
    <2>3. ASSUME NEW y \in a, b = e[1], c = Begin(y) PROVE Upto(b, c)
      BY <2>3, <1>1
    <2> QED BY <1>9, <1>10, <2>1, <2>2, <2>3
  <1> DEFINE r == <<b, c>>
  <1>13. r \in S1 \X S2 /\ r[1] = b /\ r[2] = c
    OBVIOUS
  <1> HIDE DEF r, A, B
  <1>14. r \in Regions(e, a)
    BY <1>11, <1>12, <1>13 DEF Regions
  <1> QED BY <1>8, <1>13, <1>14

----------------------------------------------------------------------------
(* compute_diffs: the pieces of a script *)

\* A stretch of two contents that an edge stands for.
Stretched(old, new, e) ==
  /\ e[1] \in Points /\ e[2] \in Points /\ Upto(e[1], e[2]) /\ e[1] # e[2]
  /\ Upto(e[2], Corner(old, new))

\* An edge's spans lie inside the texts.
LEMMA StretchedSpans ==
  ASSUME NEW old \in Seq(Symbols), NEW new \in Seq(Symbols), NEW e, Stretched(old, new, e)
  PROVE  /\ OldSpan(e).start = e[1][1] /\ OldSpan(e).end = e[2][1] /\ Inside(old, OldSpan(e))
         /\ NewSpan(e).start = e[1][2] /\ NewSpan(e).end = e[2][2] /\ Inside(new, NewSpan(e))
  <1>1. /\ OldSpan(e).start = e[1][1] /\ OldSpan(e).end = e[2][1]
        /\ NewSpan(e).start = e[1][2] /\ NewSpan(e).end = e[2][2]
    BY DEF OldSpan, NewSpan, Span
  <1>2. /\ e[1][1] \in Nat /\ e[1][2] \in Nat /\ e[2][1] \in Nat /\ e[2][2] \in Nat
        /\ e[1][1] <= e[2][1] /\ e[1][2] <= e[2][2]
        /\ e[2][1] <= Len(old) /\ e[2][2] <= Len(new)
    BY PointIs DEF Stretched, Upto, Corner
  <1> QED BY <1>1, <1>2 DEF Inside

\* The token diff's matches lie in the hunk.
LEMMA TokenMatches ==
  ASSUME NEW old \in Seq(Symbols), NEW new \in Seq(Symbols), NEW e, Stretched(old, new, e),
         NEW a \in Alignments(old, new, TokensIn(old, OldSpan(e)), TokensIn(new, NewSpan(e)))
  PROVE  /\ Matched(old, new, a) /\ Within(e, a)
         /\ \A x \in a : x[1] \in TokensIn(old, OldSpan(e)) /\ x[2] \in TokensIn(new, NewSpan(e))
         /\ \A x \in a : End(x)[1] = Begin(x)[1] + 1 /\ End(x)[2] = Begin(x)[2] + 1
  <1> DEFINE os == TokensIn(old, OldSpan(e))
             ws == TokensIn(new, NewSpan(e))
  <1>1. /\ OldSpan(e).start = e[1][1] /\ OldSpan(e).end = e[2][1] /\ Inside(old, OldSpan(e))
        /\ NewSpan(e).start = e[1][2] /\ NewSpan(e).end = e[2][2] /\ Inside(new, NewSpan(e))
    BY StretchedSpans
  <1>2. \A s \in os : /\ s.start \in Nat /\ s.end = s.start + 1 /\ Inside(old, s) /\ s.start < s.end
                      /\ e[1][1] <= s.start /\ s.end <= e[2][1]
    BY <1>1, TokenIs
  <1>3. \A s \in ws : /\ s.start \in Nat /\ s.end = s.start + 1 /\ Inside(new, s) /\ s.start < s.end
                      /\ e[1][2] <= s.start /\ s.end <= e[2][2]
    BY <1>1, TokenIs
  <1> HIDE DEF os, ws
  <1>4. Matched(old, new, a) /\ \A x \in a : x[1] \in os /\ x[2] \in ws
    <2>1. a \in Alignments(old, new, os, ws)
      BY DEF os, ws
    <2> QED BY <2>1, <1>2, <1>3, AlignmentMatches
  <1>5. ASSUME NEW x \in a
        PROVE  /\ Upto(e[1], Begin(x)) /\ Upto(End(x), e[2])
               /\ End(x)[1] = Begin(x)[1] + 1 /\ End(x)[2] = Begin(x)[2] + 1
    <2>1. /\ Begin(x)[1] = x[1].start /\ Begin(x)[2] = x[2].start
          /\ End(x)[1] = x[1].end /\ End(x)[2] = x[2].end
      BY <1>4, MatchedPair
    <2>2. x[1] \in os /\ x[2] \in ws
      BY <1>4
    <2> QED BY <2>1, <2>2, <1>2, <1>3 DEF Upto
  <1> QED BY <1>4, <1>5 DEF Within, os, ws

\* What a hunk is cut into token by token.
LEMMA TokenPiece ==
  ASSUME NEW old \in Seq(Symbols), NEW new \in Seq(Symbols), NEW e, Stretched(old, new, e),
         NEW a \in Alignments(old, new, TokensIn(old, OldSpan(e)), TokensIn(new, NewSpan(e))),
         NEW x, x = TokenDiffs(old, new, e, a)
  PROVE  Piece(x, e) /\ Explained(old, new, x, e)
  <1> DEFINE ot == TokensIn(old, OldSpan(e))
             wt == TokensIn(new, NewSpan(e))
             boxes == {b \in {Box(ot, wt, r) : r \in Regions(e, a)} : b[1] # b[2]}
             corners == {b[1] : b \in boxes} \cup {b[2] : b \in boxes}
             cuts == {e[1], e[2]} \cup Begins(a) \cup Ends(a) \cup corners
             split == corners \ (Begins(a) \cup {e[2]})
             fresh == {s \in {NewSpan(b) : b \in boxes} : s.start < s.end}
  <1>1. x.cuts = cuts /\ x.split = split /\ x.fresh = fresh
    <2>1. x = [cuts |-> cuts, split |-> split, fresh |-> fresh]
      BY DEF TokenDiffs, Regions
    <2> HIDE DEF cuts, split, fresh
    <2> QED BY <2>1
  <1>2. /\ e[1] \in Points /\ e[2] \in Points /\ Upto(e[1], e[2]) /\ e[1] # e[2]
    BY DEF Stretched
  <1>3. /\ Matched(old, new, a) /\ Within(e, a)
        /\ \A y \in a : y[1] \in ot /\ y[2] \in wt
        /\ \A y \in a : End(y)[1] = Begin(y)[1] + 1 /\ End(y)[2] = Begin(y)[2] + 1
    BY TokenMatches
  <1>4. /\ NewSpan(e).start = e[1][2] /\ NewSpan(e).end = e[2][2] /\ Inside(new, NewSpan(e))
        /\ Inside(old, OldSpan(e))
    BY StretchedSpans
  <1>5. \A s \in ot \cup wt : s.start \in Nat /\ s.end = s.start + 1
    BY <1>4, TokenIs
  <1>6. \A p \in Nat : e[1][2] <= p /\ p < e[2][2] /\ new[p + 1] \notin Blanks => Span(p, p + 1) \in wt
    BY <1>4, TokenIs
  <1> HIDE DEF ot, wt
  <1>7. \A r \in Regions(e, a) :
          /\ r = <<r[1], r[2]>>
          /\ r[1] \in Points /\ r[2] \in Points /\ Upto(r[1], r[2])
          /\ Upto(e[1], r[1]) /\ Upto(r[2], e[2])
          /\ \A y \in a : Upto(End(y), r[1]) \/ Upto(r[2], Begin(y))
    BY <1>2, <1>3, RegionIs
  <1>8. \A b \in boxes : b[1] # b[2] /\ \E r \in Regions(e, a) :
          /\ b = Box(ot, wt, r)
          /\ b[1] \in Points /\ b[2] \in Points
          /\ Upto(r[1], b[1]) /\ Upto(b[1], b[2]) /\ Upto(b[2], r[2])
    <2> TAKE b \in boxes
    <2>1. b[1] # b[2]
      OBVIOUS
    <2>2. PICK r \in Regions(e, a) : b = Box(ot, wt, r)
      OBVIOUS
    <2> HIDE DEF boxes
    <2>3. /\ b[1] \in Points /\ b[2] \in Points
          /\ Upto(r[1], b[1]) /\ Upto(b[1], b[2]) /\ Upto(b[2], r[2])
      BY <2>2, <1>5, <1>7, BoxIs
    <2> QED BY <2>1, <2>2, <2>3
  <1>9. \A c \in corners : c \in Points /\ \E r \in Regions(e, a) : \E b \in boxes :
          /\ b = Box(ot, wt, r) /\ c \in {b[1], b[2]}
          /\ b[1] \in Points /\ b[2] \in Points /\ Upto(b[1], b[2])
          /\ Upto(r[1], b[1]) /\ Upto(b[2], r[2])
          /\ Upto(r[1], c) /\ Upto(c, r[2])
    <2> TAKE c \in corners
    <2>1. PICK b \in boxes : c \in {b[1], b[2]}
      OBVIOUS
    <2> HIDE DEF boxes
    <2>2. PICK r \in Regions(e, a) :
            /\ b = Box(ot, wt, r)
            /\ b[1] \in Points /\ b[2] \in Points
            /\ Upto(r[1], b[1]) /\ Upto(b[1], b[2]) /\ Upto(b[2], r[2])
      BY <1>8
    <2>3. c \in Points /\ Upto(r[1], c) /\ Upto(c, r[2])
      BY <2>1, <2>2, <1>7, UptoTwice
    <2> QED BY <2>1, <2>2, <2>3
  <1> DEFINE D == Begins(a) \cup Ends(a)
  <1>10. Chain(D) /\ D \subseteq Points
    BY <1>3, MatchedChain DEF Chain
  <1>11. \A y \in a : /\ Begin(y) \in Points /\ End(y) \in Points /\ Upto(Begin(y), End(y))
                      /\ Begin(y)[1] \in Nat /\ Begin(y)[2] \in Nat
                      /\ Upto(e[1], Begin(y)) /\ Upto(End(y), e[2])
                      /\ Begin(y) \in Begins(a) /\ End(y) \in Ends(a)
    BY <1>3, MatchedPair DEF Within
  <1>12. \A q \in D : \E y \in a : q = Begin(y) \/ q = End(y)
    BY DEF Begins, Ends
  <1> HIDE DEF boxes, corners, D
  <1>13. \A q \in D : Upto(e[1], q) /\ Upto(q, e[2])
    <2> TAKE q \in D
    <2>1. PICK y \in a : q = Begin(y) \/ q = End(y)
      BY <1>12
    <2> QED BY <2>1, <1>2, <1>11, UptoTwice
  <1>14. \A c \in corners : Upto(e[1], c) /\ Upto(c, e[2])
    <2> TAKE c \in corners
    <2>1. PICK r \in Regions(e, a) : Upto(r[1], c) /\ Upto(c, r[2]) /\ c \in Points
      BY <1>9
    <2> QED BY <2>1, <1>2, <1>7, UptoTwice
  <1>15. \A c \in corners, q \in D : Upto(c, q) \/ Upto(q, c)
    <2> TAKE c \in corners, q \in D
    <2>1. PICK r \in Regions(e, a) : Upto(r[1], c) /\ Upto(c, r[2]) /\ c \in Points
      BY <1>9
    <2>2. PICK y \in a : q = Begin(y) \/ q = End(y)
      BY <1>12
    <2>3. CASE Upto(End(y), r[1])
      <3>1. Upto(q, End(y)) /\ q \in Points
        BY <2>2, <1>11, UptoTwice
      <3>2. Upto(q, r[1])
        BY <3>1, <2>3, <1>7, <1>11, UptoTwice
      <3> QED BY <3>1, <3>2, <2>1, <1>7, UptoTwice
    <2>4. CASE Upto(r[2], Begin(y))
      <3>1. Upto(Begin(y), q) /\ q \in Points
        BY <2>2, <1>11, UptoTwice
      <3>2. Upto(r[2], q)
        BY <3>1, <2>4, <1>7, <1>11, UptoTwice
      <3> QED BY <3>1, <3>2, <2>1, <1>7, UptoTwice
    <2> QED BY <2>3, <2>4, <1>7
  <1>16. \A c, d \in corners : Upto(c, d) \/ Upto(d, c)
    <2> TAKE c, d \in corners
    <2>1. PICK r \in Regions(e, a) : \E b \in boxes :
            /\ b = Box(ot, wt, r) /\ c \in {b[1], b[2]}
            /\ b[1] \in Points /\ b[2] \in Points /\ Upto(b[1], b[2])
            /\ Upto(r[1], c) /\ Upto(c, r[2])
      BY <1>9
    <2>2. PICK s \in Regions(e, a) : \E b \in boxes :
            /\ b = Box(ot, wt, s) /\ d \in {b[1], b[2]}
            /\ b[1] \in Points /\ b[2] \in Points /\ Upto(b[1], b[2])
            /\ Upto(s[1], d) /\ Upto(d, s[2])
      BY <1>9
    <2>3. c \in Points /\ d \in Points
      BY <1>9
    <2>4. CASE r = s
      BY <2>1, <2>2, <2>4, UptoTwice
    <2>5. CASE Upto(r[2], s[1])
      <3>1. Upto(c, s[1])
        BY <2>1, <2>3, <2>5, <1>7, UptoTwice
      <3> QED BY <3>1, <2>2, <2>3, <1>7, UptoTwice
    <2>6. CASE Upto(s[2], r[1])
      <3>1. Upto(d, r[1])
        BY <2>2, <2>3, <2>6, <1>7, UptoTwice
      <3> QED BY <3>1, <2>1, <2>3, <1>7, UptoTwice
    <2>7. r = s \/ Upto(r[2], s[1]) \/ Upto(s[2], r[1])
      BY <1>2, <1>3, RegionsApart
    <2> QED BY <2>4, <2>5, <2>6, <2>7
  <1>17. cuts = {e[1], e[2]} \cup D \cup corners
    BY DEF D
  <1> HIDE DEF cuts
  <1>18. \A q \in cuts : q \in Points /\ Upto(e[1], q) /\ Upto(q, e[2])
    BY <1>2, <1>9, <1>10, <1>13, <1>14, <1>17, UptoTwice
  <1>19. \A q, c \in cuts : Upto(q, c) \/ Upto(c, q)
    BY <1>10, <1>15, <1>16, <1>17, <1>18 DEF Chain
  <1>20. Chain(cuts)
    BY <1>18, <1>19 DEF Chain
  <1>21. split \subseteq cuts \ {e[2]}
    BY <1>17
  <1>22. Piece(x, e)
    <2> HIDE DEF split, fresh
    <2> QED BY <1>1, <1>17, <1>18, <1>20, <1>21 DEF Piece
  <1>23. ASSUME NEW p \in Nat, e[1][2] <= p, p < e[2][2], new[p + 1] \notin Blanks
         PROVE  \/ \E f \in fresh : /\ f.start \in Nat /\ f.end \in Nat
                                    /\ f.start <= p /\ p < f.end
                \/ \E g \in Edges(cuts) : /\ g[1][2] <= p /\ p < g[2][2]
                                          /\ g[1] \notin split /\ g[1][1] < g[2][1]
                                          /\ Text(old, OldSpan(g)) = Text(new, NewSpan(g))
    <2>1. ASSUME NEW y \in a, Begin(y)[2] <= p, p < End(y)[2]
          PROVE  \E g \in Edges(cuts) : /\ g[1][2] <= p /\ p < g[2][2]
                                        /\ g[1] \notin split /\ g[1][1] < g[2][1]
                                        /\ Text(old, OldSpan(g)) = Text(new, NewSpan(g))
      <3> DEFINE g == <<Begin(y), End(y)>>
      <3>1. /\ Begin(y) \in cuts /\ End(y) \in cuts
        BY <1>11, <1>17 DEF D
      <3>2. \A q \in cuts : Upto(q, Begin(y)) \/ Upto(End(y), q)
        <4> TAKE q \in cuts
        <4>1. /\ q \in Points /\ q[1] \in Nat /\ q[2] \in Nat
              /\ Begin(y)[1] \in Nat /\ Begin(y)[2] \in Nat
              /\ End(y)[1] = Begin(y)[1] + 1 /\ End(y)[2] = Begin(y)[2] + 1
          BY <1>3, <1>11, <1>18, PointIs
        <4>2. q = e[1] \/ q = e[2] \/ q \in D \/ q \in corners
          BY <1>17
        <4>3. CASE q \in D
          <5>1. PICK z \in a : q = Begin(z) \/ q = End(z)
            BY <4>3, <1>12
          <5>2. y = z \/ Upto(End(y), Begin(z)) \/ Upto(End(z), Begin(y))
            BY <1>3 DEF Matched
          <5> QED BY <5>1, <5>2, <1>11, UptoTwice
        <4>4. CASE q \in corners
          <5>1. PICK r \in Regions(e, a) : Upto(r[1], q) /\ Upto(q, r[2])
            BY <4>4, <1>9
          <5>2. Upto(End(y), r[1]) \/ Upto(r[2], Begin(y))
            BY <1>7
          <5> QED BY <5>1, <5>2, <4>1, <1>7, <1>11, UptoTwice
        <4> QED BY <4>2, <4>3, <4>4, <1>11
      <3>3. g[1] = Begin(y) /\ g[2] = End(y)
        OBVIOUS
      <3>4. Begin(y) # End(y) /\ Begin(y)[1] < End(y)[1]
        BY <1>3, <1>11
      <3>5. g \in Edges(cuts)
        <4>1. g \in cuts \X cuts
          BY <3>1
        <4> HIDE DEF g
        <4> QED BY <4>1, <3>2, <3>3, <3>4, <1>11 DEF Edges
      <3>6. g[1] \notin split
        BY <3>3, <1>11
      <3>7. Text(old, OldSpan(g)) = Text(new, NewSpan(g))
        <4>1. /\ OldSpan(g).start = y[1].start /\ OldSpan(g).end = y[1].end
              /\ NewSpan(g).start = y[2].start /\ NewSpan(g).end = y[2].end
          <5>1. /\ Begin(y)[1] = y[1].start /\ Begin(y)[2] = y[2].start
                /\ End(y)[1] = y[1].end /\ End(y)[2] = y[2].end
            BY <1>3, MatchedPair
          <5> QED BY <5>1 DEF OldSpan, NewSpan, Span
        <4>2. Text(old, y[1]) = Text(new, y[2])
          BY <1>3 DEF Matched
        <4> HIDE DEF g
        <4> QED BY <4>1, <4>2 DEF Text
      <3> HIDE DEF g, split
      <3> QED BY <2>1, <3>3, <3>4, <3>5, <3>6, <3>7
    <2>2. ASSUME \A y \in a : Begin(y)[2] > p \/ End(y)[2] <= p
          PROVE  \E f \in fresh : f.start \in Nat /\ f.end \in Nat /\ f.start <= p /\ p < f.end
      <3>1. PICK r \in Regions(e, a) : r[1][2] <= p /\ p < r[2][2]
        BY <2>2, <1>2, <1>3, <1>23, RegionAt
      <3> DEFINE b == Box(ot, wt, r)
                 s == Span(p, p + 1)
                 f == NewSpan(b)
      <3>2. s \in wt /\ s.start = p /\ s.end = p + 1
        BY <1>6, <1>23 DEF Span
      <3>3. b[1] \in Points /\ b[2] \in Points /\ b[1][2] <= p /\ p + 1 <= b[2][2]
        <4>1. r[1] \in Points /\ r[2] \in Points /\ Upto(r[1], r[2])
          BY <1>7
        <4> HIDE DEF b, s
        <4>2. b = Box(ot, wt, r)
          BY DEF b
        <4>3. /\ b[1] \in Points /\ b[2] \in Points
              /\ \A t \in wt : r[1][2] <= t.start /\ t.start < r[2][2] =>
                   b[1][2] <= t.start /\ t.end <= b[2][2]
          BY <4>1, <4>2, <1>5, BoxIs
        <4> QED BY <4>3, <3>1, <3>2
      <3> HIDE DEF s
      <3>4. b[1][2] \in Nat /\ b[2][2] \in Nat /\ b[1][2] < b[2][2]
        <4> HIDE DEF b
        <4>1. b[1][2] \in Nat /\ b[2][2] \in Nat
          BY <3>3, PointIs
        <4> QED BY <4>1, <3>3
      <3>5. b \in boxes
        <4>1. b[1] # b[2]
          <5> HIDE DEF b
          <5> QED BY <3>4
        <4> QED BY <4>1 DEF boxes
      <3> HIDE DEF b
      <3>6. f.start = b[1][2] /\ f.end = b[2][2]
        BY DEF NewSpan, Span
      <3>7. f \in fresh
        BY <3>4, <3>5, <3>6
      <3> HIDE DEF f, fresh
      <3> QED BY <3>3, <3>4, <3>6, <3>7
    <2>3. \A y \in a : Begin(y)[2] \in Nat /\ End(y)[2] = Begin(y)[2] + 1
      BY <1>3, <1>11
    <2> HIDE DEF split, fresh
    <2> QED BY <2>1, <2>2, <2>3
  <1> HIDE DEF split, fresh
  <1> QED BY <1>1, <1>22, <1>23 DEF Explained

\* A hunk that is not cut is a piece of the script.
LEMMA WholePiece ==
  ASSUME NEW old, NEW new, NEW e, Stretched(old, new, e), e = <<e[1], e[2]>>,
         NEW x, x.cuts = {e[1], e[2]}, x.split \subseteq {e[1]}
  PROVE  Piece(x, e) /\ e \in Edges(x.cuts)
  <1>1. e[1] \in Points /\ e[2] \in Points /\ Upto(e[1], e[2]) /\ e[1] # e[2]
        /\ Upto(e[1], e[1]) /\ Upto(e[2], e[2])
    BY UptoTwice DEF Stretched
  <1>2. Chain(x.cuts)
    BY <1>1 DEF Chain
  <1>3. e \in x.cuts \X x.cuts
    BY <1>1
  <1>4. e \in Edges(x.cuts)
    BY <1>1, <1>3 DEF Edges
  <1> QED BY <1>1, <1>2, <1>4 DEF Piece

\* So is a hunk that is cut by its tokens.
LEMMA HunkPiece ==
  ASSUME NEW old \in Seq(Symbols), NEW new \in Seq(Symbols), NEW e, Stretched(old, new, e),
         e = <<e[1], e[2]>>, NEW ai, NEW x \in HunkDiffs(old, new, e, ai)
  PROVE  Piece(x, e) /\ (~ ai => Explained(old, new, x, e))
  <1> DEFINE o == OldSpan(e)
             w == NewSpan(e)
             Touches(text, s) == Cardinality({l \in ToSet(Lines(text)) :
                                                s.start <= l.start /\ l.start < s.end})
             wide == LineAligned(Higher(Touches(old, o), Touches(new, w)),
                                 Higher(o.end - o.start, w.end - w.start))
             Whole(fresh) == [cuts |-> {e[1], e[2]}, split |-> {e[1]}, fresh |-> fresh]
             all == IF IsBlank(Text(new, w)) THEN {} ELSE {w}
  <1>1. HunkDiffs(old, new, e, ai)
          = IF ai THEN {Whole({})}
            ELSE IF wide THEN {Whole(all)}
            ELSE {TokenDiffs(old, new, e, a) : a \in Alignments(old, new, TokensIn(old, o), TokensIn(new, w))}
    BY DEF HunkDiffs
  <1> HIDE DEF wide
  <1>2. CASE ai
    <2>1. x.cuts = {e[1], e[2]} /\ x.split = {e[1]}
      BY <1>1, <1>2
    <2> QED BY <2>1, <1>2, WholePiece
  <1>3. CASE ~ ai /\ wide
    <2>1. x = Whole(all)
      BY <1>1, <1>3
    <2>2. x.cuts = {e[1], e[2]} /\ x.split = {e[1]} /\ x.fresh = all
      <3> HIDE DEF all
      <3> QED BY <2>1
    <2>3. Piece(x, e)
      BY <2>2, WholePiece
    <2>4. ASSUME NEW p \in Nat, e[1][2] <= p, p < e[2][2], new[p + 1] \notin Blanks
          PROVE  \E f \in x.fresh : f.start \in Nat /\ f.end \in Nat /\ f.start <= p /\ p < f.end
      <3>1. w.start = e[1][2] /\ w.end = e[2][2] /\ Inside(new, w)
        BY StretchedSpans
      <3> DEFINE i == p - w.start + 1
      <3>2. i \in 1 .. (w.end - w.start) /\ w.start + i = p + 1
        BY <2>4, <3>1 DEF Inside
      <3> HIDE DEF i, w
      <3>3. i \in DOMAIN Text(new, w) /\ Text(new, w)[i] = new[p + 1]
        BY <3>1, <3>2, TextFacts
      <3>4. ~ IsBlank(Text(new, w))
        BY <2>4, <3>3 DEF IsBlank
      <3>5. w \in x.fresh
        BY <2>2, <3>4
      <3> QED BY <2>4, <3>1, <3>5 DEF Inside
    <2> QED BY <2>3, <2>4 DEF Explained
  <1>4. CASE ~ ai /\ ~ wide
    <2>1. PICK a \in Alignments(old, new, TokensIn(old, o), TokensIn(new, w)) : x = TokenDiffs(old, new, e, a)
      BY <1>1, <1>4
    <2> QED BY <2>1, TokenPiece
  <1> QED BY <1>2, <1>3, <1>4

\* What a run may be cut into.
PiecesOf(old, new, a, ai, e) ==
  IF e[1] \in Begins(a) THEN {[cuts |-> {e[1], e[2]}, split |-> {}, fresh |-> {}]}
  ELSE HunkDiffs(old, new, e, ai)

\* And so is every run of the line diff.
LEMMA RunPiece ==
  ASSUME NEW old \in Seq(Symbols), NEW new \in Seq(Symbols), NEW a, Matched(old, new, a),
         NEW e \in LineRuns(old, new, a), NEW ai, NEW x \in PiecesOf(old, new, a, ai, e)
  PROVE  Piece(x, e) /\ (~ ai => Explained(old, new, x, e))
  <1> DEFINE C == LineCuts(old, new, a)
  <1>1. /\ C \subseteq Points /\ \A p \in C : Upto(p, Corner(old, new))
        /\ e \in Edges(C)
    BY LineCutsChain DEF Chain
  <1>2. Stretched(old, new, e) /\ e = <<e[1], e[2]>>
    <2> HIDE DEF C
    <2> QED BY <1>1, EdgeIs DEF Stretched
  <1>3. CASE e[1] \in Begins(a)
    <2>1. x = [cuts |-> {e[1], e[2]}, split |-> {}, fresh |-> {}]
      BY <1>3 DEF PiecesOf
    <2>2. x.cuts = {e[1], e[2]} /\ x.split = {}
      BY <2>1
    <2>3. Piece(x, e) /\ e \in Edges(x.cuts)
      BY <1>2, <2>2, WholePiece
    <2>4. Text(old, OldSpan(e)) = Text(new, NewSpan(e)) /\ e[1][1] < e[2][1]
      BY <1>1, <1>3, EqualRunText
    <2> QED BY <2>2, <2>3, <2>4 DEF Explained
  <1>4. CASE e[1] \notin Begins(a)
    <2>1. x \in HunkDiffs(old, new, e, ai)
      BY <1>4 DEF PiecesOf
    <2> QED BY <2>1, <1>2, HunkPiece
  <1> QED BY <1>3, <1>4

\* Diffs that come from cutting two contents into stretches.
CutBy(old, new, c, ai, G, K) ==
  /\ Chain(G) /\ \A p \in G : Upto(p, Corner(old, new))
  /\ c.diffs = UNION {Stretch(old, new, e, e[1] \in K) : e \in Edges(G)}
  /\ \A x \in Nat : x < Len(old) => \E e \in Edges(G) : e[1][1] <= x /\ x < e[2][1]
  /\ \A x \in Nat : x < Len(new) => \E e \in Edges(G) : e[1][2] <= x /\ x < e[2][2]
  /\ ~ ai => \A p \in Nat : p < Len(new) /\ new[p + 1] \notin Blanks =>
       \/ \E f \in c.fresh : /\ f.start \in Nat /\ f.end \in Nat
                             /\ f.start <= p /\ p < f.end
       \/ \E g \in Edges(G) : /\ g[1][2] <= p /\ p < g[2][2]
                              /\ g[1] \notin K /\ g[1][1] < g[2][1]
                              /\ Text(old, OldSpan(g)) = Text(new, NewSpan(g))

\* One piece is taken of each run.
OneOfEach(old, new, a, ai, P) ==
  /\ \A x \in P : \E e \in LineRuns(old, new, a) : x \in PiecesOf(old, new, a, ai, e)
  /\ \A e \in LineRuns(old, new, a) :
       \E x \in PiecesOf(old, new, a, ai, e) : P \cap PiecesOf(old, new, a, ai, e) = {x}

\* compute_diffs chooses one piece for each run.
LEMMA PicksAre ==
  ASSUME NEW old \in Seq(Symbols), NEW new \in Seq(Symbols), NEW ai,
         NEW c \in ComputeDiffs(old, new, ai)
  PROVE  \E a, P : /\ Matched(old, new, a) /\ OneOfEach(old, new, a, ai, P)
                   /\ c = [diffs |-> Placed(old, new, P), fresh |-> UNION {x.fresh : x \in P}]
  <1> DEFINE Pieces(a) == [e \in LineRuns(old, new, a) |-> PiecesOf(old, new, a, ai, e)]
             Picks(a) == {P \in SUBSET UNION {Pieces(a)[e] : e \in LineRuns(old, new, a)} :
                            \A e \in LineRuns(old, new, a) :
                              \E x \in Pieces(a)[e] : P \cap Pieces(a)[e] = {x}}
             os == ToSet(Lines(old))
             ws == ToSet(Lines(new))
             all == UNION {Picks(a) : a \in Alignments(old, new, os, ws)}
  <1>1. ComputeDiffs(old, new, ai)
          = {[diffs |-> Placed(old, new, P), fresh |-> UNION {x.fresh : x \in P}] : P \in all}
    BY DEF ComputeDiffs, PiecesOf
  <1>2. PICK P \in all : c = [diffs |-> Placed(old, new, P), fresh |-> UNION {x.fresh : x \in P}]
    <2> HIDE DEF all
    <2> QED BY <1>1
  <1>3. PICK a \in Alignments(old, new, os, ws) : P \in Picks(a)
    <2> HIDE DEF Picks, os, ws
    <2> QED BY <1>2
  <1>4. \A s \in os : Inside(old, s) /\ s.start < s.end
    <2> TAKE s \in os
    <2>1. PICK k \in DOMAIN Lines(old) : s = Lines(old)[k]
      BY DEF ToSet
    <2> QED BY <2>1, LinesFacts DEF Inside
  <1>5. \A s \in ws : Inside(new, s) /\ s.start < s.end
    <2> TAKE s \in ws
    <2>1. PICK k \in DOMAIN Lines(new) : s = Lines(new)[k]
      BY DEF ToSet
    <2> QED BY <2>1, LinesFacts DEF Inside
  <1>6. Matched(old, new, a)
    <2> HIDE DEF os, ws, Picks, all
    <2> QED BY <1>4, <1>5, AlignmentMatches
  <1>7. OneOfEach(old, new, a, ai, P)
    <2>1. \A e \in LineRuns(old, new, a) : Pieces(a)[e] = PiecesOf(old, new, a, ai, e)
      OBVIOUS
    <2>2. /\ P \subseteq UNION {Pieces(a)[e] : e \in LineRuns(old, new, a)}
          /\ \A e \in LineRuns(old, new, a) : \E x \in Pieces(a)[e] : P \cap Pieces(a)[e] = {x}
      BY <1>3
    <2> HIDE DEF Pieces, Picks, all, os, ws
    <2> QED BY <2>1, <2>2 DEF OneOfEach
  <1> QED BY <1>2, <1>6, <1>7

\* Where the pieces are cut.
AllCuts(P) == UNION {x.cuts : x \in P}
\* Where an equal text is nevertheless a deletion and an insertion.
AllSplits(P) == UNION {x.split : x \in P}

\* The cuts of a run's piece have no other cut between them.
Fits(old, new, a, ai, P, G, K) ==
  /\ Chain(G) /\ \A p \in G : Upto(p, Corner(old, new))
  /\ \A e \in LineRuns(old, new, a) : \E x \in P :
       /\ x \in PiecesOf(old, new, a, ai, e) /\ e[1] \in G /\ e[2] \in G
       /\ \A g \in Edges(x.cuts) : g \in Edges(G) /\ (g[1] \notin x.split => g[1] \notin K)

\* The pieces of all runs together are cuts of the contents.
LEMMA PiecesFit ==
  ASSUME NEW old \in Seq(Symbols), NEW new \in Seq(Symbols), NEW ai, NEW a, NEW P,
         Matched(old, new, a), OneOfEach(old, new, a, ai, P)
  PROVE  Fits(old, new, a, ai, P, AllCuts(P), AllSplits(P))
  <1> DEFINE C == LineCuts(old, new, a)
             R == LineRuns(old, new, a)
             Of(e) == PiecesOf(old, new, a, ai, e)
             G == AllCuts(P)
             K == AllSplits(P)
  <1>1. C \subseteq Points /\ R = Edges(C) /\ \A p \in C : Upto(p, Corner(old, new))
    BY LineCutsChain DEF Chain
  <1>2. \A e \in R : \A x \in Of(e) : Piece(x, e)
    BY RunPiece
  <1>3. /\ \A x \in P : \E e \in R : x \in Of(e)
        /\ \A e \in R : \E x \in Of(e) : P \cap Of(e) = {x}
    BY DEF OneOfEach
  <1>a. G = UNION {x.cuts : x \in P} /\ K = UNION {x.split : x \in P}
    BY DEF AllCuts, AllSplits
  <1> HIDE DEF C, R, Of, G, K
  <1>4. \A e \in R : /\ e[1] \in Points /\ e[2] \in Points /\ Upto(e[1], e[2])
                     /\ e[1] \in C /\ e[2] \in C
    BY <1>1, EdgeIs
  <1>5. \A e, f \in R : e = f \/ Upto(e[2], f[1]) \/ Upto(f[2], e[1])
    BY <1>1, EdgesApart
  <1>6. \A x, y \in P : \A e \in R : x \in Of(e) /\ y \in Of(e) => x = y
    BY <1>3
  <1>7. \A p \in G : \E x \in P : \E e \in R : x \in Of(e) /\ p \in x.cuts /\ Piece(x, e)
    BY <1>2, <1>3, <1>a
  <1>8. \A x \in P : \A e \in R : x \in Of(e) =>
          /\ x.cuts \subseteq Points
          /\ \A p \in x.cuts : Upto(e[1], p) /\ Upto(p, e[2])
          /\ \A p, q \in x.cuts : Upto(p, q) \/ Upto(q, p)
          /\ e[1] \in x.cuts /\ e[2] \in x.cuts
          /\ x.split \subseteq x.cuts \ {e[2]}
    BY <1>2 DEF Piece, Chain
  <1>9. \A p \in G : p \in Points /\ Upto(p, Corner(old, new))
    <2> TAKE p \in G
    <2>1. PICK x \in P, e \in R : x \in Of(e) /\ p \in x.cuts
      BY <1>7
    <2>2. p \in Points /\ Upto(p, e[2]) /\ Upto(e[2], Corner(old, new))
      BY <2>1, <1>1, <1>4, <1>8
    <2>3. Corner(old, new) \in Points
      BY DEF Corner, Points
    <2> QED BY <2>2, <2>3, <1>4, UptoTwice
  <1>10. \A p, q \in G : Upto(p, q) \/ Upto(q, p)
    <2> TAKE p, q \in G
    <2>1. PICK x \in P, e \in R : x \in Of(e) /\ p \in x.cuts
      BY <1>7
    <2>2. PICK y \in P, f \in R : y \in Of(f) /\ q \in y.cuts
      BY <1>7
    <2>3. CASE e = f
      BY <2>1, <2>2, <2>3, <1>6, <1>8
    <2>4. Upto(e[1], p) /\ Upto(p, e[2]) /\ Upto(f[1], q) /\ Upto(q, f[2])
      BY <2>1, <2>2, <1>8
    <2>5. e[1] \in Points /\ e[2] \in Points /\ f[1] \in Points /\ f[2] \in Points
      BY <1>4
    <2>6. CASE Upto(e[2], f[1])
      <3>1. Upto(p, f[1])
        BY <2>4, <2>5, <2>6, <1>9, UptoTwice
      <3> QED BY <3>1, <2>4, <2>5, <1>9, UptoTwice
    <2>7. CASE Upto(f[2], e[1])
      <3>1. Upto(q, e[1])
        BY <2>4, <2>5, <2>7, <1>9, UptoTwice
      <3> QED BY <3>1, <2>4, <2>5, <1>9, UptoTwice
    <2> QED BY <2>3, <2>6, <2>7, <1>5
  <1>11. Chain(G)
    BY <1>9, <1>10 DEF Chain
  <1>12. ASSUME NEW e \in R
         PROVE  \E x \in P :
              /\ x \in Of(e) /\ e[1] \in G /\ e[2] \in G
              /\ \A g \in Edges(x.cuts) : g \in Edges(G) /\ (g[1] \notin x.split => g[1] \notin K)
    <2>1. PICK x \in P : x \in Of(e)
      BY <1>3
    <2>2. e[1] \in G /\ e[2] \in G
      BY <2>1, <1>8, <1>a
    <2>3. ASSUME NEW g \in Edges(x.cuts)
          PROVE  g \in Edges(G) /\ (g[1] \notin x.split => g[1] \notin K)
      <3>1. /\ g[1] \in x.cuts /\ g[2] \in x.cuts /\ g[1] # g[2] /\ Upto(g[1], g[2])
            /\ g = <<g[1], g[2]>>
            /\ \A p \in x.cuts : Upto(p, g[1]) \/ Upto(g[2], p)
        BY <2>1, <1>8, EdgeIs
      <3>2. g[1] \in G /\ g[2] \in G /\ g[1] \in Points /\ g[2] \in Points
        BY <3>1, <1>9, <1>a
      <3>3. ASSUME NEW q \in G PROVE Upto(q, g[1]) \/ Upto(g[2], q)
        <4>1. PICK y \in P, f \in R : y \in Of(f) /\ q \in y.cuts
          BY <1>7
        <4>2. CASE e = f
          BY <2>1, <3>1, <4>1, <4>2, <1>6
        <4>3. /\ Upto(e[1], g[1]) /\ Upto(g[2], e[2]) /\ Upto(f[1], q) /\ Upto(q, f[2])
              /\ e[1] \in Points /\ e[2] \in Points /\ f[1] \in Points /\ f[2] \in Points /\ q \in Points
          BY <2>1, <3>1, <4>1, <1>4, <1>8, <1>9
        <4>4. CASE Upto(e[2], f[1])
          <5>1. Upto(g[2], f[1])
            BY <4>3, <4>4, <3>2, UptoTwice
          <5> QED BY <5>1, <4>3, <3>2, UptoTwice
        <4>5. CASE Upto(f[2], e[1])
          <5>1. Upto(q, e[1])
            BY <4>3, <4>5, UptoTwice
          <5> QED BY <5>1, <4>3, <3>2, UptoTwice
        <4> QED BY <4>2, <4>4, <4>5, <1>5
      <3>4. g \in Edges(G)
        <4>1. g \in G \X G
          BY <3>1, <3>2
        <4> QED BY <4>1, <3>1, <3>3 DEF Edges
      <3>5. ASSUME g[1] \notin x.split, g[1] \in K PROVE FALSE
        <4>1. PICK y \in P : g[1] \in y.split
          BY <3>5, <1>a
        <4>2. PICK f \in R : y \in Of(f)
          BY <1>3
        <4>3. e # f
          BY <2>1, <3>5, <4>1, <4>2, <1>6
        <4>4. /\ g[1] # f[2] /\ Upto(f[1], g[1]) /\ Upto(g[1], f[2])
              /\ Upto(e[1], g[1]) /\ Upto(g[2], e[2])
              /\ e[1] \in Points /\ e[2] \in Points /\ f[1] \in Points /\ f[2] \in Points
          BY <2>1, <3>1, <4>1, <4>2, <1>4, <1>8
        <4>5. CASE Upto(e[2], f[1])
          <5>1. Upto(g[2], f[1])
            BY <4>4, <4>5, <3>2, UptoTwice
          <5>2. Upto(g[2], g[1])
            BY <5>1, <4>4, <3>2, UptoTwice
          <5> QED BY <5>2, <3>1, <3>2, UptoTwice
        <4>6. CASE Upto(f[2], e[1])
          <5>1. Upto(f[2], g[1])
            BY <4>4, <4>6, <3>2, UptoTwice
          <5> QED BY <5>1, <4>4, <3>2, UptoTwice
        <4> QED BY <4>3, <4>5, <4>6, <1>5
      <3> QED BY <3>4, <3>5
    <2> QED BY <2>1, <2>2, <2>3
  <1> QED BY <1>9, <1>11, <1>12 DEF R, Of, G, K, Fits

\* Its diffs come from one ordered set of cuts.
LEMMA ComputeCuts ==
  ASSUME NEW old \in Seq(Symbols), NEW new \in Seq(Symbols), NEW ai,
         NEW c \in ComputeDiffs(old, new, ai)
  PROVE  \E G, K : CutBy(old, new, c, ai, G, K)
  <1>1. PICK a, P : /\ Matched(old, new, a) /\ OneOfEach(old, new, a, ai, P)
                    /\ c = [diffs |-> Placed(old, new, P), fresh |-> UNION {x.fresh : x \in P}]
    BY PicksAre
  <1> DEFINE G == AllCuts(P)
             K == AllSplits(P)
             C == LineCuts(old, new, a)
             R == LineRuns(old, new, a)
  <1>2. /\ c.diffs = Placed(old, new, P) /\ c.fresh = UNION {x.fresh : x \in P}
    BY <1>1
  <1>3. c.diffs = UNION {Stretch(old, new, e, e[1] \in K) : e \in Edges(G)}
    BY <1>2 DEF Placed, AllCuts, AllSplits
  <1>a. Fits(old, new, a, ai, P, G, K)
    BY <1>1, PiecesFit
  <1> HIDE DEF G, K
  <1>4. /\ Chain(G) /\ \A p \in G : Upto(p, Corner(old, new))
        /\ \A e \in R : \E x \in P :
              /\ x \in PiecesOf(old, new, a, ai, e) /\ e[1] \in G /\ e[2] \in G
              /\ \A g \in Edges(x.cuts) : g \in Edges(G) /\ (g[1] \notin x.split => g[1] \notin K)
    BY <1>a DEF Fits
  <1>5. Chain(C) /\ Origin \in C /\ Corner(old, new) \in C /\ R = Edges(C)
    BY <1>1, LineCutsChain
  <1> HIDE DEF C, R
  <1>6. ASSUME NEW i \in {1, 2}, NEW x \in Nat, x < Corner(old, new)[i]
        PROVE  \E e \in R : e[1][i] <= x /\ x < e[2][i]
    <2>1. Origin[i] <= x
      BY DEF Origin
    <2> QED BY <2>1, <1>5, <1>6, EdgeAt
  <1>7. ASSUME NEW i \in {1, 2}, NEW x \in Nat, x < Corner(old, new)[i]
        PROVE  \E e \in Edges(G) : e[1][i] <= x /\ x < e[2][i]
    <2>1. PICK e \in R : e[1][i] <= x /\ x < e[2][i]
      BY <1>6, <1>7
    <2>2. e[1] \in G /\ e[2] \in G
      BY <1>4
    <2> QED BY <2>1, <2>2, <1>4, EdgeAt
  <1>8. Corner(old, new)[1] = Len(old) /\ Corner(old, new)[2] = Len(new)
    BY DEF Corner
  <1>9. \A x \in Nat : x < Len(old) => \E e \in Edges(G) : e[1][1] <= x /\ x < e[2][1]
    BY <1>7, <1>8
  <1>10. \A x \in Nat : x < Len(new) => \E e \in Edges(G) : e[1][2] <= x /\ x < e[2][2]
    BY <1>7, <1>8
  <1>11. ASSUME ~ ai, NEW p \in Nat, p < Len(new), new[p + 1] \notin Blanks
         PROVE  \/ \E f \in c.fresh : /\ f.start \in Nat /\ f.end \in Nat
                                      /\ f.start <= p /\ p < f.end
                \/ \E g \in Edges(G) : /\ g[1][2] <= p /\ p < g[2][2]
                                       /\ g[1] \notin K /\ g[1][1] < g[2][1]
                                       /\ Text(old, OldSpan(g)) = Text(new, NewSpan(g))
    <2>1. PICK e \in R : e[1][2] <= p /\ p < e[2][2]
      BY <1>6, <1>8, <1>11
    <2>2. PICK x \in P : /\ x \in PiecesOf(old, new, a, ai, e)
                         /\ \A g \in Edges(x.cuts) : g \in Edges(G) /\ (g[1] \notin x.split => g[1] \notin K)
      BY <1>4
    <2>3. Explained(old, new, x, e)
      BY <1>1, <1>11, <2>2, RunPiece DEF R
    <2>4. \/ \E f \in x.fresh : /\ f.start \in Nat /\ f.end \in Nat
                                /\ f.start <= p /\ p < f.end
          \/ \E g \in Edges(x.cuts) : /\ g[1][2] <= p /\ p < g[2][2]
                                      /\ g[1] \notin x.split /\ g[1][1] < g[2][1]
                                      /\ Text(old, OldSpan(g)) = Text(new, NewSpan(g))
      BY <1>11, <2>1, <2>3 DEF Explained
    <2>5. x.fresh \subseteq c.fresh
      BY <1>2
    <2> QED BY <2>2, <2>4, <2>5
  <1> HIDE DEF G, K
  <1>12. CutBy(old, new, c, ai, G, K)
    BY <1>3, <1>4, <1>9, <1>10, <1>11 DEF CutBy
  <1> QED BY <1>12

\* One diff of two contents.
DiffIs(old, new, d) ==
  /\ Inside(old, d.old) /\ Inside(new, d.new)
  /\ \/ d.op = "Equal" /\ d.old.start < d.old.end /\ Text(old, d.old) = Text(new, d.new)
     \/ d.op = "Delete" /\ d.old.start < d.old.end /\ d.new.start = d.new.end
     \/ d.op = "Insert" /\ d.old.start = d.old.end /\ d.new.start < d.new.end

\* d comes before e in both texts.
Ahead(d, e) == d.old.end <= e.old.start /\ d.new.end <= e.new.start

\* The diffs are an edit script.
Script(old, new, diffs) ==
  /\ \A d \in diffs : DiffIs(old, new, d)
  /\ \A d, e \in diffs : d = e \/ Ahead(d, e) \/ Ahead(e, d)
  /\ \A x \in Nat : x < Len(old) =>
       \E d \in diffs : d.op \in {"Equal", "Delete"} /\ d.old.start <= x /\ x < d.old.end
  /\ \A x \in Nat : x < Len(new) =>
       \E d \in diffs : d.op \in {"Equal", "Insert"} /\ d.new.start <= x /\ x < d.new.end

\* Every inserted token is substantive.
Substantive(new, diffs, fresh) ==
  \A d \in diffs : d.op = "Insert" =>
    \A p \in Nat : d.new.start <= p /\ p < d.new.end /\ new[p + 1] \notin Blanks =>
      \E f \in fresh : f.start \in Nat /\ f.end \in Nat /\ f.start <= p /\ p < f.end

\* What lies before a point comes before what lies after it.
LEMMA AheadAcross ==
  ASSUME NEW d, NEW f, NEW p \in Points, NEW q \in Points, Upto(p, q),
         d.old.end \in Nat, d.new.end \in Nat, f.old.start \in Nat, f.new.start \in Nat,
         d.old.end <= p[1], d.new.end <= p[2], q[1] <= f.old.start, q[2] <= f.new.start
  PROVE  Ahead(d, f)
  <1>1. p[1] \in Nat /\ p[2] \in Nat /\ q[1] \in Nat /\ q[2] \in Nat /\ p[1] <= q[1] /\ p[2] <= q[2]
    BY PointIs DEF Upto
  <1>2. d.old.end <= f.old.start /\ d.new.end <= f.new.start
    BY <1>1
  <1> QED BY <1>2 DEF Ahead

\* A stretch's diffs are in order and cover both of its texts.
LEMMA StretchIs ==
  ASSUME NEW old \in Seq(Symbols), NEW new \in Seq(Symbols), NEW e, Stretched(old, new, e), NEW split,
         NEW D, D = Stretch(old, new, e, split)
  PROVE  /\ \A d \in D : /\ DiffIs(old, new, d)
                         /\ e[1][1] <= d.old.start /\ d.old.end <= e[2][1]
                         /\ e[1][2] <= d.new.start /\ d.new.end <= e[2][2]
         /\ \A d, f \in D : d = f \/ Ahead(d, f) \/ Ahead(f, d)
         /\ \A x \in Nat : e[1][1] <= x /\ x < e[2][1] =>
              \E d \in D : d.op \in {"Equal", "Delete"} /\ d.old.start <= x /\ x < d.old.end
         /\ \A x \in Nat : e[1][2] <= x /\ x < e[2][2] =>
              \E d \in D : d.op \in {"Equal", "Insert"} /\ d.new.start <= x /\ x < d.new.end
         /\ ~ split /\ e[1][1] < e[2][1] /\ Text(old, OldSpan(e)) = Text(new, NewSpan(e)) =>
              \A d \in D : d.op = "Equal"
  <1> DEFINE o == OldSpan(e)
             w == NewSpan(e)
             equal == [op |-> "Equal", old |-> o, new |-> w]
             del == [op |-> "Delete", old |-> o, new |-> Span(w.start, w.start)]
             ins == [op |-> "Insert", old |-> Span(o.end, o.end), new |-> w]
             kept == ~ split /\ o.start < o.end /\ Text(old, o) = Text(new, w)
  <1>1. D = IF kept THEN {equal}
            ELSE {d \in {del, ins} : d.old.start < d.old.end \/ d.new.start < d.new.end}
    BY DEF Stretch
  <1>2. /\ o.start = e[1][1] /\ o.end = e[2][1] /\ Inside(old, o)
        /\ w.start = e[1][2] /\ w.end = e[2][2] /\ Inside(new, w)
    BY StretchedSpans
  <1>3. /\ o.start \in Nat /\ o.end \in Nat /\ o.start <= o.end /\ o.end <= Len(old)
        /\ w.start \in Nat /\ w.end \in Nat /\ w.start <= w.end /\ w.end <= Len(new)
    BY <1>2 DEF Inside
  <1>4. /\ equal.op = "Equal" /\ equal.old = o /\ equal.new = w
        /\ del.op = "Delete" /\ del.old = o /\ del.new.start = w.start /\ del.new.end = w.start
        /\ ins.op = "Insert" /\ ins.new = w /\ ins.old.start = o.end /\ ins.old.end = o.end
    BY DEF Span
  <1>5. Inside(new, del.new) /\ Inside(old, ins.old)
    <2> HIDE DEF o, w, del, ins
    <2> QED BY <1>3, <1>4 DEF Inside
  <1> HIDE DEF o, w, equal, del, ins
  <1>6. CASE kept
    <2>1. D = {equal}
      BY <1>1, <1>6
    <2>2. DiffIs(old, new, equal)
      BY <1>2, <1>4, <1>6 DEF DiffIs
    <2>3. \A d \in D : d = equal
      BY <2>1
    <2>4. /\ equal.op = "Equal" /\ equal.old.start = e[1][1] /\ equal.old.end = e[2][1]
          /\ equal.new.start = e[1][2] /\ equal.new.end = e[2][2]
      BY <1>2, <1>4
    <2>5. e[1][1] \in Nat /\ e[2][1] \in Nat /\ e[1][2] \in Nat /\ e[2][2] \in Nat
      BY <1>2, <1>3
    <2>6. equal \in D
      BY <2>1
    <2>7. /\ e[1][1] <= equal.old.start /\ equal.old.end <= e[2][1]
          /\ e[1][2] <= equal.new.start /\ equal.new.end <= e[2][2]
      BY <2>4, <2>5
    <2>8. \A x \in Nat : /\ e[1][1] <= x /\ x < e[2][1] => equal.old.start <= x /\ x < equal.old.end
                         /\ e[1][2] <= x /\ x < e[2][2] => equal.new.start <= x /\ x < equal.new.end
      BY <2>4
    <2> QED BY <2>2, <2>3, <2>4, <2>6, <2>7, <2>8, Zenon
  <1>7. CASE ~ kept
    <2>1. \A d \in D : \/ d = del /\ o.start < o.end
                       \/ d = ins /\ w.start < w.end
      <3> TAKE d \in D
      <3>1. d \in {del, ins} /\ (d.old.start < d.old.end \/ d.new.start < d.new.end)
        <4> HIDE DEF kept
        <4> QED BY <1>1, <1>7
      <3> QED BY <3>1, <1>3, <1>4
    <2>2. o.start < o.end => del \in D
      <3> HIDE DEF kept
      <3> QED BY <1>1, <1>4, <1>7
    <2>3. w.start < w.end => ins \in D
      <3> HIDE DEF kept
      <3> QED BY <1>1, <1>4, <1>7
    <2>4. \A d \in D : DiffIs(old, new, d)
      <3> HIDE DEF kept
      <3> QED BY <2>1, <1>2, <1>4, <1>5 DEF DiffIs
    <2>5. \A d \in D : /\ e[1][1] <= d.old.start /\ d.old.end <= e[2][1]
                       /\ e[1][2] <= d.new.start /\ d.new.end <= e[2][2]
      <3> HIDE DEF kept
      <3> QED BY <2>1, <1>2, <1>3, <1>4
    <2>6. Ahead(del, ins)
      BY <1>3, <1>4 DEF Ahead
    <2>7. \A d, f \in D : d = f \/ Ahead(d, f) \/ Ahead(f, d)
      <3> HIDE DEF kept
      <3> QED BY <2>1, <2>6
    <2>8. \A x \in Nat : e[1][1] <= x /\ x < e[2][1] =>
            \E d \in D : d.op \in {"Equal", "Delete"} /\ d.old.start <= x /\ x < d.old.end
      <3> HIDE DEF kept
      <3> QED BY <2>2, <1>2, <1>3, <1>4
    <2>9. \A x \in Nat : e[1][2] <= x /\ x < e[2][2] =>
            \E d \in D : d.op \in {"Equal", "Insert"} /\ d.new.start <= x /\ x < d.new.end
      <3> HIDE DEF kept
      <3> QED BY <2>3, <1>2, <1>3, <1>4
    <2>10. ~ (~ split /\ e[1][1] < e[2][1] /\ Text(old, OldSpan(e)) = Text(new, NewSpan(e)))
      BY <1>2, <1>7 DEF o, w
    <2> HIDE DEF kept
    <2> QED BY <2>4, <2>5, <2>7, <2>8, <2>9, <2>10
  <1> QED BY <1>6, <1>7

\* However two contents are diffed, the result is an edit script.
LEMMA DiffsAreScript ==
  ASSUME NEW old \in Seq(Symbols), NEW new \in Seq(Symbols), NEW ai,
         NEW c \in ComputeDiffs(old, new, ai)
  PROVE  Script(old, new, c.diffs) /\ (~ ai => Substantive(new, c.diffs, c.fresh))
  <1>1. PICK G, K : CutBy(old, new, c, ai, G, K)
    BY ComputeCuts
  <1> DEFINE Diffs(e) == Stretch(old, new, e, e[1] \in K)
  <1>2. /\ G \subseteq Points /\ \A p \in G : Upto(p, Corner(old, new))
        /\ \A x \in Nat : x < Len(old) => \E e \in Edges(G) : e[1][1] <= x /\ x < e[2][1]
        /\ \A x \in Nat : x < Len(new) => \E e \in Edges(G) : e[1][2] <= x /\ x < e[2][2]
    BY <1>1 DEF CutBy, Chain
  <1>3. c.diffs = UNION {Diffs(e) : e \in Edges(G)}
    BY <1>1 DEF CutBy
  <1>4. \A e \in Edges(G) :
          /\ Stretched(old, new, e)
          /\ e[1][1] \in Nat /\ e[1][2] \in Nat /\ e[2][1] \in Nat /\ e[2][2] \in Nat
    BY <1>2, EdgeIs DEF Stretched
  <1>5. \A e \in Edges(G) : \A d \in Diffs(e) :
          /\ DiffIs(old, new, d)
          /\ e[1][1] <= d.old.start /\ d.old.end <= e[2][1]
          /\ e[1][2] <= d.new.start /\ d.new.end <= e[2][2]
    BY <1>4, StretchIs
  <1>6. \A e \in Edges(G) : \A d, f \in Diffs(e) : d = f \/ Ahead(d, f) \/ Ahead(f, d)
    BY <1>4, StretchIs
  <1>7. \A e \in Edges(G) : \A x \in Nat : e[1][1] <= x /\ x < e[2][1] =>
          \E d \in Diffs(e) : d.op \in {"Equal", "Delete"} /\ d.old.start <= x /\ x < d.old.end
    BY <1>4, StretchIs
  <1>8. \A e \in Edges(G) : \A x \in Nat : e[1][2] <= x /\ x < e[2][2] =>
          \E d \in Diffs(e) : d.op \in {"Equal", "Insert"} /\ d.new.start <= x /\ x < d.new.end
    BY <1>4, StretchIs
  <1>9. \A e \in Edges(G) : e[1] \notin K /\ e[1][1] < e[2][1] /\ Text(old, OldSpan(e)) = Text(new, NewSpan(e)) =>
          \A d \in Diffs(e) : d.op = "Equal"
    <2> SUFFICES ASSUME NEW e \in Edges(G), ~ (e[1] \in K), e[1][1] < e[2][1],
                        Text(old, OldSpan(e)) = Text(new, NewSpan(e))
                 PROVE  \A d \in Diffs(e) : d.op = "Equal"
      OBVIOUS
    <2> DEFINE split == e[1] \in K
    <2>1. ~ split /\ Diffs(e) = Stretch(old, new, e, split)
      OBVIOUS
    <2> HIDE DEF split, Diffs
    <2> QED BY <2>1, <1>4, StretchIs
  <1> HIDE DEF Diffs
  <1>10. \A d \in c.diffs : \E e \in Edges(G) : d \in Diffs(e)
    BY <1>3
  <1>11. \A e \in Edges(G) : Diffs(e) \subseteq c.diffs
    BY <1>3
  <1>12. \A d \in c.diffs : DiffIs(old, new, d)
    BY <1>5, <1>10
  <1>13. \A d \in c.diffs : /\ d.old.start \in Nat /\ d.old.end \in Nat
                            /\ d.new.start \in Nat /\ d.new.end \in Nat
    BY <1>12 DEF DiffIs, Inside
  <1>14. \A d, f \in c.diffs : d = f \/ Ahead(d, f) \/ Ahead(f, d)
    <2> TAKE d, f \in c.diffs
    <2>1. PICK e \in Edges(G) : d \in Diffs(e)
      BY <1>10
    <2>2. PICK g \in Edges(G) : f \in Diffs(g)
      BY <1>10
    <2>3. e = g \/ Upto(e[2], g[1]) \/ Upto(g[2], e[1])
      BY <1>2, EdgesApart
    <2>4. CASE e = g
      BY <2>1, <2>2, <2>4, <1>6
    <2>5. /\ d.old.end <= e[2][1] /\ d.new.end <= e[2][2] /\ e[1][1] <= d.old.start /\ e[1][2] <= d.new.start
          /\ f.old.end <= g[2][1] /\ f.new.end <= g[2][2] /\ g[1][1] <= f.old.start /\ g[1][2] <= f.new.start
      BY <2>1, <2>2, <1>5
    <2>8. /\ d.old.start \in Nat /\ d.old.end \in Nat /\ d.new.start \in Nat /\ d.new.end \in Nat
          /\ f.old.start \in Nat /\ f.old.end \in Nat /\ f.new.start \in Nat /\ f.new.end \in Nat
      BY <1>13
    <2>9. e[1] \in Points /\ e[2] \in Points /\ g[1] \in Points /\ g[2] \in Points
      BY <1>4 DEF Stretched
    <2>6. CASE Upto(e[2], g[1])
      <3>1. Ahead(d, f)
        BY <2>5, <2>6, <2>8, <2>9, AheadAcross
      <3> QED BY <3>1
    <2>7. CASE Upto(g[2], e[1])
      <3>1. Ahead(f, d)
        BY <2>5, <2>7, <2>8, <2>9, AheadAcross
      <3> QED BY <3>1
    <2> QED BY <2>3, <2>4, <2>6, <2>7
  <1>15. \A x \in Nat : x < Len(old) =>
           \E d \in c.diffs : d.op \in {"Equal", "Delete"} /\ d.old.start <= x /\ x < d.old.end
    BY <1>2, <1>7, <1>11
  <1>16. \A x \in Nat : x < Len(new) =>
           \E d \in c.diffs : d.op \in {"Equal", "Insert"} /\ d.new.start <= x /\ x < d.new.end
    BY <1>2, <1>8, <1>11
  <1>17. ASSUME ~ ai PROVE Substantive(new, c.diffs, c.fresh)
    <2> SUFFICES ASSUME NEW d \in c.diffs, d.op = "Insert",
                        NEW p \in Nat, d.new.start <= p, p < d.new.end, new[p + 1] \notin Blanks
                 PROVE  \E f \in c.fresh : f.start \in Nat /\ f.end \in Nat /\ f.start <= p /\ p < f.end
      BY DEF Substantive
    <2>1. p < Len(new)
      <3>1. Inside(new, d.new) /\ Len(new) \in Nat
        BY <1>12 DEF DiffIs
      <3> QED BY <3>1 DEF Inside
    <2>2. ASSUME NEW g \in Edges(G), g[1][2] <= p, p < g[2][2],
                 g[1] \notin K, g[1][1] < g[2][1], Text(old, OldSpan(g)) = Text(new, NewSpan(g))
          PROVE  FALSE
      <3>1. PICK e \in Edges(G) : d \in Diffs(e)
        BY <1>10
      <3>2. e[1][2] <= p /\ p < e[2][2]
        BY <3>1, <1>4, <1>5, <1>13
      <3>3. e = g
        <4>1. /\ e[1][2] \in Nat /\ e[2][2] \in Nat /\ g[1][2] \in Nat /\ g[2][2] \in Nat
          BY <1>4
        <4>2. e[2][2] > g[1][2] /\ g[2][2] > e[1][2]
          <5>1. \A i, j \in Nat : i <= p /\ p < j => j > i
            OBVIOUS
          <5> QED BY <2>2, <3>2, <4>1, <5>1
        <4>3. ~ Upto(e[2], g[1]) /\ ~ Upto(g[2], e[1])
          BY <4>1, <4>2 DEF Upto
        <4> QED BY <4>3, <1>2, EdgesApart
      <3>4. d.op = "Equal"
        BY <2>2, <3>1, <3>3, <1>9
      <3> QED BY <3>4
    <2>3. \/ \E f \in c.fresh : /\ f.start \in Nat /\ f.end \in Nat
                                /\ f.start <= p /\ p < f.end
          \/ \E g \in Edges(G) : /\ g[1][2] <= p /\ p < g[2][2]
                                 /\ g[1] \notin K /\ g[1][1] < g[2][1]
                                 /\ Text(old, OldSpan(g)) = Text(new, NewSpan(g))
      BY <1>1, <1>17, <2>1 DEF CutBy
    <2> QED BY <2>2, <2>3
  <1> QED BY <1>12, <1>14, <1>15, <1>16, <1>17 DEF Script

----------------------------------------------------------------------------
(* Moves *)

\* Spans of a content that can be told apart by where they start.
Apart(text, spans) ==
  /\ IsFiniteSet(spans)
  /\ \A s \in spans : Inside(text, s) /\ s.start < s.end
  /\ \A s, t \in spans : s.start = t.start => s = t

\* The lines of the spans, as a set.
Touched(text, spans) ==
  {x \in (DOMAIN Lines(text)) \X spans :
     /\ Overlaps(Lines(text)[x[1]], x[2].start, x[2].end)
     /\ ~IsBlank(Text(text, Lines(text)[x[1]]))}

\* The product of two finite sets is finite.
LEMMA FiniteProduct ==
  ASSUME NEW S, NEW T, IsFiniteSet(S), IsFiniteSet(T)
  PROVE  IsFiniteSet(S \X T)
  BY FS_Product

\* touched lines, as a sequence, are those of the set.
LEMMA TouchedIs ==
  ASSUME NEW c \in Seq(Symbols), NEW spans, Apart(c, spans)
  PROVE  LET xs == TouchedLines(c, spans)
         IN  /\ Len(xs) \in Nat /\ DOMAIN xs = 1 .. Len(xs)
             /\ \A k \in 1 .. Len(xs) : xs[k] \in Touched(c, spans)
             /\ xs \in Seq(Touched(c, spans))
  <1> DEFINE lines == Lines(c)
             S == Touched(c, spans)
             R == {z \in S \X S : \/ z[1][1] < z[2][1]
                                  \/ z[1][1] = z[2][1] /\ z[1][2].start < z[2][2].start}
             Less(x, y) == x[1] < y[1] \/ (x[1] = y[1] /\ x[2].start < y[2].start)
             rank == [x \in S |-> Cardinality({y \in S : Less(y, x)})]
             xs == TouchedLines(c, spans)
             n == Cardinality(S)
  <1>1. xs = ByRank(S, rank)
    BY DEF TouchedLines, Touched, Ordered
  <1>2. Len(lines) \in Nat /\ DOMAIN lines = 1 .. Len(lines)
    BY LinesFacts
  <1>3. IsFiniteSet(S)
    <2>1. IsFiniteSet(DOMAIN lines)
      BY <1>2, FS_Interval
    <2>2. IsFiniteSet((DOMAIN lines) \X spans)
      <3> HIDE DEF lines
      <3> QED BY <2>1, FiniteProduct DEF Apart
    <2>3. S \subseteq (DOMAIN lines) \X spans
      BY DEF Touched
    <2> HIDE DEF lines, S
    <2> QED BY <2>2, <2>3, FS_Subset
  <1>4. \A x \in S : /\ x = <<x[1], x[2]>> /\ x[1] \in Nat /\ x[2] \in spans
                     /\ x[2].start \in Nat
    <2> TAKE x \in S
    <2>1. x \in (DOMAIN lines) \X spans
      BY DEF Touched
    <2>2. x = <<x[1], x[2]>> /\ x[1] \in DOMAIN lines /\ x[2] \in spans
      BY <2>1
    <2>3. Inside(c, x[2])
      BY <2>2 DEF Apart
    <2> QED BY <2>2, <2>3, <1>2 DEF Inside
  <1>5. \A x, y \in S : <<x, y>> \in R <=> Less(x, y)
    OBVIOUS
  <1> HIDE DEF S, R
  <1>6. Orders(R, S)
    <2>1. \A x \in S : ~ Less(x, x)
      BY <1>4
    <2>2. \A x, y, z \in S : Less(x, y) /\ Less(y, z) => Less(x, z)
      BY <1>4
    <2>3. \A x, y \in S : x = y \/ Less(x, y) \/ Less(y, x)
      <3> TAKE x, y \in S
      <3>1. /\ x[1] \in Nat /\ y[1] \in Nat /\ x[2].start \in Nat /\ y[2].start \in Nat
            /\ x[2] \in spans /\ y[2] \in spans
            /\ x = <<x[1], x[2]>> /\ y = <<y[1], y[2]>>
        BY <1>4
      <3>2. x[1] = y[1] /\ x[2].start = y[2].start => x = y
        BY <3>1 DEF Apart
      <3> QED BY <3>1, <3>2
    <2> HIDE DEF Less
    <2> QED BY <2>1, <2>2, <2>3, <1>5 DEF Orders
  <1>7. rank = [x \in S |-> Cardinality({y \in S : <<y, x>> \in R})]
    <2>1. \A x \in S : {y \in S : Less(y, x)} = {y \in S : <<y, x>> \in R}
      BY <1>5
    <2> HIDE DEF Less
    <2> QED BY <2>1
  <1> HIDE DEF Less, rank, xs
  <1>8. Lists(xs, S, R)
    BY <1>1, <1>3, <1>6, <1>7, InOrder
  <1>9. n \in Nat /\ xs \in [1 .. n -> S]
    BY <1>8 DEF Lists
  <1> HIDE DEF n
  <1>10. xs \in Seq(S) /\ Len(xs) = n /\ DOMAIN xs = 1 .. n
    BY <1>9, FunctionIsSeq
  <1>11. \A k \in 1 .. n : xs[k] \in S
    BY <1>9
  <1> QED BY <1>9, <1>10, <1>11 DEF xs, S

\* The part of a span that consecutive lines of it take up.
LEMMA ExtentWithin ==
  ASSUME NEW c \in Seq(Symbols), NEW spans, Apart(c, spans),
         NEW x \in Touched(c, spans), NEW y \in Touched(c, spans), x[1] <= y[1], x[2] = y[2],
         NEW s, s = Span(Higher(Lines(c)[x[1]].start, x[2].start), Lower(Lines(c)[y[1]].end, x[2].end))
  PROVE  /\ x[2] \in spans
         /\ s.start \in Nat /\ s.end \in Nat
         /\ x[2].start <= s.start /\ s.start < s.end /\ s.end <= x[2].end
  <1> DEFINE l == Lines(c)
  <1>1. /\ x[1] \in DOMAIN l /\ y[1] \in DOMAIN l /\ x[2] \in spans
        /\ Overlaps(l[x[1]], x[2].start, x[2].end) /\ Overlaps(l[y[1]], y[2].start, y[2].end)
    BY DEF Touched
  <1>2. Inside(c, x[2]) /\ x[2].start < x[2].end
    BY <1>1 DEF Apart
  <1>3. x[2].start \in Nat /\ x[2].end \in Nat
    BY <1>2 DEF Inside
  <1>4. /\ l[x[1]].start \in Nat /\ l[x[1]].end \in Nat /\ l[x[1]].start < l[x[1]].end
        /\ l[y[1]].start \in Nat /\ l[y[1]].end \in Nat /\ l[y[1]].start < l[y[1]].end
    BY <1>1, LinesFacts
  <1>5. l[x[1]].end <= l[y[1]].end
    <2>1. CASE x[1] = y[1]
      BY <2>1, <1>4
    <2>2. CASE x[1] # y[1]
      <3>1. DOMAIN l = 1 .. Len(l) /\ Len(l) \in Nat
        BY LinesFacts
      <3>2. x[1] < y[1]
        BY <1>1, <2>2, <3>1
      <3>3. l[x[1]].end <= l[y[1]].start
        BY <3>2, <1>1, LinesFacts
      <3> QED BY <3>3, <1>4
    <2> QED BY <2>1, <2>2
  <1> HIDE DEF l
  <1>6. /\ l[x[1]].start < x[2].end /\ x[2].start < l[x[1]].end
        /\ l[y[1]].start < x[2].end /\ x[2].start < l[y[1]].end
    BY <1>1, <1>3, <1>4 DEF Overlaps
  <1>7. /\ s.start = (IF l[x[1]].start >= x[2].start THEN l[x[1]].start ELSE x[2].start)
        /\ s.end = (IF l[y[1]].end <= x[2].end THEN l[y[1]].end ELSE x[2].end)
    BY DEF Span, Higher, Lower, l
  <1>8. /\ s.start \in Nat /\ s.end \in Nat
        /\ x[2].start <= s.start /\ s.start < s.end /\ s.end <= x[2].end
    BY <1>2, <1>3, <1>4, <1>5, <1>6, <1>7
  <1> QED BY <1>1, <1>8

\* A run of a list of lines: n of them from the i-th on, one following the other.
RunOfLines(xs, i, n, zs) ==
  /\ i \in Nat \ {0} /\ n \in Nat \ {0} /\ i + n - 1 <= Len(xs)
  /\ \A d \in 1 .. (n - 1) : xs[i + d][1] = xs[i][1] + d
  /\ zs = SubSeq(xs, i, i + n - 1)

\* The first and the last line of a run of lines.
LEMMA RunEnds ==
  ASSUME NEW S, NEW xs \in Seq(S), NEW i, NEW n, NEW zs, RunOfLines(xs, i, n, zs)
  PROVE  /\ zs[1] = xs[i] /\ Last(zs) = xs[i + n - 1] /\ DOMAIN zs = 1 .. n
         /\ Last(zs) = zs[n] /\ n \in 1 .. n
         /\ xs[i] \in S /\ xs[i + n - 1] \in S
         /\ xs[i + n - 1][1] = xs[i][1] + (n - 1) \/ n = 1
  <1> DEFINE j == i + n - 1
  <1>1. i \in Nat \ {0} /\ n \in Nat \ {0} /\ j <= Len(xs) /\ Len(xs) \in Nat
        /\ zs = SubSeq(xs, i, j)
    BY DEF RunOfLines
  <1>2. i \in 1 .. (Len(xs) + 1) /\ j \in (i - 1) .. Len(xs) /\ j - i + 1 = n
    BY <1>1
  <1>3. i \in 1 .. Len(xs) /\ j \in 1 .. Len(xs)
    BY <1>1
  <1>4. xs[i] \in S /\ xs[j] \in S
    BY <1>3, ElementOfSeq
  <1> HIDE DEF j
  <1>5. /\ zs \in Seq(S) /\ Len(zs) = j - i + 1
        /\ \A k \in 1 .. (j - i + 1) : zs[k] = xs[i + k - 1]
    BY <1>1, <1>2, SubSeqProperties
  <1>6. DOMAIN zs = 1 .. n /\ Len(zs) = n
    BY <1>2, <1>5, LenProperties
  <1>7. zs[1] = xs[i] /\ zs[n] = xs[j]
    <2>1. 1 \in 1 .. n /\ n \in 1 .. n /\ i + 1 - 1 = i /\ i + n - 1 = j
      BY <1>1 DEF j
    <2>2. zs[1] = xs[i + 1 - 1] /\ zs[n] = xs[i + n - 1]
      BY <2>1, <1>2, <1>5
    <2> QED BY <2>1, <2>2
  <1>8. Last(zs) = zs[n]
    BY <1>6 DEF Last
  <1>9. xs[j][1] = xs[i][1] + (n - 1) \/ n = 1
    <2> SUFFICES ASSUME n # 1 PROVE xs[j][1] = xs[i][1] + (n - 1)
      OBVIOUS
    <2>1. n - 1 \in 1 .. (n - 1) /\ i + (n - 1) = j
      BY <1>1 DEF j
    <2>2. xs[i + (n - 1)][1] = xs[i][1] + (n - 1)
      BY <2>1 DEF RunOfLines
    <2> QED BY <2>1, <2>2
  <1> QED BY <1>1, <1>4, <1>6, <1>7, <1>8, <1>9 DEF j

\* A moved block is a run of inserted and one of deleted lines.
LEMMA BlockIs ==
  ASSUME NEW old, NEW new, NEW dels, NEW adds, MoveThreshold \in Nat,
         Len(TouchedLines(old, dels)) \in Nat, Len(TouchedLines(new, adds)) \in Nat,
         DOMAIN TouchedLines(old, dels) = 1 .. Len(TouchedLines(old, dels)),
         DOMAIN TouchedLines(new, adds) = 1 .. Len(TouchedLines(new, adds)),
         NEW b \in Blocks(old, new, dels, adds)
  PROVE  \E i, p, n : /\ RunOfLines(TouchedLines(new, adds), i, n, b.inserted)
                      /\ RunOfLines(TouchedLines(old, dels), p, n, b.deleted)
  <1> DEFINE deleted == TouchedLines(old, dels)
             inserted == TouchedLines(new, adds)
             was == TrimmedLines(old)
             is == TrimmedLines(new)
             Consecutive(xs, i, n) ==
               i + n - 1 <= Len(xs) /\ \A d \in 1..(n - 1) : xs[i + d][1] = xs[i][1] + d
             Matches(i, p, n) ==
               /\ Consecutive(inserted, i, n) /\ Consecutive(deleted, p, n)
               /\ \A d \in 0..(n - 1) : is[inserted[i + d][1]] = was[deleted[p + d][1]]
             Lengths(i, p) == {n \in 0..Len(inserted) : Matches(i, p, n)}
             Length(i, p) == Max(Lengths(i, p))
             Found(i) == {p \in DOMAIN deleted : Length(i, p) >= Higher(MoveThreshold, 1)}
             Passed(i) == IF Found(i) = {} THEN 1 ELSE Length(i, Min(Found(i)))
  <1>1. PICK i \in DOMAIN inserted :
          /\ Found(i) # {}
          /\ b = [deleted |-> SubSeq(deleted, Min(Found(i)), Min(Found(i)) + Passed(i) - 1),
                  inserted |-> SubSeq(inserted, i, i + Passed(i) - 1)]
    BY DEF Blocks, Repeats
  <1> DEFINE p == Min(Found(i))
             n == Length(i, p)
  <1>2. i \in Nat \ {0} /\ i <= Len(inserted) /\ Len(inserted) \in Nat /\ Len(deleted) \in Nat
    OBVIOUS
  <1>3. p \in Found(i)
    <2>1. Found(i) \subseteq Nat
      <3> HIDE DEF Length, deleted
      <3>1. \A q \in DOMAIN deleted : q \in Nat
        BY DEF deleted
      <3> QED BY <3>1
    <2> HIDE DEF Found
    <2> QED BY <1>1, <2>1, LeastIs
  <1>4. p \in Nat \ {0} /\ p <= Len(deleted) /\ n >= Higher(MoveThreshold, 1)
    <2>1. p \in DOMAIN deleted /\ n >= Higher(MoveThreshold, 1)
      <3> HIDE DEF p, Length
      <3> QED BY <1>3 DEF n
    <2> HIDE DEF p, n
    <2> QED BY <2>1
  <1>5. Passed(i) = n
    <2> HIDE DEF Length, Found
    <2> QED BY <1>1
  <1> HIDE DEF Found, Passed
  <1>6. b.deleted = SubSeq(deleted, p, p + n - 1) /\ b.inserted = SubSeq(inserted, i, i + n - 1)
    <2> HIDE DEF p, n, deleted, inserted
    <2> QED BY <1>1, <1>5 DEF p
  <1> HIDE DEF p
  <1>7. n \in Lengths(i, p)
    <2>1. 0 \in Lengths(i, p)
      BY <1>2, <1>4
    <2>2. Lengths(i, p) \subseteq 0 .. Len(inserted)
      OBVIOUS
    <2>3. n = Max(Lengths(i, p))
      OBVIOUS
    <2> HIDE DEF Lengths, n
    <2> QED BY <1>2, <2>1, <2>2, <2>3, GreatestIs
  <1> HIDE DEF n, inserted, deleted
  <1>8. n \in Nat /\ Consecutive(inserted, i, n) /\ Consecutive(deleted, p, n)
    <2>1. n \in 0 .. Len(inserted) /\ Matches(i, p, n)
      <3> HIDE DEF Matches
      <3> QED BY <1>7
    <2> HIDE DEF Consecutive
    <2> QED BY <2>1
  <1>9. n \in Nat \ {0}
    BY <1>4, <1>8 DEF Higher
  <1>10. /\ RunOfLines(inserted, i, n, b.inserted)
         /\ RunOfLines(deleted, p, n, b.deleted)
    BY <1>2, <1>4, <1>6, <1>8, <1>9 DEF RunOfLines
  <1> QED BY <1>10 DEF inserted, deleted

\* s is a part of t, and not empty.
Within1(s, t) ==
  /\ s.start \in Nat /\ s.end \in Nat
  /\ t.start <= s.start /\ s.start < s.end /\ s.end <= t.end

\* A move takes a part of a deletion to a part of an insertion.
MoveIs(diffs, m) ==
  /\ \E d \in diffs : d.op = "Delete" /\ m.del = d.old
  /\ \E d \in diffs : d.op = "Insert" /\ m.ins = d.new
  /\ Within1(m.source, m.del) /\ Within1(m.target, m.ins)

\* A move leads from a part of a deletion to a part of an insertion.
LEMMA MovesAre ==
  ASSUME NEW old \in Seq(Symbols), NEW new \in Seq(Symbols), NEW dels, NEW adds,
         MoveThreshold \in Nat, Apart(old, dels), Apart(new, adds),
         NEW m \in DetectMoves(old, new, dels, adds)
  PROVE  /\ m.del \in dels /\ m.ins \in adds
         /\ Within1(m.source, m.del) /\ Within1(m.target, m.ins)
  <1> DEFINE OneSpan(xs) == \A k \in DOMAIN xs : xs[k][2] = xs[1][2]
             Extent(text, xs) == Span(Higher(Lines(text)[xs[1][1]].start, xs[1][2].start),
                                      Lower(Lines(text)[Last(xs)[1]].end, xs[1][2].end))
             ds == TouchedLines(old, dels)
             is == TouchedLines(new, adds)
  <1>1. PICK b \in Blocks(old, new, dels, adds) :
          /\ OneSpan(b.deleted) /\ OneSpan(b.inserted)
          /\ m = [del |-> b.deleted[1][2], ins |-> b.inserted[1][2],
                  source |-> Extent(old, b.deleted), target |-> Extent(new, b.inserted)]
    BY DEF DetectMoves
  <1>2. /\ Len(ds) \in Nat /\ DOMAIN ds = 1 .. Len(ds) /\ ds \in Seq(Touched(old, dels))
    BY TouchedIs
  <1>3. /\ Len(is) \in Nat /\ DOMAIN is = 1 .. Len(is) /\ is \in Seq(Touched(new, adds))
    BY TouchedIs
  <1>4. PICK i, p, n : RunOfLines(is, i, n, b.inserted) /\ RunOfLines(ds, p, n, b.deleted)
    BY <1>2, <1>3, BlockIs
  <1>5. ASSUME NEW c \in Seq(Symbols), NEW spans, Apart(c, spans), NEW xs \in Seq(Touched(c, spans)),
               NEW j, NEW zs, RunOfLines(xs, j, n, zs), OneSpan(zs)
        PROVE  zs[1][2] \in spans /\ Within1(Extent(c, zs), zs[1][2])
    <2> DEFINE x == xs[j]
               y == xs[j + n - 1]
               s == Extent(c, zs)
    <2>1. /\ zs[1] = x /\ Last(zs) = y /\ DOMAIN zs = 1 .. n /\ Last(zs) = zs[n] /\ n \in 1 .. n
          /\ x \in Touched(c, spans) /\ y \in Touched(c, spans)
          /\ y[1] = x[1] + (n - 1) \/ n = 1
      BY <1>5, RunEnds
    <2>2. n \in Nat \ {0} /\ j \in Nat
      BY <1>5 DEF RunOfLines
    <2>3. x[1] \in Nat
      <3>1. x[1] \in DOMAIN Lines(c)
        <4> HIDE DEF x
        <4> QED BY <2>1 DEF Touched
      <3> QED BY <3>1, LinesFacts
    <2>4. x[1] <= y[1]
      <3>1. CASE n = 1
        <4>1. j + n - 1 = j
          BY <2>2, <3>1
        <4> QED BY <4>1, <2>3
      <3>2. CASE n # 1
        <4> HIDE DEF x, y
        <4> QED BY <2>1, <2>2, <2>3, <3>2
      <3> QED BY <3>1, <3>2
    <2>5. zs[n][2] = zs[1][2]
      BY <1>5, <2>1
    <2> HIDE DEF x, y
    <2>6. x[2] = y[2]
      BY <2>1, <2>5
    <2>7. s = Span(Higher(Lines(c)[x[1]].start, x[2].start), Lower(Lines(c)[y[1]].end, x[2].end))
      BY <2>1
    <2> HIDE DEF s
    <2>8. /\ x[2] \in spans /\ s.start \in Nat /\ s.end \in Nat
          /\ x[2].start <= s.start /\ s.start < s.end /\ s.end <= x[2].end
      BY <1>5, <2>1, <2>4, <2>6, <2>7, ExtentWithin
    <2> QED BY <2>1, <2>8 DEF Within1, s
  <1> HIDE DEF OneSpan, Extent, ds, is
  <1>6. b.deleted[1][2] \in dels /\ Within1(Extent(old, b.deleted), b.deleted[1][2])
    BY <1>1, <1>2, <1>4, <1>5
  <1>7. b.inserted[1][2] \in adds /\ Within1(Extent(new, b.inserted), b.inserted[1][2])
    BY <1>1, <1>3, <1>4, <1>5
  <1> QED BY <1>1, <1>6, <1>7

\* The spans of a script's diffs.
LEMMA ScriptNat ==
  ASSUME NEW old \in Seq(Symbols), NEW new \in Seq(Symbols), NEW diffs, Script(old, new, diffs),
         NEW d \in diffs
  PROVE  /\ d.old.start \in Nat /\ d.old.end \in Nat /\ d.new.start \in Nat /\ d.new.end \in Nat
         /\ d.old.start <= d.old.end /\ d.old.end <= Len(old)
         /\ d.new.start <= d.new.end /\ d.new.end <= Len(new)
         /\ d.old.start < d.old.end \/ d.new.start < d.new.end
  <1>1. DiffIs(old, new, d)
    BY DEF Script
  <1> QED BY <1>1 DEF DiffIs, Inside

\* Sums of two numbers, to order the diffs by.
LEMMA SumsGrow ==
  ASSUME NEW i \in Nat, NEW j \in Nat, NEW k \in Nat, NEW l \in Nat, NEW m \in Nat, NEW n \in Nat,
         i <= j, k <= l, i < j \/ k < l, j <= m, l <= n
  PROVE  i + k < m + n
  OBVIOUS

\* The diffs come in an order.
LEMMA ScriptOrder ==
  ASSUME NEW old \in Seq(Symbols), NEW new \in Seq(Symbols), NEW diffs, Script(old, new, diffs)
  PROVE  /\ IsFiniteSet(diffs)
         /\ Orders({z \in diffs \X diffs : z[1].old.start + z[1].new.start
                                             < z[2].old.start + z[2].new.start}, diffs)
  <1> DEFINE Size(d) == d.old.start + d.new.start
             R == {z \in diffs \X diffs : z[1].old.start + z[1].new.start
                                            < z[2].old.start + z[2].new.start}
             N == Len(old) + Len(new)
  <1>1. \A d \in diffs : Size(d) \in 0 .. N
    <2> TAKE d \in diffs
    <2>1. /\ d.old.start \in Nat /\ d.new.start \in Nat /\ d.old.start <= Len(old) /\ d.new.start <= Len(new)
          /\ Len(old) \in Nat /\ Len(new) \in Nat
      BY ScriptNat
    <2> QED BY <2>1
  <1>2. \A d, e \in diffs : Ahead(d, e) => Size(d) < Size(e)
    <2> SUFFICES ASSUME NEW d \in diffs, NEW e \in diffs, Ahead(d, e) PROVE Size(d) < Size(e)
      OBVIOUS
    <2>1. /\ d.old.start \in Nat /\ d.old.end \in Nat /\ d.new.start \in Nat /\ d.new.end \in Nat
          /\ d.old.start <= d.old.end /\ d.new.start <= d.new.end
          /\ d.old.start < d.old.end \/ d.new.start < d.new.end
      BY ScriptNat
    <2>2. e.old.start \in Nat /\ e.new.start \in Nat
      BY ScriptNat
    <2>3. d.old.end <= e.old.start /\ d.new.end <= e.new.start
      BY DEF Ahead
    <2> QED BY <2>1, <2>2, <2>3, SumsGrow
  <1>3. \A d, e \in diffs : d = e \/ Size(d) < Size(e) \/ Size(e) < Size(d)
    BY <1>2 DEF Script
  <1>4. \A d \in diffs : Size(d) \in Nat
    BY <1>1
  <1>5. \A d, e \in diffs : <<d, e>> \in R <=> Size(d) < Size(e)
    OBVIOUS
  <1> HIDE DEF Size, R
  <1>6. IsFiniteSet(diffs)
    <2> DEFINE f == [d \in diffs |-> Size(d)]
    <2>1. f \in [diffs -> 0 .. N]
      BY <1>1
    <2>2. \A d, e \in diffs : f[d] = f[e] => d = e
      <3> TAKE d, e \in diffs
      <3>1. f[d] = Size(d) /\ f[e] = Size(e) /\ Size(d) \in Nat /\ Size(e) \in Nat
        BY <1>4
      <3> QED BY <3>1, <1>3
    <2> HIDE DEF f
    <2>3. f \in Injection(diffs, 0 .. N)
      BY <2>1, <2>2 DEF Injection, IsInjective
    <2>4. IsFiniteSet(0 .. N)
      BY FS_Interval
    <2> QED BY <2>3, <2>4, FS_Injection
  <1>7. Orders(R, diffs)
    <2>1. \A d \in diffs : ~ (<<d, d>> \in R)
      BY <1>4, <1>5
    <2>2. \A d, e, f \in diffs : <<d, e>> \in R /\ <<e, f>> \in R => <<d, f>> \in R
      BY <1>4, <1>5
    <2>3. \A d, e \in diffs : d = e \/ <<d, e>> \in R \/ <<e, d>> \in R
      BY <1>3, <1>5
    <2> QED BY <2>1, <2>2, <2>3 DEF Orders
  <1> QED BY <1>6, <1>7 DEF R

\* The image of a finite set is finite.
LEMMA FiniteImage ==
  ASSUME NEW S, NEW T, NEW f \in [S -> T], IsFiniteSet(S), \A y \in T : \E x \in S : f[x] = y
  PROVE  IsFiniteSet(T)
  <1>1. f \in Surjection(S, T)
    BY DEF Surjection
  <1> QED BY <1>1, FS_Surjection

\* What is deleted, and what is inserted, can be told apart by where it starts.
LEMMA SpansApart ==
  ASSUME NEW old \in Seq(Symbols), NEW new \in Seq(Symbols), NEW diffs, Script(old, new, diffs)
  PROVE  Apart(old, Deletions(diffs)) /\ Apart(new, Insertions(diffs))
  <1> DEFINE DS == {d \in diffs : d.op = "Delete"}
             IS == {d \in diffs : d.op = "Insert"}
  <1>1. IsFiniteSet(DS) /\ IsFiniteSet(IS)
    <2>1. IsFiniteSet(diffs) /\ DS \subseteq diffs /\ IS \subseteq diffs
      BY ScriptOrder
    <2> HIDE DEF DS, IS
    <2> QED BY <2>1, FS_Subset
  <1>2. \A s \in Deletions(diffs) : \E d \in DS : s = d.old
    BY DEF Deletions
  <1>3. \A s \in Insertions(diffs) : \E d \in IS : s = d.new
    BY DEF Insertions
  <1>4. \A d \in DS : d.old \in Deletions(diffs)
    BY DEF Deletions
  <1>5. \A d \in IS : d.new \in Insertions(diffs)
    BY DEF Insertions
  <1>6. \A d \in DS : d \in diffs /\ Inside(old, d.old) /\ d.old.start < d.old.end
    BY DEF Script, DiffIs
  <1>7. \A d \in IS : d \in diffs /\ Inside(new, d.new) /\ d.new.start < d.new.end
    BY DEF Script, DiffIs
  <1> HIDE DEF DS, IS
  <1>8. IsFiniteSet(Deletions(diffs))
    <2> DEFINE f == [d \in DS |-> d.old]
    <2>1. f \in [DS -> Deletions(diffs)] /\ \A s \in Deletions(diffs) : \E d \in DS : f[d] = s
      BY <1>2, <1>4
    <2> HIDE DEF f
    <2> QED BY <2>1, <1>1, FiniteImage
  <1>9. IsFiniteSet(Insertions(diffs))
    <2> DEFINE f == [d \in IS |-> d.new]
    <2>1. f \in [IS -> Insertions(diffs)] /\ \A s \in Insertions(diffs) : \E d \in IS : f[d] = s
      BY <1>3, <1>5
    <2> HIDE DEF f
    <2> QED BY <2>1, <1>1, FiniteImage
  <1>10. \A d, e \in diffs : d = e \/ Ahead(d, e) \/ Ahead(e, d)
    BY DEF Script
  <1>11. \A s, t \in Deletions(diffs) : s.start = t.start => s = t
    <2> SUFFICES ASSUME NEW s \in Deletions(diffs), NEW t \in Deletions(diffs), s.start = t.start PROVE s = t
      OBVIOUS
    <2>1. PICK d \in DS : s = d.old
      BY <1>2
    <2>2. PICK e \in DS : t = e.old
      BY <1>2
    <2>3. /\ s.start \in Nat /\ s.end \in Nat /\ s.start < s.end
          /\ t.start \in Nat /\ t.end \in Nat /\ t.start < t.end
      BY <2>1, <2>2, <1>6 DEF Inside
    <2>4. ~ Ahead(d, e) /\ ~ Ahead(e, d)
      BY <2>1, <2>2, <2>3 DEF Ahead
    <2>5. d = e
      BY <2>4, <1>6, <1>10
    <2> QED BY <2>1, <2>2, <2>5
  <1>12. \A s, t \in Insertions(diffs) : s.start = t.start => s = t
    <2> SUFFICES ASSUME NEW s \in Insertions(diffs), NEW t \in Insertions(diffs), s.start = t.start PROVE s = t
      OBVIOUS
    <2>1. PICK d \in IS : s = d.new
      BY <1>3
    <2>2. PICK e \in IS : t = e.new
      BY <1>3
    <2>3. /\ s.start \in Nat /\ s.end \in Nat /\ s.start < s.end
          /\ t.start \in Nat /\ t.end \in Nat /\ t.start < t.end
      BY <2>1, <2>2, <1>7 DEF Inside
    <2>4. ~ Ahead(d, e) /\ ~ Ahead(e, d)
      BY <2>1, <2>2, <2>3 DEF Ahead
    <2>5. d = e
      BY <2>4, <1>7, <1>10
    <2> QED BY <2>1, <2>2, <2>5
  <1> QED BY <1>2, <1>3, <1>6, <1>7, <1>8, <1>9, <1>11, <1>12 DEF Apart

----------------------------------------------------------------------------
(* Attributions *)

\* Attributions within B bytes, of the given authors at the given times.
AttsOf(B, Q) ==
  {a \in {Att(x[1][1], x[1][2], x[2][1], x[2][2]) : x \in ((0 .. B) \X (0 .. B)) \X Q} : a.start <= a.end}

\* Whom an attribution credits, and when.
Who(a) == <<a.author, a.ts>>

\* An attribution that ends by B and credits one of Q.
LEMMA AttIs ==
  ASSUME NEW B \in Nat, NEW Q, \A q \in Q : q = <<q[1], q[2]>>, NEW a \in AttsOf(B, Q)
  PROVE  /\ a.start \in Nat /\ a.end \in Nat /\ a.start <= a.end /\ a.end <= B
         /\ Who(a) \in Q
         /\ a = Att(a.start, a.end, a.author, a.ts)
  <1>1. PICK x \in ((0 .. B) \X (0 .. B)) \X Q : a = Att(x[1][1], x[1][2], x[2][1], x[2][2])
    BY DEF AttsOf
  <1>2. x[1][1] \in 0 .. B /\ x[1][2] \in 0 .. B /\ x[2] \in Q
    BY <1>1
  <1>3. a.start = x[1][1] /\ a.end = x[1][2] /\ a.author = x[2][1] /\ a.ts = x[2][2]
    BY <1>1 DEF Att
  <1>4. a.start <= a.end
    BY DEF AttsOf
  <1>5. x[2] = <<x[2][1], x[2][2]>>
    BY <1>2
  <1>6. Who(a) \in Q
    BY <1>2, <1>3, <1>5 DEF Who
  <1>7. a = Att(a.start, a.end, a.author, a.ts)
    BY <1>1, <1>3
  <1> QED BY <1>2, <1>3, <1>4, <1>6, <1>7

\* One that is built is one of them.
LEMMA AttIn ==
  ASSUME NEW B \in Nat, NEW Q, NEW s \in Nat, NEW e \in Nat, s <= e, e <= B,
         NEW author, NEW ts, <<author, ts>> \in Q
  PROVE  Att(s, e, author, ts) \in AttsOf(B, Q)
  <1> DEFINE x == <<<<s, e>>, <<author, ts>>>>
  <1>1. x \in ((0 .. B) \X (0 .. B)) \X Q
    OBVIOUS
  <1>2. Att(s, e, author, ts) = Att(x[1][1], x[1][2], x[2][1], x[2][2])
    OBVIOUS
  <1>3. Att(s, e, author, ts).start = s /\ Att(s, e, author, ts).end = e
    BY DEF Att
  <1> HIDE DEF x
  <1> QED BY <1>1, <1>2, <1>3 DEF AttsOf

\* The fields of an attribution.
LEMMA AttFields ==
  ASSUME NEW s, NEW e, NEW author, NEW ts, NEW a, a = Att(s, e, author, ts)
  PROVE  a.start = s /\ a.end = e /\ a.author = author /\ a.ts = ts /\ Who(a) = <<author, ts>>
  BY DEF Att, Who

\* There are finitely many.
LEMMA AttsFinite ==
  ASSUME NEW B \in Nat, NEW Q, IsFiniteSet(Q)
  PROVE  IsFiniteSet(AttsOf(B, Q))
  <1> DEFINE X == ((0 .. B) \X (0 .. B)) \X Q
             Y == {Att(x[1][1], x[1][2], x[2][1], x[2][2]) : x \in X}
             f == [x \in X |-> Att(x[1][1], x[1][2], x[2][1], x[2][2])]
  <1>1. IsFiniteSet(X)
    <2>1. IsFiniteSet(0 .. B)
      BY FS_Interval
    <2>2. IsFiniteSet((0 .. B) \X (0 .. B))
      BY <2>1, FiniteProduct
    <2> QED BY <2>2, FiniteProduct
  <1>2. f \in [X -> Y] /\ \A y \in Y : \E x \in X : f[x] = y
    <2> HIDE DEF X
    <2> QED OBVIOUS
  <1>3. AttsOf(B, Q) \subseteq Y
    BY DEF AttsOf
  <1> HIDE DEF X, Y, f
  <1>4. IsFiniteSet(Y)
    BY <1>1, <1>2, FiniteImage
  <1> QED BY <1>3, <1>4, FS_Subset

\* The owners of a byte.
Owns(atts, p, q) == \E a \in atts : a.start <= p /\ p < a.end /\ q = Who(a)

\* OwnersOf are those whose attributions cover a byte.
LEMMA OwnersAre ==
  ASSUME NEW atts, \A a \in atts : a.start \in Nat /\ a.end \in Nat, NEW p \in Nat
  PROVE  \A q : q \in OwnersOf(atts, p) <=> Owns(atts, p, q)
  <1>1. \A a \in atts : Overlaps(a, p, p + 1) <=> a.start <= p /\ p < a.end
    <2> TAKE a \in atts
    <2>1. a.start \in Nat /\ a.end \in Nat
      OBVIOUS
    <2> QED BY <2>1 DEF Overlaps
  <1>2. CoveredBy(atts, p) = {a \in atts : a.start <= p /\ p < a.end}
    BY <1>1 DEF CoveredBy
  <1> QED BY <1>2 DEF OwnersOf, Owns, Who

\* A carried attribution keeps its author and lies in the target.
LEMMA CarriedIs ==
  ASSUME NEW a, NEW j, NEW b \in Carried(a, j),
         a.start \in Nat, a.end \in Nat,
         j.source.start \in Nat, j.source.end \in Nat, j.target.start \in Nat
  PROVE  /\ b.start \in Nat /\ b.end \in Nat /\ b.start < b.end
         /\ j.target.start <= b.start
         /\ b.end <= j.target.start + (j.source.end - j.source.start)
         /\ Who(b) = Who(a)
         /\ b = Att(b.start, b.end, a.author, a.ts)
         /\ \A i \in Nat : b.start <= j.target.start + i /\ j.target.start + i < b.end <=>
              /\ j.source.start + i < j.source.end
              /\ a.start <= j.source.start + i /\ j.source.start + i < a.end
  <1> DEFINE by == j.target.start - j.source.start
             start == Higher(a.start, j.source.start)
             end == Lower(a.end, j.source.end)
  <1>1. start < end /\ b = Att(start + by, end + by, a.author, a.ts)
    BY DEF Carried
  <1>2. b.start = start + by /\ b.end = end + by /\ Who(b) = Who(a)
    BY <1>1 DEF Att, Who
  <1>3. b = Att(b.start, b.end, a.author, a.ts)
    BY <1>1, <1>2
  <1>4. /\ start \in Nat /\ end \in Nat /\ by \in Int
        /\ start >= a.start /\ start >= j.source.start /\ (start = a.start \/ start = j.source.start)
        /\ end <= a.end /\ end <= j.source.end /\ (end = a.end \/ end = j.source.end)
    BY DEF Higher, Lower
  <1>5. j.source.start + by = j.target.start
    OBVIOUS
  <1> HIDE DEF start, end, by
  <1>6. /\ b.start \in Nat /\ b.end \in Nat /\ b.start < b.end
        /\ j.target.start <= b.start
        /\ b.end <= j.target.start + (j.source.end - j.source.start)
    BY <1>1, <1>2, <1>4, <1>5
  <1>7. ASSUME NEW i \in Nat
        PROVE  b.start <= j.target.start + i /\ j.target.start + i < b.end <=>
                 /\ j.source.start + i < j.source.end
                 /\ a.start <= j.source.start + i /\ j.source.start + i < a.end
    <2>1. b.start <= j.target.start + i <=> start <= j.source.start + i
      BY <1>2, <1>4, <1>5
    <2>2. j.target.start + i < b.end <=> j.source.start + i < end
      BY <1>2, <1>4, <1>5
    <2>3. start <= j.source.start + i <=> a.start <= j.source.start + i
      BY <1>4
    <2>4. j.source.start + i < end <=> j.source.start + i < a.end /\ j.source.start + i < j.source.end
      BY <1>4
    <2> QED BY <2>1, <2>2, <2>3, <2>4
  <1> QED BY <1>2, <1>3, <1>6, <1>7

\* Where an attribution reaches into what is moved, a part of it is carried.
LEMMA CarriedWhere ==
  ASSUME NEW a, NEW j, a.start \in Nat, a.end \in Nat,
         j.source.start \in Nat, j.source.end \in Nat, j.target.start \in Nat,
         NEW i \in Nat, j.source.start + i < j.source.end,
         a.start <= j.source.start + i, j.source.start + i < a.end
  PROVE  \E b \in Carried(a, j) : b.start <= j.target.start + i /\ j.target.start + i < b.end
  <1> DEFINE by == j.target.start - j.source.start
             start == Higher(a.start, j.source.start)
             end == Lower(a.end, j.source.end)
             b == Att(start + by, end + by, a.author, a.ts)
  <1>1. start \in Nat /\ end \in Nat /\ start <= j.source.start + i /\ j.source.start + i < end
    BY DEF Higher, Lower
  <1>2. start < end
    <2> HIDE DEF start, end
    <2> QED BY <1>1
  <1>3. b \in Carried(a, j)
    BY <1>2 DEF Carried
  <1> HIDE DEF b, start, end
  <1> QED BY <1>3, CarriedIs, <1>1

\* What Carry returns.
LEMMA CarryIs ==
  ASSUME NEW atts, NEW jumps
  PROVE  /\ Carry(atts, jumps).newest \subseteq Carry(atts, jumps).atts
         /\ \A b : b \in Carry(atts, jumps).atts <=> \E a \in atts, j \in jumps : b \in Carried(a, j)
  <1> DEFINE found == {x \in atts \X jumps : Carried(x[1], x[2]) # {}}
             Later(x, y) ==
               \/ x[2].source.start > y[2].source.start
               \/ x[2].source.start = y[2].source.start /\ x[2].target.start > y[2].target.start
               \/ x[2] = y[2] /\ After(x[1], y[1])
             first == First(found, Later)
  <1>1. Carry(atts, jumps) = [atts |-> UNION {Carried(x[1], x[2]) : x \in found},
                              newest |-> UNION {Carried(x[1], x[2]) : x \in first}]
    BY DEF Carry
  <1>2. first \subseteq found
    BY DEF First
  <1>3. \A b : (\E x \in found : b \in Carried(x[1], x[2])) <=> \E a \in atts, j \in jumps : b \in Carried(a, j)
    <2> TAKE b
    <2>1. ASSUME NEW a \in atts, NEW j \in jumps, b \in Carried(a, j)
          PROVE  \E x \in found : b \in Carried(x[1], x[2])
      <3> DEFINE x == <<a, j>>
      <3>1. x \in found /\ b \in Carried(x[1], x[2])
        BY <2>1
      <3> HIDE DEF x, found
      <3> QED BY <3>1
    <2>2. ASSUME NEW x \in found, b \in Carried(x[1], x[2])
          PROVE  \E a \in atts, j \in jumps : b \in Carried(a, j)
      BY <2>2
    <2> QED BY <2>1, <2>2
  <1> HIDE DEF found, first
  <1> QED BY <1>1, <1>2, <1>3

\* The set holds spans.
Spans(S) == \A s \in S : s.start \in Nat /\ s.end \in Nat
\* Byte p lies in s.
Covers(s, p) == s.start <= p /\ p < s.end

\* A span overlaps a byte that it covers.
LEMMA OverlapsByte ==
  ASSUME NEW s, s.start \in Nat, s.end \in Nat, NEW p \in Nat
  PROVE  Overlaps(s, p, p + 1) <=> Covers(s, p)
  BY DEF Overlaps, Covers

\* What no mapped span covers is claimed, and nothing else.
LEMMA UncoveredIs ==
  ASSUME NEW s, s.start \in Nat, s.end \in Nat, NEW mapped, Spans(mapped), NEW author, NEW ts,
         NEW U, U = Uncovered(s, mapped, author, ts)
  PROVE  /\ \A b \in U : /\ b.start \in Nat /\ b.end \in Nat /\ b.start < b.end
                         /\ s.start <= b.start /\ b.end <= s.end
                         /\ Who(b) = <<author, ts>> /\ b = Att(b.start, b.end, author, ts)
                         /\ \A p \in Nat : Covers(b, p) => \A m \in mapped : ~ Covers(m, p)
         /\ \A p \in Nat : Covers(s, p) /\ (\A m \in mapped : ~ Covers(m, p)) => \E b \in U : Covers(b, p)
  <1> DEFINE free == {p \in s.start..(s.end - 1) : \A m \in mapped : ~Overlaps(m, p, p + 1)}
             firsts == {p \in free : p - 1 \notin free}
             ends == {p \in (s.start + 1)..s.end : p - 1 \in free /\ p \notin free}
             pairs == {y \in firsts \X ends : y[1] < y[2] /\ y[1]..(y[2] - 1) \subseteq free}
  <1>1. U = {Att(x[1], x[2], author, ts) : x \in pairs}
    BY DEF Uncovered
  <1>2. \A p \in Nat : p \in free <=> Covers(s, p) /\ \A m \in mapped : ~ Covers(m, p)
    <2> TAKE p \in Nat
    <2>1. p \in s.start..(s.end - 1) <=> Covers(s, p)
      BY DEF Covers
    <2>2. \A m \in mapped : Overlaps(m, p, p + 1) <=> Covers(m, p)
      BY OverlapsByte DEF Spans
    <2> QED BY <2>1, <2>2
  <1>3. \A p \in free : p \in Nat /\ s.start <= p /\ p < s.end
    OBVIOUS
  <1> HIDE DEF free
  <1>4. ASSUME NEW b \in U
        PROVE  /\ b.start \in Nat /\ b.end \in Nat /\ b.start < b.end
               /\ s.start <= b.start /\ b.end <= s.end
               /\ Who(b) = <<author, ts>> /\ b = Att(b.start, b.end, author, ts)
               /\ \A p \in Nat : Covers(b, p) => \A m \in mapped : ~ Covers(m, p)
    <2>1. PICK x \in pairs : b = Att(x[1], x[2], author, ts)
      BY <1>1
    <2>2. x[1] \in firsts /\ x[2] \in ends /\ x[1] < x[2] /\ x[1]..(x[2] - 1) \subseteq free
      <3> HIDE DEF firsts, ends
      <3> QED OBVIOUS
    <2>3. x[1] \in Nat /\ s.start <= x[1]
      BY <2>2, <1>3
    <2>4. x[2] \in Nat /\ x[2] <= s.end
      BY <2>2
    <2> HIDE DEF pairs, firsts, ends
    <2>5. b.start = x[1] /\ b.end = x[2] /\ Who(b) = <<author, ts>>
      BY <2>1, AttFields
    <2>6. ASSUME NEW p \in Nat, Covers(b, p) PROVE \A m \in mapped : ~ Covers(m, p)
      <3>1. x[1] <= p /\ p < x[2]
        BY <2>5, <2>6 DEF Covers
      <3>2. p \in x[1]..(x[2] - 1)
        BY <3>1, <2>3, <2>4
      <3>3. p \in free
        BY <2>2, <3>2
      <3> QED BY <3>3, <1>2
    <2>7. b = Att(b.start, b.end, author, ts)
      BY <2>1, <2>5
    <2> QED BY <2>2, <2>3, <2>4, <2>5, <2>6, <2>7
  <1>5. ASSUME NEW p \in free PROVE \E b \in U : Covers(b, p)
    <2> DEFINE T == {q \in 0 .. p : q..p \subseteq free}
               E == {q \in (p + 1) .. s.end : q \notin free}
    <2>1. p \in Nat /\ s.start <= p /\ p < s.end
      BY <1>3
    <2>2. p \in T
      <3>1. \A q \in p .. p : q = p
        BY <2>1
      <3> QED BY <2>1, <3>1
    <2>3. PICK lo \in T : \A q \in T : lo <= q
      <3>1. T \subseteq Nat
        OBVIOUS
      <3> HIDE DEF T
      <3> QED BY <2>2, <3>1, LeastNat
    <2>4. lo \in Nat /\ lo <= p /\ lo..p \subseteq free
      BY <2>1
    <2>5. lo \in free
      BY <2>1, <2>4
    <2>6. lo - 1 \notin free
      <3> SUFFICES ASSUME lo - 1 \in free PROVE FALSE
        OBVIOUS
      <3>1. lo - 1 \in Nat
        BY <1>3
      <3>2. \A q \in (lo - 1)..p : q = lo - 1 \/ q \in lo..p
        BY <2>4, <3>1
      <3>3. lo - 1 \in T
        BY <2>1, <2>4, <3>1, <3>2
      <3>4. lo <= lo - 1
        <4> HIDE DEF T
        <4> QED BY <2>3, <3>3
      <3> QED BY <3>4, <2>4
    <2>7. s.end \in E
      BY <2>1, <1>3
    <2>8. PICK hi \in E : \A q \in E : hi <= q
      <3>1. E \subseteq Nat
        BY <2>1
      <3> HIDE DEF E
      <3> QED BY <2>7, <3>1, LeastNat
    <2>9. hi \in Nat /\ p < hi /\ hi <= s.end /\ hi \notin free
      BY <2>1
    <2>10. \A q \in Nat : p < q /\ q < hi => q \in free
      <3> TAKE q \in Nat
      <3>1. p < q /\ q < hi /\ q \notin free => q \in E
        BY <2>1, <2>9
      <3> HIDE DEF E
      <3>2. q \in E => hi <= q
        BY <2>8
      <3> QED BY <3>1, <3>2, <2>9
    <2> HIDE DEF T, E
    <2>11. lo..(hi - 1) \subseteq free
      <3>1. \A q \in lo..(hi - 1) : q \in lo..p \/ (q \in Nat /\ p < q /\ q < hi)
        BY <2>1, <2>4, <2>9
      <3> QED BY <3>1, <2>4, <2>10
    <2>12. hi - 1 \in free
      BY <2>1, <2>4, <2>9, <2>11
    <2> DEFINE x == <<lo, hi>>
               b == Att(lo, hi, author, ts)
    <2>13. x \in pairs
      <3>1. lo \in firsts
        BY <2>5, <2>6
      <3>2. hi \in ends
        BY <2>1, <2>9, <2>12
      <3> HIDE DEF firsts, ends
      <3> QED BY <3>1, <3>2, <2>1, <2>4, <2>9, <2>11
    <2>14. b \in U
      <3>1. x[1] = lo /\ x[2] = hi
        OBVIOUS
      <3> HIDE DEF x, pairs
      <3> QED BY <2>13, <3>1, <1>1
    <2>15. b.start = lo /\ b.end = hi
      BY DEF Att
    <2> HIDE DEF b
    <2> QED BY <2>1, <2>4, <2>9, <2>14, <2>15 DEF Covers
  <1>6. \A p \in Nat : Covers(s, p) /\ (\A m \in mapped : ~ Covers(m, p)) => \E b \in U : Covers(b, p)
    BY <1>2, <1>5
  <1> QED BY <1>4, <1>6

----------------------------------------------------------------------------
(* transform: types *)

\* Q holds pairs.
Pairs(Q) == \A q \in Q : q = <<q[1], q[2]>>

\* An update of attributions within B bytes that belong to Q.
UpdateIs(u, B, Q) ==
  /\ u.old \in Seq(Symbols) /\ u.new \in Seq(Symbols)
  /\ B \in Nat /\ Len(u.old) + Len(u.new) <= B
  /\ Pairs(Q) /\ IsFiniteSet(Q)
  /\ Script(u.old, u.new, u.diffs)
  /\ \A m \in u.moves : MoveIs(u.diffs, m)
  /\ u.atts \subseteq AttsOf(B, Q)
  /\ <<u.author, u.ts>> \in Q

\* A shifted end stays within bounds.
LEMMA SumBound ==
  ASSUME NEW i \in Nat, NEW j \in Nat, NEW k \in Nat, NEW m \in Nat, NEW n \in Nat, NEW b \in Nat,
         j <= m, k <= n, m + n <= b
  PROVE  k + (j - i) <= b
  OBVIOUS

\* So does one that is not.
LEMMA EndBound ==
  ASSUME NEW k \in Nat, NEW m \in Nat, NEW n \in Nat, NEW b \in Nat, k <= n, m + n <= b
  PROVE  k <= b
  OBVIOUS

\* A move's spans lie inside the texts.
LEMMA MoveSpans ==
  ASSUME NEW u, NEW B, NEW Q, UpdateIs(u, B, Q), NEW m \in u.moves
  PROVE  /\ m.source.start \in Nat /\ m.source.end \in Nat /\ m.source.start < m.source.end
         /\ m.target.start \in Nat /\ m.target.end \in Nat /\ m.target.start < m.target.end
         /\ m.target.start + (m.source.end - m.source.start) <= B
         /\ Inside(u.old, m.source) /\ Inside(u.new, m.target)
  <1>1. MoveIs(u.diffs, m) /\ u.old \in Seq(Symbols) /\ u.new \in Seq(Symbols) /\ B \in Nat
        /\ Script(u.old, u.new, u.diffs) /\ Len(u.old) + Len(u.new) <= B
    BY DEF UpdateIs
  <1>2. PICK d \in u.diffs : m.del = d.old
    BY <1>1 DEF MoveIs
  <1>3. PICK e \in u.diffs : m.ins = e.new
    BY <1>1 DEF MoveIs
  <1>4. /\ d.old.start \in Nat /\ d.old.end \in Nat /\ d.old.end <= Len(u.old)
        /\ e.new.start \in Nat /\ e.new.end \in Nat /\ e.new.end <= Len(u.new)
    BY <1>1, ScriptNat
  <1>5. Len(u.old) \in Nat /\ Len(u.new) \in Nat
    BY <1>1, LenProperties
  <1>6. /\ m.source.start \in Nat /\ m.source.end \in Nat
        /\ m.source.start < m.source.end /\ m.source.end <= d.old.end
    BY <1>1, <1>2 DEF MoveIs, Within1
  <1>7. /\ m.target.start \in Nat /\ m.target.end \in Nat
        /\ m.target.start < m.target.end /\ m.target.end <= e.new.end
    BY <1>1, <1>3 DEF MoveIs, Within1
  <1>8. m.source.end <= Len(u.old) /\ m.target.end <= Len(u.new)
    BY <1>4, <1>5, <1>6, <1>7
  <1>9. m.target.start + (m.source.end - m.source.start) <= B
    <2>1. m.target.start <= Len(u.new)
      BY <1>5, <1>7, <1>8
    <2> QED BY <1>1, <1>5, <1>6, <1>7, <1>8, <2>1, SumBound
  <1> QED BY <1>6, <1>7, <1>8, <1>9 DEF Inside

\* The attributions before the update.
LEMMA OldAtt ==
  ASSUME NEW u, NEW B, NEW Q, UpdateIs(u, B, Q), NEW a \in u.atts
  PROVE  a \in AttsOf(B, Q) /\ a.start \in Nat /\ a.end \in Nat /\ a.start <= a.end /\ Who(a) \in Q
  BY AttIs DEF UpdateIs, Pairs

\* What is carried stays within the bounds.
LEMMA CarryTyped ==
  ASSUME NEW u, NEW B, NEW Q, UpdateIs(u, B, Q), NEW jumps,
         \A j \in jumps : /\ j.source.start \in Nat /\ j.source.end \in Nat /\ j.target.start \in Nat
                          /\ j.target.start + (j.source.end - j.source.start) <= B
  PROVE  Carry(u.atts, jumps).atts \subseteq AttsOf(B, Q) /\ Carry(u.atts, jumps).newest \subseteq AttsOf(B, Q)
  <1>1. ASSUME NEW b \in Carry(u.atts, jumps).atts PROVE b \in AttsOf(B, Q)
    <2>1. PICK a \in u.atts, j \in jumps : b \in Carried(a, j)
      BY CarryIs
    <2>2. a.start \in Nat /\ a.end \in Nat /\ Who(a) \in Q
      BY OldAtt
    <2>3. /\ b.start \in Nat /\ b.end \in Nat /\ b.start < b.end
          /\ b.end <= j.target.start + (j.source.end - j.source.start)
          /\ b = Att(b.start, b.end, a.author, a.ts)
      BY <2>1, <2>2, CarriedIs
    <2>4. B \in Nat /\ b.end <= B /\ b.start <= b.end
      <3>1. /\ B \in Nat /\ j.source.start \in Nat /\ j.source.end \in Nat /\ j.target.start \in Nat
            /\ j.target.start + (j.source.end - j.source.start) <= B
        BY DEF UpdateIs
      <3> QED BY <2>3, <3>1
    <2>5. <<a.author, a.ts>> \in Q
      BY <2>2 DEF Who
    <2>6. Att(b.start, b.end, a.author, a.ts) \in AttsOf(B, Q)
      BY <2>3, <2>4, <2>5, AttIn
    <2> QED BY <2>3, <2>6
  <1> QED BY <1>1, CarryIs

\* A diff's new text, credited to one author.
LEMMA OwnedTyped ==
  ASSUME NEW u, NEW B, NEW Q, UpdateIs(u, B, Q), NEW d \in u.diffs, NEW by, <<by.author, by.ts>> \in Q
  PROVE  Owned(d, by).atts \subseteq AttsOf(B, Q) /\ Owned(d, by).newest \subseteq AttsOf(B, Q)
  <1>1. /\ d.new.start \in Nat /\ d.new.end \in Nat /\ d.new.start <= d.new.end
        /\ d.new.end <= Len(u.new)
    BY ScriptNat DEF UpdateIs
  <1>2. B \in Nat /\ d.new.end <= B
    <2>1. /\ Len(u.old) \in Nat /\ Len(u.new) \in Nat
      BY LenProperties DEF UpdateIs
    <2>2. B \in Nat /\ Len(u.old) + Len(u.new) <= B
      BY DEF UpdateIs
    <2> QED BY <1>1, <2>1, <2>2, EndBound
  <1>3. Att(d.new.start, d.new.end, by.author, by.ts) \in AttsOf(B, Q)
    BY <1>1, <1>2, AttIn
  <1>4. Owned(d, by).atts = {Att(d.new.start, d.new.end, by.author, by.ts)}
        /\ Owned(d, by).newest = {Att(d.new.start, d.new.end, by.author, by.ts)}
    BY DEF Owned
  <1> QED BY <1>3, <1>4

\* The nearest attribution is one of those there are.
LEMMA NearestIs ==
  ASSUME NEW atts, NEW p
  PROVE  NearestAttribution(atts, p) \subseteq atts
  <1> DEFINE at == {a \in atts : Overlaps(a, p, p + 1)}
             behind == {a \in atts : \A b \in atts : b.end > p => Before(a, b)}
             Size(a) == a.end - a.start
             Newer(a, b) == \/ a.ts > b.ts
                            \/ a.ts = b.ts /\ Size(a) > Size(b)
                            \/ a.ts = b.ts /\ Size(a) = Size(b) /\ Before(a, b)
             x == First(at, Newer)
             y == First(behind, After)
             z == First({a \in atts : a.start >= p}, Before)
  <1>1. NearestAttribution(atts, p) = IF at # {} THEN x ELSE IF behind # {} THEN y ELSE z
    BY DEF NearestAttribution
  <1>2. x \subseteq at /\ y \subseteq behind /\ z \subseteq {a \in atts : a.start >= p}
    BY DEF First
  <1>3. x \subseteq atts /\ y \subseteq atts /\ z \subseteq atts
    <2> HIDE DEF x, y, z
    <2> QED BY <1>2
  <1> HIDE DEF x, y, z, at, behind
  <1> QED BY <1>1, <1>3

\* What is inherited is credited to somebody who is known.
LEMMA InheritedTyped ==
  ASSUME NEW u, NEW B, NEW Q, UpdateIs(u, B, Q), NEW d \in u.diffs,
         NEW S, NEW T, S \subseteq AttsOf(B, Q), T \subseteq AttsOf(B, Q)
  PROVE  \E by : <<by.author, by.ts>> \in Q /\ Inherited(u, d, S, T) = Owned(d, by)
  <1>1. B \in Nat /\ Pairs(Q) /\ <<u.author, u.ts>> \in Q
    BY DEF UpdateIs
  <1>2. \A a \in AttsOf(B, Q) : <<a.author, a.ts>> \in Q
    BY <1>1, AttIs DEF Pairs, Who
  <1>3. CASE S # {}
    <2>1. Inherited(u, d, S, T) = Owned(d, CHOOSE a \in S : TRUE)
      BY <1>3 DEF Inherited
    <2>2. (CHOOSE a \in S : TRUE) \in AttsOf(B, Q)
      BY <1>3
    <2> QED BY <2>1, <2>2, <1>2
  <1>4. CASE S = {} /\ T # {}
    <2>1. Inherited(u, d, S, T) = Owned(d, CHOOSE a \in T : TRUE)
      BY <1>4 DEF Inherited
    <2>2. (CHOOSE a \in T : TRUE) \in AttsOf(B, Q)
      BY <1>4
    <2> QED BY <2>1, <2>2, <1>2
  <1>5. CASE S = {} /\ T = {}
    <2>1. Inherited(u, d, S, T) = Owned(d, u)
      BY <1>5 DEF Inherited
    <2> QED BY <2>1, <1>1
  <1> QED BY <1>3, <1>4, <1>5

\* What an insertion with moved text leaves over, within the insertion.
LEMMA RestTyped ==
  ASSUME NEW u, NEW B, NEW Q, UpdateIs(u, B, Q), NEW d \in u.diffs
  PROVE  Uncovered(d.new, MovedIn(u, d), u.author, u.ts) \subseteq AttsOf(B, Q)
  <1>1. /\ d.new.start \in Nat /\ d.new.end \in Nat /\ d.new.end <= Len(u.new)
    BY ScriptNat DEF UpdateIs
  <1>2. B \in Nat /\ d.new.end <= B /\ <<u.author, u.ts>> \in Q
    <2>1. /\ Len(u.old) \in Nat /\ Len(u.new) \in Nat
      BY LenProperties DEF UpdateIs
    <2>2. B \in Nat /\ Len(u.old) + Len(u.new) <= B
      BY DEF UpdateIs
    <2>3. <<u.author, u.ts>> \in Q
      BY DEF UpdateIs
    <2> QED BY <1>1, <2>1, <2>2, <2>3, EndBound
  <1>3. Spans(MovedIn(u, d))
    BY MoveSpans DEF Spans, MovedIn
  <1>4. ASSUME NEW b \in Uncovered(d.new, MovedIn(u, d), u.author, u.ts) PROVE b \in AttsOf(B, Q)
    <2>1. /\ b.start \in Nat /\ b.end \in Nat /\ b.start < b.end /\ b.end <= d.new.end
          /\ b = Att(b.start, b.end, u.author, u.ts)
      BY <1>1, <1>3, <1>4, UncoveredIs
    <2>2. b.start <= b.end /\ b.end <= B
      BY <1>1, <1>2, <2>1
    <2>3. Att(b.start, b.end, u.author, u.ts) \in AttsOf(B, Q)
      BY <2>1, <2>2, <1>2, AttIn
    <2> QED BY <2>1, <2>3
  <1> QED BY <1>4

\* What a diff adds stays within the bounds.
LEMMA PartTyped ==
  ASSUME NEW u, NEW B, NEW Q, UpdateIs(u, B, Q), NEW d \in u.diffs,
         NEW nw, nw \subseteq AttsOf(B, Q), NEW gap
  PROVE  Part(u, d, nw, gap).atts \subseteq AttsOf(B, Q) /\ Part(u, d, nw, gap).newest \subseteq AttsOf(B, Q)
  <1>0. DiffIs(u.old, u.new, d) /\ Script(u.old, u.new, u.diffs) /\ B \in Nat /\ <<u.author, u.ts>> \in Q
        /\ u.old \in Seq(Symbols) /\ u.new \in Seq(Symbols) /\ u.atts \subseteq AttsOf(B, Q)
    BY DEF UpdateIs, Script
  <1>1. CASE d.op = "Equal"
    <2> DEFINE j == [source |-> d.old, target |-> d.new]
    <2>1. Part(u, d, nw, gap) = Carry(u.atts, {j})
      BY <1>1 DEF Part
    <2>2. /\ d.old.start \in Nat /\ d.old.end \in Nat /\ d.new.start \in Nat /\ d.new.end \in Nat
          /\ d.new.end <= Len(u.new) /\ d.old.end <= Len(u.old) /\ d.new.start <= d.new.end
      BY <1>0, ScriptNat
    <2>3. Len(u.old) + Len(u.new) <= B /\ Len(u.old) \in Nat /\ Len(u.new) \in Nat
      BY <1>0, LenProperties DEF UpdateIs
    <2>4. d.new.start + (d.old.end - d.old.start) <= B
      <3>1. d.new.start <= Len(u.new)
        BY <2>2, <2>3
      <3> QED BY <1>0, <2>2, <2>3, <3>1, SumBound
    <2>5. \A k \in {j} : /\ k.source.start \in Nat /\ k.source.end \in Nat /\ k.target.start \in Nat
                         /\ k.target.start + (k.source.end - k.source.start) <= B
      BY <2>2, <2>4
    <2> HIDE DEF j
    <2> QED BY <2>1, <2>5, CarryTyped
  <1>2. CASE d.op = "Delete"
    <2>1. Part(u, d, nw, gap) = Deleted(u, d)
      BY <1>2 DEF Part
    <2>2. \A j \in MovedOut(u, d) : /\ j.source.start \in Nat /\ j.source.end \in Nat /\ j.target.start \in Nat
                                    /\ j.target.start + (j.source.end - j.source.start) <= B
      BY MoveSpans DEF MovedOut, DistinctMoves
    <2>3. /\ Carry(u.atts, MovedOut(u, d)).atts \subseteq AttsOf(B, Q)
          /\ Carry(u.atts, MovedOut(u, d)).newest \subseteq AttsOf(B, Q)
      BY <2>2, CarryTyped
    <2>4. Owned(d, u).atts \subseteq AttsOf(B, Q) /\ Owned(d, u).newest \subseteq AttsOf(B, Q)
      BY <1>0, OwnedTyped
    <2>5. \/ Deleted(u, d) = Carry(u.atts, MovedOut(u, d))
          \/ Deleted(u, d) = Owned(d, u)
          \/ Deleted(u, d) = [atts |-> {}, newest |-> {}]
      BY DEF Deleted
    <2> QED BY <2>1, <2>3, <2>4, <2>5
  <1>3. CASE d.op # "Equal" /\ d.op # "Delete"
    <2>1. Part(u, d, nw, gap) = Inserted(u, d, nw, gap)
      BY <1>3 DEF Part
    <2> DEFINE nearest == NearestAttribution(u.atts, d.old.start)
               rest == Uncovered(d.new, MovedIn(u, d), u.author, u.ts)
    <2>2. nearest \subseteq AttsOf(B, Q)
      BY <1>0, NearestIs
    <2>3. rest \subseteq AttsOf(B, Q)
      BY RestTyped
    <2>4. First(rest, After) \subseteq rest
      BY DEF First
    <2>5. \/ Inserted(u, d, nw, gap) = [atts |-> rest, newest |-> First(rest, After)]
          \/ Inserted(u, d, nw, gap) = Owned(d, u)
          \/ Inserted(u, d, nw, gap) = Inherited(u, d, nearest, nw)
          \/ Inserted(u, d, nw, gap) = Inherited(u, d, nw, nearest)
      BY DEF Inserted
    <2> HIDE DEF nearest, rest
    <2>6. \A by : <<by.author, by.ts>> \in Q =>
            Owned(d, by).atts \subseteq AttsOf(B, Q) /\ Owned(d, by).newest \subseteq AttsOf(B, Q)
      BY OwnedTyped
    <2>7. CASE Inserted(u, d, nw, gap) = [atts |-> rest, newest |-> First(rest, After)]
      BY <2>1, <2>3, <2>4, <2>7
    <2>8. CASE Inserted(u, d, nw, gap) = Owned(d, u)
      BY <2>1, <2>6, <2>8, <1>0
    <2>9. CASE Inserted(u, d, nw, gap) = Inherited(u, d, nearest, nw)
      <3>1. PICK by : <<by.author, by.ts>> \in Q /\ Inherited(u, d, nearest, nw) = Owned(d, by)
        BY <2>2, InheritedTyped
      <3> QED BY <2>1, <2>6, <2>9, <3>1
    <2>10. CASE Inserted(u, d, nw, gap) = Inherited(u, d, nw, nearest)
      <3>1. PICK by : <<by.author, by.ts>> \in Q /\ Inherited(u, d, nw, nearest) = Owned(d, by)
        BY <2>2, InheritedTyped
      <3> QED BY <2>1, <2>6, <2>10, <3>1
    <2> QED BY <2>5, <2>7, <2>8, <2>9, <2>10
  <1> QED BY <1>1, <1>2, <1>3

\* The attributions are what the diffs add, one after the other.
PartsAre(u, B, Q, A) ==
  /\ \A a \in A : \E d \in u.diffs, nw \in SUBSET AttsOf(B, Q), gap \in BOOLEAN : a \in Part(u, d, nw, gap).atts
  /\ \A d \in u.diffs : \E nw \in SUBSET AttsOf(B, Q), gap \in BOOLEAN : Part(u, d, nw, gap).atts \subseteq A

\* The diffs, in order, are the diffs.
LEMMA DiffsInOrder ==
  ASSUME NEW old \in Seq(Symbols), NEW new \in Seq(Symbols), NEW diffs, Script(old, new, diffs),
         NEW order, order = Ordered(diffs, Sooner)
  PROVE  /\ Len(order) \in Nat /\ DOMAIN order = 1 .. Len(order)
         /\ \A k \in 1 .. Len(order) : order[k] \in diffs
         /\ \A d \in diffs : \E k \in 1 .. Len(order) : order[k] = d
  <1> DEFINE R == {z \in diffs \X diffs : z[1].old.start + z[1].new.start < z[2].old.start + z[2].new.start}
             rank == [x \in diffs |-> Cardinality({y \in diffs : Sooner(y, x)})]
             n == Cardinality(diffs)
  <1>1. order = ByRank(diffs, rank)
    BY DEF Ordered
  <1>2. IsFiniteSet(diffs) /\ Orders(R, diffs)
    BY ScriptOrder
  <1>3. rank = [x \in diffs |-> Cardinality({y \in diffs : <<y, x>> \in R})]
    <2>1. \A x \in diffs : {y \in diffs : Sooner(y, x)} = {y \in diffs : <<y, x>> \in R}
      BY DEF Sooner
    <2> HIDE DEF R
    <2> QED BY <2>1
  <1> HIDE DEF R, rank
  <1>4. Lists(order, diffs, R)
    BY <1>1, <1>2, <1>3, InOrder
  <1>5. n \in Nat /\ order \in [1 .. n -> diffs] /\ \A d \in diffs : \E k \in 1 .. n : order[k] = d
    BY <1>4 DEF Lists
  <1> HIDE DEF n
  <1>6. Len(order) = n /\ DOMAIN order = 1 .. n
    BY <1>5, FunctionIsSeq
  <1> QED BY <1>5, <1>6

\* transform puts the parts of all diffs together.
LEMMA TransformIs ==
  ASSUME NEW u, NEW B, NEW Q, UpdateIs(u, B, Q)
  PROVE  PartsAre(u, B, Q, Transform(u)) /\ Transform(u) \subseteq AttsOf(B, Q)
  <1> DEFINE order == Ordered(u.diffs, Sooner)
             Gap(k) == k > 1 /\ order[k - 1].op = "Delete" /\ IsBlank(Text(u.old, order[k - 1].old))
             N == Len(order)
             T == AttsOf(B, Q)
             V == [atts : SUBSET T, newest : SUBSET T]
             part(k, s) == Part(u, order[k], s.newest, Gap(k))
             step(k, s) == [atts |-> s.atts \cup part(k, s).atts,
                            newest |-> IF part(k, s).newest = {} THEN s.newest ELSE part(k, s).newest]
             b == [atts |-> {}, newest |-> {}]
             h == [k \in 1 .. N |-> [s \in V |-> step(k, s)]]
             eqn(walk) == walk = [k \in 0 .. N |-> IF k = 0 THEN b ELSE step(k, walk[k - 1])]
             w == CHOOSE walk : eqn(walk)
  <1>1. Transform(u) = w[N].atts
    BY DEF Transform
  <1>2. /\ N \in Nat /\ \A k \in 1 .. N : order[k] \in u.diffs
        /\ \A d \in u.diffs : \E k \in 1 .. N : order[k] = d
    BY DiffsInOrder DEF UpdateIs
  <1>3. \A k \in 1 .. N : Gap(k) \in BOOLEAN
    OBVIOUS
  <1> HIDE DEF order, Gap, N
  <1>4. ASSUME NEW k \in 1 .. N, NEW s \in V
        PROVE  /\ part(k, s).atts \subseteq T /\ part(k, s).newest \subseteq T
               /\ step(k, s) \in V
    <2>1. s.newest \subseteq T /\ s.atts \subseteq T
      BY <1>4
    <2>2. part(k, s).atts \subseteq T /\ part(k, s).newest \subseteq T
      <3> HIDE DEF V
      <3> QED BY <2>1, <1>2, PartTyped
    <2> HIDE DEF part, T
    <2> QED BY <2>1, <2>2
  <1>5. b \in V
    OBVIOUS
  <1> HIDE DEF T, V, b, part
  <1>6. h \in [1 .. N -> [V -> V]]
    <2> HIDE DEF step
    <2> QED BY <1>4
  <1>7. \A k \in 1 .. N, s \in V : h[k][s] = step(k, s)
    <2> HIDE DEF step
    <2> QED OBVIOUS
  <1> HIDE DEF h
  <1>8. PICK f \in [0 .. N -> V] : f[0] = b /\ \A k \in 1 .. N : f[k] = h[k][f[k - 1]]
    <2> HIDE DEF step, eqn, w
    <2>1. N \in Nat
      BY <1>2
    <2>2. Walks(V, N, b, h) # {}
      BY <2>1, <1>5, <1>6, WalkExists
    <2> QED BY <2>2 DEF Walks
  <1>9. eqn(f)
    <2> HIDE DEF step
    <2>1. ASSUME NEW k \in 0 .. N PROVE f[k] = IF k = 0 THEN b ELSE step(k, f[k - 1])
      <3>1. CASE k = 0
        BY <3>1, <1>8
      <3>2. CASE k # 0
        <4>1. k \in 1 .. N /\ k - 1 \in 0 .. N
          BY <3>2, <1>2
        <4> QED BY <3>2, <4>1, <1>7, <1>8
      <3> QED BY <3>1, <3>2
    <2>2. f = [k \in 0 .. N |-> f[k]]
      OBVIOUS
    <2> QED BY <2>1, <2>2
  <1>10. eqn(w)
    <2> HIDE DEF eqn
    <2> QED BY <1>9
  <1>11. w[0] = b /\ \A k \in 1 .. N : w[k] = step(k, w[k - 1])
    <2> HIDE DEF w, step
    <2>1. \A k \in 0 .. N : w[k] = IF k = 0 THEN b ELSE step(k, w[k - 1])
      BY <1>10
    <2>2. 0 \in 0 .. N /\ \A k \in 1 .. N : k \in 0 .. N /\ k # 0
      BY <1>2
    <2> QED BY <2>1, <2>2
  <1> HIDE DEF w
  <1> DEFINE From(A) == \A a \in A : \E d \in u.diffs, nw \in SUBSET T, gap \in BOOLEAN : a \in Part(u, d, nw, gap).atts
             Has(k, A) == \A j \in 1 .. k : \E nw \in SUBSET T, gap \in BOOLEAN : Part(u, order[j], nw, gap).atts \subseteq A
             Good(k) == w[k] \in V /\ From(w[k].atts) /\ Has(k, w[k].atts)
             bad == {k \in 0 .. N : ~ Good(k)}
  <1>12. Good(0)
    <2>1. w[0] = b /\ b \in V /\ b.atts = {}
      BY <1>11, <1>5 DEF b
    <2>2. From({}) /\ Has(0, {})
      OBVIOUS
    <2> HIDE DEF From, Has
    <2> QED BY <2>1, <2>2
  <1>13. ASSUME NEW k \in 1 .. N, Good(k - 1) PROVE Good(k)
    <2> DEFINE s == w[k - 1]
    <2>1. w[k] = step(k, s) /\ s \in V /\ k - 1 \in Nat
      <3> HIDE DEF step, From, Has
      <3> QED BY <1>11, <1>13, <1>2
    <2>2. step(k, s) \in V /\ step(k, s).atts = s.atts \cup part(k, s).atts
      <3>1. step(k, s) \in V
        <4> HIDE DEF step, s
        <4> QED BY <2>1, <1>4
      <3> QED BY <3>1
    <2>3. s.newest \in SUBSET T /\ Gap(k) \in BOOLEAN /\ order[k] \in u.diffs
      BY <2>1, <1>2, <1>3 DEF V
    <2>4. part(k, s) = Part(u, order[k], s.newest, Gap(k))
      BY DEF part
    <2> HIDE DEF step, part, s
    <2>5. From(w[k].atts)
      <3> TAKE a \in w[k].atts
      <3>1. CASE a \in s.atts
        BY <3>1, <1>13 DEF s
      <3>2. CASE a \in part(k, s).atts
        <4>1. a \in Part(u, order[k], s.newest, Gap(k)).atts
          BY <3>2, <2>4
        <4> QED BY <4>1, <2>3
      <3> QED BY <3>1, <3>2, <2>1, <2>2
    <2>6. Has(k, w[k].atts)
      <3> TAKE j \in 1 .. k
      <3>1. CASE j = k
        <4>1. Part(u, order[k], s.newest, Gap(k)).atts \subseteq w[k].atts
          BY <2>1, <2>2, <2>4
        <4> QED BY <3>1, <4>1, <2>3
      <3>2. CASE j # k
        <4>1. j \in 1 .. (k - 1)
          BY <3>2, <2>1
        <4>2. PICK nw \in SUBSET T, gap \in BOOLEAN : Part(u, order[j], nw, gap).atts \subseteq s.atts
          BY <4>1, <1>13 DEF s
        <4>3. Part(u, order[j], nw, gap).atts \subseteq w[k].atts
          BY <4>2, <2>1, <2>2
        <4> QED BY <4>3
      <3> QED BY <3>1, <3>2
    <2> HIDE DEF From, Has
    <2> QED BY <2>1, <2>2, <2>5, <2>6
  <1> HIDE DEF Good
  <1>14. Good(N)
    <2>1. SUFFICES ASSUME ~ Good(N) PROVE FALSE
      OBVIOUS
    <2>2. N \in bad /\ bad \subseteq Nat
      BY <2>1, <1>2
    <2>3. PICK k \in bad : \A j \in bad : k <= j
      <3> HIDE DEF bad
      <3> QED BY <2>2, LeastNat
    <2>4. k # 0 /\ k \in 0 .. N
      BY <1>12
    <2>5. k \in 1 .. N /\ k - 1 \in 0 .. N /\ ~ (k <= k - 1)
      BY <2>4, <1>2
    <2>6. k - 1 \notin bad
      <3> HIDE DEF bad
      <3> QED BY <2>3, <2>5
    <2>7. Good(k - 1)
      BY <2>5, <2>6
    <2>8. Good(k)
      BY <1>13, <2>5, <2>7
    <2> QED BY <2>8
  <1> DEFINE A == w[N].atts
  <1>15. A \subseteq T
    BY <1>14 DEF Good, V
  <1>16. From(A)
    BY <1>14 DEF Good
  <1>17. \A d \in u.diffs : \E nw \in SUBSET T, gap \in BOOLEAN : Part(u, d, nw, gap).atts \subseteq A
    <2> TAKE d \in u.diffs
    <2>1. PICK k \in 1 .. N : order[k] = d
      BY <1>2
    <2>2. Has(N, A)
      BY <1>14 DEF Good
    <2> HIDE DEF A
    <2> QED BY <2>1, <2>2
  <1>18. PartsAre(u, B, Q, A)
    <2> HIDE DEF A
    <2> QED BY <1>16, <1>17 DEF PartsAre, T
  <1> QED BY <1>1, <1>15, <1>18 DEF T

----------------------------------------------------------------------------
(* transform: what each part owns *)

\* Moves that have the same bytes at both ends, and that insert no block twice.
CleanMovesOf(u) ==
  /\ \A m \in u.moves : Text(u.old, m.source) = Text(u.new, m.target)
  /\ \A m, n \in u.moves : m.del = n.del /\ m.source = n.source => m = n

\* Clean moves are all distinct and keep their length.
LEMMA CleanMovesCount ==
  ASSUME NEW u, NEW B, NEW Q, UpdateIs(u, B, Q), CleanMovesOf(u)
  PROVE  /\ DistinctMoves(u.moves) = u.moves
         /\ \A m \in u.moves : m.source.end - m.source.start = m.target.end - m.target.start
  <1>1. \A m \in u.moves : m.target.start \in Nat
    BY MoveSpans
  <1>2. \A m \in u.moves : m.target.start <= m.target.start
    BY <1>1
  <1>3. \A m \in u.moves : m \in DistinctMoves(u.moves)
    BY <1>2 DEF DistinctMoves, CleanMovesOf
  <1>4. DistinctMoves(u.moves) \subseteq u.moves
    BY DEF DistinctMoves
  <1>5. ASSUME NEW m \in u.moves PROVE m.source.end - m.source.start = m.target.end - m.target.start
    <2>1. Inside(u.old, m.source) /\ Inside(u.new, m.target)
      BY MoveSpans
    <2>2. u.old \in Seq(Symbols) /\ u.new \in Seq(Symbols)
      BY DEF UpdateIs
    <2>3. Len(Text(u.old, m.source)) = m.source.end - m.source.start
      BY <2>1, <2>2, TextFacts
    <2>4. Len(Text(u.new, m.target)) = m.target.end - m.target.start
      BY <2>1, <2>2, TextFacts
    <2> QED BY <2>3, <2>4 DEF CleanMovesOf
  <1> QED BY <1>3, <1>4, <1>5

\* A byte of the new content belongs to one diff that is kept or inserted there.
LEMMA OneHere ==
  ASSUME NEW u, NEW B, NEW Q, UpdateIs(u, B, Q), NEW d \in u.diffs, NEW e \in u.diffs, NEW p \in Nat,
         Covers(d.new, p), Covers(e.new, p)
  PROVE  d = e
  <1>1. /\ d.new.start \in Nat /\ d.new.end \in Nat /\ e.new.start \in Nat /\ e.new.end \in Nat
    BY ScriptNat DEF UpdateIs
  <1>2. d.new.start <= p /\ p < d.new.end /\ e.new.start <= p /\ p < e.new.end
    BY DEF Covers
  <1>3. ~ (d.new.end <= e.new.start) /\ ~ (e.new.end <= d.new.start)
    BY <1>1, <1>2
  <1>4. d = e \/ Ahead(d, e) \/ Ahead(e, d)
    BY DEF UpdateIs, Script
  <1> QED BY <1>3, <1>4 DEF Ahead

\* A move's target lies in its insertion.
LEMMA MoveHere ==
  ASSUME NEW u, NEW B, NEW Q, UpdateIs(u, B, Q), NEW m \in u.moves, NEW p \in Nat, Covers(m.target, p)
  PROVE  \E d \in u.diffs : d.op = "Insert" /\ m.ins = d.new /\ Covers(d.new, p)
  <1>1. MoveIs(u.diffs, m)
    BY DEF UpdateIs
  <1>2. PICK d \in u.diffs : d.op = "Insert" /\ m.ins = d.new
    BY <1>1 DEF MoveIs
  <1>3. /\ m.target.start \in Nat /\ m.target.end \in Nat
        /\ d.new.start <= m.target.start /\ m.target.end <= d.new.end
    BY <1>1, <1>2 DEF MoveIs, Within1
  <1>4. d.new.start \in Nat /\ d.new.end \in Nat
    BY ScriptNat DEF UpdateIs
  <1>5. d.new.start <= p /\ p < d.new.end
    BY <1>3, <1>4 DEF Covers
  <1> QED BY <1>2, <1>5 DEF Covers

\* Owned credits the whole of the new text.
LEMMA OwnedIs ==
  ASSUME NEW d, NEW by, NEW a \in Owned(d, by).atts
  PROVE  a.start = d.new.start /\ a.end = d.new.end /\ Who(a) = <<by.author, by.ts>>
  <1>1. a = Att(d.new.start, d.new.end, by.author, by.ts)
    BY DEF Owned
  <1> QED BY <1>1, AttFields

\* Every byte of it.
LEMMA OwnedCovers ==
  ASSUME NEW d, NEW by, NEW p, Covers(d.new, p)
  PROVE  \E a \in Owned(d, by).atts : Covers(a, p) /\ Who(a) = <<by.author, by.ts>>
  <1> DEFINE a == Att(d.new.start, d.new.end, by.author, by.ts)
  <1>1. a \in Owned(d, by).atts
    BY DEF Owned
  <1>2. a.start = d.new.start /\ a.end = d.new.end /\ Who(a) = <<by.author, by.ts>>
    BY AttFields
  <1> HIDE DEF a
  <1>3. Covers(a, p)
    BY <1>2 DEF Covers
  <1> QED BY <1>1, <1>2, <1>3

\* What an insertion adds lies inside it.
LEMMA InsertedIs ==
  ASSUME NEW u, NEW B, NEW Q, UpdateIs(u, B, Q), NEW d \in u.diffs, d.op = "Insert",
         NEW nw \in SUBSET AttsOf(B, Q), NEW gap
  PROVE  \/ /\ MovedIn(u, d) # {}
            /\ Part(u, d, nw, gap).atts = Uncovered(d.new, MovedIn(u, d), u.author, u.ts)
         \/ /\ MovedIn(u, d) = {}
            /\ \E by : Part(u, d, nw, gap).atts = Owned(d, by).atts
            /\ (u.ai \/ \E f \in u.fresh : Overlaps(f, d.new.start, d.new.end)) =>
                 Part(u, d, nw, gap).atts = Owned(d, u).atts
  <1> DEFINE nearest == NearestAttribution(u.atts, d.old.start)
             rest == Uncovered(d.new, MovedIn(u, d), u.author, u.ts)
  <1>1. Part(u, d, nw, gap) = Inserted(u, d, nw, gap)
    BY DEF Part
  <1>2. nearest \subseteq AttsOf(B, Q) /\ nw \subseteq AttsOf(B, Q)
    BY NearestIs DEF UpdateIs
  <1>3. MovedIn(u, d) # {} => Inserted(u, d, nw, gap) = [atts |-> rest, newest |-> First(rest, After)]
    BY DEF Inserted
  <1>4. MovedIn(u, d) = {} /\ (u.ai \/ \E f \in u.fresh : Overlaps(f, d.new.start, d.new.end)) =>
          Inserted(u, d, nw, gap) = Owned(d, u)
    BY DEF Inserted
  <1>5. MovedIn(u, d) = {} => \/ Inserted(u, d, nw, gap) = Owned(d, u)
                              \/ Inserted(u, d, nw, gap) = Inherited(u, d, nearest, nw)
                              \/ Inserted(u, d, nw, gap) = Inherited(u, d, nw, nearest)
    BY DEF Inserted
  <1> HIDE DEF nearest
  <1>6. \E by : Inherited(u, d, nearest, nw) = Owned(d, by)
    <2>1. \E by : <<by.author, by.ts>> \in Q /\ Inherited(u, d, nearest, nw) = Owned(d, by)
      BY <1>2, InheritedTyped
    <2> QED BY <2>1
  <1>7. \E by : Inherited(u, d, nw, nearest) = Owned(d, by)
    <2>1. \E by : <<by.author, by.ts>> \in Q /\ Inherited(u, d, nw, nearest) = Owned(d, by)
      BY <1>2, InheritedTyped
    <2> QED BY <2>1
  <1>8. CASE MovedIn(u, d) # {}
    BY <1>1, <1>3, <1>8
  <1>9. CASE MovedIn(u, d) = {}
    <2>1. \E by : Inserted(u, d, nw, gap) = Owned(d, by)
      BY <1>5, <1>6, <1>7, <1>9
    <2> QED BY <1>1, <1>4, <1>9, <2>1
  <1> QED BY <1>8, <1>9

\* What a deletion leaves: what is moved elsewhere, or a mark.
LEMMA DeletedIs ==
  ASSUME NEW u, NEW d, d.op = "Delete", NEW nw, NEW gap
  PROVE  /\ MovedOut(u, d) # {} => Part(u, d, nw, gap).atts = Carry(u.atts, MovedOut(u, d)).atts
         /\ MovedOut(u, d) = {} => Part(u, d, nw, gap).atts \subseteq Owned(d, u).atts
  <1>1. Part(u, d, nw, gap) = Deleted(u, d)
    BY DEF Part
  <1> QED BY <1>1 DEF Deleted

\* An equal text keeps its attributions.
LEMMA KeptIs ==
  ASSUME NEW u, NEW d, d.op = "Equal", NEW nw, NEW gap
  PROVE  Part(u, d, nw, gap).atts = Carry(u.atts, {[source |-> d.old, target |-> d.new]}).atts
  BY DEF Part

\* Where a part of a diff covers a byte: inside the diff, or where something was
\* moved to.
LEMMA PartWhere ==
  ASSUME NEW u, NEW B, NEW Q, UpdateIs(u, B, Q), CleanMovesOf(u), NEW d \in u.diffs,
         NEW nw \in SUBSET AttsOf(B, Q), NEW gap, NEW a \in Part(u, d, nw, gap).atts,
         NEW p \in Nat, Covers(a, p)
  PROVE  \/ d.op \in {"Equal", "Insert"} /\ Covers(d.new, p)
         \/ \E m \in u.moves : Covers(m.target, p)
  <1>0. /\ DiffIs(u.old, u.new, d) /\ Script(u.old, u.new, u.diffs)
        /\ u.old \in Seq(Symbols) /\ u.new \in Seq(Symbols)
    BY DEF UpdateIs, Script
  <1>a. /\ d.old.start \in Nat /\ d.old.end \in Nat /\ d.new.start \in Nat /\ d.new.end \in Nat
    BY <1>0, ScriptNat
  <1>1. CASE d.op = "Equal"
    <2> DEFINE j == [source |-> d.old, target |-> d.new]
    <2>1. a \in Carry(u.atts, {j}).atts
      BY <1>1, KeptIs
    <2>2. PICK x \in u.atts : a \in Carried(x, j)
      BY <2>1, CarryIs
    <2>3. x.start \in Nat /\ x.end \in Nat
      BY OldAtt
    <2>4. j.source = d.old /\ j.target = d.new
      OBVIOUS
    <2> HIDE DEF j
    <2>5. a.start \in Nat /\ a.end \in Nat /\ d.new.start <= a.start
          /\ a.end <= d.new.start + (d.old.end - d.old.start)
      BY <1>a, <2>2, <2>3, <2>4, CarriedIs
    <2>6. d.old.end - d.old.start = d.new.end - d.new.start
      <3>1. Inside(u.old, d.old) /\ Inside(u.new, d.new) /\ Text(u.old, d.old) = Text(u.new, d.new)
        BY <1>0, <1>1 DEF DiffIs
      <3>2. Len(Text(u.old, d.old)) = d.old.end - d.old.start
        BY <1>0, <3>1, TextFacts
      <3>3. Len(Text(u.new, d.new)) = d.new.end - d.new.start
        BY <1>0, <3>1, TextFacts
      <3> QED BY <3>1, <3>2, <3>3
    <2>7. d.new.start <= p /\ p < d.new.end
      BY <1>a, <2>5, <2>6 DEF Covers
    <2> QED BY <1>1, <2>7 DEF Covers
  <1>2. CASE d.op = "Delete"
    <2>1. CASE MovedOut(u, d) = {}
      <3>1. a.start = d.new.start /\ a.end = d.new.end
        BY <1>2, <2>1, DeletedIs, OwnedIs
      <3>2. d.new.start = d.new.end
        BY <1>0, <1>2 DEF DiffIs
      <3> QED BY <1>a, <3>1, <3>2 DEF Covers
    <2>2. CASE MovedOut(u, d) # {}
      <3>1. a \in Carry(u.atts, MovedOut(u, d)).atts
        BY <1>2, <2>2, DeletedIs
      <3>2. PICK x \in u.atts, m \in MovedOut(u, d) : a \in Carried(x, m)
        BY <3>1, CarryIs
      <3>3. m \in u.moves
        BY DEF MovedOut, DistinctMoves
      <3>4. /\ m.source.start \in Nat /\ m.source.end \in Nat
            /\ m.target.start \in Nat /\ m.target.end \in Nat
        BY <3>3, MoveSpans
      <3>5. x.start \in Nat /\ x.end \in Nat
        BY OldAtt
      <3>6. a.start \in Nat /\ a.end \in Nat /\ m.target.start <= a.start
            /\ a.end <= m.target.start + (m.source.end - m.source.start)
        BY <3>2, <3>4, <3>5, CarriedIs
      <3>7. m.source.end - m.source.start = m.target.end - m.target.start
        BY <3>3, CleanMovesCount
      <3>8. m.target.start <= p /\ p < m.target.end
        BY <3>4, <3>6, <3>7 DEF Covers
      <3> QED BY <3>3, <3>8 DEF Covers
    <2> QED BY <2>1, <2>2
  <1>3. CASE d.op = "Insert"
    <2>1. CASE Part(u, d, nw, gap).atts = Uncovered(d.new, MovedIn(u, d), u.author, u.ts)
      <3>1. Spans(MovedIn(u, d))
        BY MoveSpans DEF Spans, MovedIn
      <3>2. a.start \in Nat /\ a.end \in Nat /\ d.new.start <= a.start /\ a.end <= d.new.end
        BY <1>a, <2>1, <3>1, UncoveredIs
      <3>3. d.new.start <= p /\ p < d.new.end
        BY <1>a, <3>2 DEF Covers
      <3> QED BY <1>3, <3>3 DEF Covers
    <2>2. CASE \E by : Part(u, d, nw, gap).atts = Owned(d, by).atts
      <3>1. a.start = d.new.start /\ a.end = d.new.end
        BY <2>2, OwnedIs
      <3> QED BY <1>3, <3>1 DEF Covers
    <2> QED BY <1>3, <2>1, <2>2, InsertedIs
  <1> QED BY <1>0, <1>1, <1>2, <1>3 DEF DiffIs

\* Every byte of a content has an owner.
AllOwned(c, atts) == \A p \in Nat : p < Len(c) => \E a \in atts : Covers(a, p)

\* The part that a move, or a kept stretch, carries to a byte.
LEMMA CarriedTo ==
  ASSUME NEW u, NEW B, NEW Q, UpdateIs(u, B, Q), NEW jumps, NEW j \in jumps, NEW a \in u.atts,
         j.source.start \in Nat, j.source.end \in Nat, j.target.start \in Nat,
         NEW i \in Nat, j.source.start + i < j.source.end, Covers(a, j.source.start + i)
  PROVE  \E b \in Carry(u.atts, jumps).atts : Covers(b, j.target.start + i) /\ Who(b) = Who(a)
  <1>1. a.start \in Nat /\ a.end \in Nat
    BY OldAtt
  <1>2. a.start <= j.source.start + i /\ j.source.start + i < a.end
    BY DEF Covers
  <1>3. PICK b \in Carried(a, j) : b.start <= j.target.start + i /\ j.target.start + i < b.end
    BY <1>1, <1>2, CarriedWhere
  <1>4. Who(b) = Who(a)
    BY <1>1, CarriedIs
  <1>5. b \in Carry(u.atts, jumps).atts
    BY <1>3, CarryIs
  <1> QED BY <1>3, <1>4, <1>5 DEF Covers

\* Both sides of an equal text have the same length.
LEMMA KeptSpan ==
  ASSUME NEW u, NEW B, NEW Q, UpdateIs(u, B, Q), NEW d \in u.diffs, d.op = "Equal"
  PROVE  /\ d.old.start \in Nat /\ d.old.end \in Nat /\ d.new.start \in Nat /\ d.new.end \in Nat
         /\ d.old.end <= Len(u.old) /\ d.new.end <= Len(u.new)
         /\ d.old.end - d.old.start = d.new.end - d.new.start
  <1>0. /\ DiffIs(u.old, u.new, d) /\ Script(u.old, u.new, u.diffs)
        /\ u.old \in Seq(Symbols) /\ u.new \in Seq(Symbols)
    BY DEF UpdateIs, Script
  <1>1. Inside(u.old, d.old) /\ Inside(u.new, d.new) /\ Text(u.old, d.old) = Text(u.new, d.new)
    BY <1>0 DEF DiffIs
  <1>2. Len(Text(u.old, d.old)) = d.old.end - d.old.start
    BY <1>0, <1>1, TextFacts
  <1>3. Len(Text(u.new, d.new)) = d.new.end - d.new.start
    BY <1>0, <1>1, TextFacts
  <1> QED BY <1>0, <1>1, <1>2, <1>3, ScriptNat

\* Kept bytes have the owners they had.
LEMMA KeptOwners ==
  ASSUME NEW u, NEW B, NEW Q, UpdateIs(u, B, Q), CleanMovesOf(u),
         NEW A, PartsAre(u, B, Q, A),
         NEW d \in u.diffs, d.op = "Equal", NEW i \in Nat, i < d.old.end - d.old.start, NEW q
  PROVE  Owns(A, d.new.start + i, q) <=> Owns(u.atts, d.old.start + i, q)
  <1> DEFINE j == [source |-> d.old, target |-> d.new]
             p == d.new.start + i
             x == d.old.start + i
  <1>1. /\ d.old.start \in Nat /\ d.old.end \in Nat /\ d.new.start \in Nat /\ d.new.end \in Nat
        /\ d.old.end - d.old.start = d.new.end - d.new.start
    BY KeptSpan
  <1>2. p \in Nat /\ x \in Nat /\ x < d.old.end /\ p < d.new.end /\ d.new.start <= p
    BY <1>1
  <1>3. Covers(d.new, p)
    BY <1>2 DEF Covers
  <1>4. j.source = d.old /\ j.target = d.new
    OBVIOUS
  <1>5. \A nw, gap : Part(u, d, nw, gap).atts = Carry(u.atts, {j}).atts
    BY KeptIs
  <1> HIDE DEF j, p, x
  <1>6. ASSUME Owns(A, p, q) PROVE Owns(u.atts, x, q)
    <2>1. PICK a \in A : Covers(a, p) /\ q = Who(a)
      BY <1>6 DEF Owns, Covers
    <2>2. PICK e \in u.diffs, nw \in SUBSET AttsOf(B, Q), gap \in BOOLEAN : a \in Part(u, e, nw, gap).atts
      BY DEF PartsAre
    <2>3. e = d
      <3>1. CASE e.op \in {"Equal", "Insert"} /\ Covers(e.new, p)
        BY <3>1, <1>2, <1>3, OneHere
      <3>2. CASE \E m \in u.moves : Covers(m.target, p)
        <4>1. PICK f \in u.diffs : f.op = "Insert" /\ Covers(f.new, p)
          BY <3>2, <1>2, MoveHere
        <4>2. f = d
          BY <4>1, <1>2, <1>3, OneHere
        <4> QED BY <4>1, <4>2
      <3> QED BY <3>1, <3>2, <1>2, <2>1, <2>2, PartWhere
    <2>4. a \in Carry(u.atts, {j}).atts
      BY <2>2, <2>3, <1>5
    <2>5. PICK y \in u.atts : a \in Carried(y, j)
      BY <2>4, CarryIs
    <2>6. y.start \in Nat /\ y.end \in Nat
      BY OldAtt
    <2>7. Who(a) = Who(y) /\ y.start <= d.old.start + i /\ d.old.start + i < y.end
      <3>1. a.start <= d.new.start + i /\ d.new.start + i < a.end
        BY <2>1 DEF Covers, p
      <3> QED BY <3>1, <2>5, <2>6, <1>1, <1>4, CarriedIs
    <2> QED BY <2>1, <2>7 DEF Owns, x
  <1>7. ASSUME Owns(u.atts, x, q) PROVE Owns(A, p, q)
    <2>1. PICK a \in u.atts : Covers(a, x) /\ q = Who(a)
      BY <1>7 DEF Owns, Covers
    <2>2. PICK b \in Carry(u.atts, {j}).atts : Covers(b, p) /\ Who(b) = Who(a)
      <3>1. j.source.start + i = x /\ j.target.start + i = p
        BY <1>4 DEF x, p
      <3>2. /\ j.source.start \in Nat /\ j.source.end \in Nat /\ j.target.start \in Nat
            /\ j.source.start + i < j.source.end
        BY <1>1, <1>2, <1>4 DEF x
      <3>3. j \in {j} /\ Covers(a, j.source.start + i)
        BY <2>1, <3>1
      <3>4. \E b \in Carry(u.atts, {j}).atts : Covers(b, j.target.start + i) /\ Who(b) = Who(a)
        <4> DEFINE J == {j}
        <4>1. j \in J
          OBVIOUS
        <4> HIDE DEF J
        <4>2. \E b \in Carry(u.atts, J).atts : Covers(b, j.target.start + i) /\ Who(b) = Who(a)
          BY <3>2, <3>3, <4>1, CarriedTo
        <4> QED BY <4>2 DEF J
      <3> QED BY <3>1, <3>4
    <2>3. PICK nw \in SUBSET AttsOf(B, Q), gap \in BOOLEAN : Part(u, d, nw, gap).atts \subseteq A
      BY DEF PartsAre
    <2>4. b \in A
      BY <2>2, <2>3, <1>5
    <2> QED BY <2>1, <2>2, <2>4 DEF Owns, Covers
  <1> QED BY <1>6, <1>7 DEF p, x

\* Inserted bytes that count, and were not moved there, are the author's.
LEMMA InsertedOwners ==
  ASSUME NEW u, NEW B, NEW Q, UpdateIs(u, B, Q), CleanMovesOf(u),
         ~ u.ai => Substantive(u.new, u.diffs, u.fresh),
         NEW A, PartsAre(u, B, Q, A),
         NEW d \in u.diffs, d.op = "Insert", NEW p \in Nat, Covers(d.new, p),
         \A m \in u.moves : ~ Covers(m.target, p),
         u.ai \/ u.new[p + 1] \notin Blanks, NEW q
  PROVE  Owns(A, p, q) <=> q = <<u.author, u.ts>>
  <1>1. d.new.start \in Nat /\ d.new.end \in Nat
    BY ScriptNat DEF UpdateIs
  <1>2. u.ai \/ \E f \in u.fresh : Overlaps(f, d.new.start, d.new.end)
    <2>1. CASE u.ai
      BY <2>1
    <2>2. CASE ~ u.ai
      <3>1. d.new.start <= p /\ p < d.new.end
        BY DEF Covers
      <3>2. PICK f \in u.fresh : f.start \in Nat /\ f.end \in Nat /\ f.start <= p /\ p < f.end
        BY <2>2, <3>1 DEF Substantive
      <3>3. Overlaps(f, d.new.start, d.new.end)
        BY <1>1, <3>1, <3>2 DEF Overlaps
      <3> QED BY <3>3
    <2> QED BY <2>1, <2>2
  <1>3. Spans(MovedIn(u, d)) /\ \A t \in MovedIn(u, d) : ~ Covers(t, p)
    BY MoveSpans DEF Spans, MovedIn
  <1>6. ASSUME NEW nw \in SUBSET AttsOf(B, Q), NEW gap
        PROVE  \/ Part(u, d, nw, gap).atts = Uncovered(d.new, MovedIn(u, d), u.author, u.ts)
               \/ Part(u, d, nw, gap).atts = Owned(d, u).atts
    BY <1>2, InsertedIs
  <1>4. ASSUME Owns(A, p, q) PROVE q = <<u.author, u.ts>>
    <2>1. PICK a \in A : Covers(a, p) /\ q = Who(a)
      BY <1>4 DEF Owns, Covers
    <2>2. PICK e \in u.diffs, nw \in SUBSET AttsOf(B, Q), gap \in BOOLEAN : a \in Part(u, e, nw, gap).atts
      BY DEF PartsAre
    <2>3. Covers(e.new, p)
      BY <2>1, <2>2, PartWhere
    <2>4. e = d
      BY <2>3, OneHere
    <2>5. CASE Part(u, d, nw, gap).atts = Uncovered(d.new, MovedIn(u, d), u.author, u.ts)
      BY <2>1, <2>2, <2>4, <2>5, <1>1, <1>3, UncoveredIs
    <2>6. CASE Part(u, d, nw, gap).atts = Owned(d, u).atts
      BY <2>1, <2>2, <2>4, <2>6, OwnedIs
    <2> QED BY <2>5, <2>6, <1>6
  <1>5. Owns(A, p, <<u.author, u.ts>>)
    <2>1. PICK nw \in SUBSET AttsOf(B, Q), gap \in BOOLEAN : Part(u, d, nw, gap).atts \subseteq A
      BY DEF PartsAre
    <2>2. CASE Part(u, d, nw, gap).atts = Uncovered(d.new, MovedIn(u, d), u.author, u.ts)
      <3>1. PICK b \in Part(u, d, nw, gap).atts : Covers(b, p)
        BY <2>2, <1>1, <1>3, UncoveredIs
      <3>2. Who(b) = <<u.author, u.ts>>
        BY <2>2, <1>1, <1>3, UncoveredIs
      <3> QED BY <2>1, <3>1, <3>2 DEF Owns, Covers
    <2>3. CASE Part(u, d, nw, gap).atts = Owned(d, u).atts
      <3>1. PICK b \in Part(u, d, nw, gap).atts : Covers(b, p) /\ Who(b) = <<u.author, u.ts>>
        BY <2>3, OwnedCovers
      <3> QED BY <2>1, <3>1 DEF Owns, Covers
    <2> QED BY <2>2, <2>3, <1>6
  <1> QED BY <1>4, <1>5

\* An insertion owns all of its text, or what no move covers.
EitherPart(u, d, part) ==
  \/ part = Uncovered(d.new, MovedIn(u, d), u.author, u.ts)
  \/ \E by : part = Owned(d, by).atts

\* Every insertion does.
LEMMA InsertedEither ==
  ASSUME NEW u, NEW B, NEW Q, UpdateIs(u, B, Q), NEW d \in u.diffs, d.op = "Insert",
         NEW nw \in SUBSET AttsOf(B, Q), NEW gap
  PROVE  EitherPart(u, d, Part(u, d, nw, gap).atts)
  <1>1. \/ /\ MovedIn(u, d) # {}
           /\ Part(u, d, nw, gap).atts = Uncovered(d.new, MovedIn(u, d), u.author, u.ts)
        \/ /\ MovedIn(u, d) = {}
           /\ \E by : Part(u, d, nw, gap).atts = Owned(d, by).atts
           /\ (u.ai \/ \E f \in u.fresh : Overlaps(f, d.new.start, d.new.end)) =>
                Part(u, d, nw, gap).atts = Owned(d, u).atts
    BY InsertedIs
  <1>2. CASE MovedIn(u, d) # {}
    BY <1>1, <1>2 DEF EitherPart
  <1>3. CASE MovedIn(u, d) = {}
    BY <1>1, <1>3 DEF EitherPart
  <1> QED BY <1>2, <1>3

\* Nothing of the new content is without an owner if nothing of the old one was.
LEMMA NewOwned ==
  ASSUME NEW u, NEW B, NEW Q, UpdateIs(u, B, Q), CleanMovesOf(u), AllOwned(u.old, u.atts),
         NEW A, PartsAre(u, B, Q, A)
  PROVE  AllOwned(u.new, A)
  <1> SUFFICES ASSUME NEW p \in Nat, p < Len(u.new) PROVE \E a \in A : Covers(a, p)
    BY DEF AllOwned
  <1>1. PICK d \in u.diffs : d.op \in {"Equal", "Insert"} /\ d.new.start <= p /\ p < d.new.end
    BY DEF UpdateIs, Script
  <1>2. /\ d.new.start \in Nat /\ d.new.end \in Nat
    BY ScriptNat DEF UpdateIs
  <1>3. Covers(d.new, p)
    BY <1>1 DEF Covers
  <1>4. u.old \in Seq(Symbols) /\ Len(u.old) \in Nat
    BY LenProperties DEF UpdateIs
  <1>5. CASE d.op = "Equal"
    <2> DEFINE i == p - d.new.start
               x == d.old.start + i
    <2>1. /\ d.old.start \in Nat /\ d.old.end \in Nat /\ d.old.end <= Len(u.old)
          /\ d.old.end - d.old.start = d.new.end - d.new.start
      BY <1>5, KeptSpan
    <2>2. i \in Nat /\ i < d.old.end - d.old.start /\ d.new.start + i = p
      <3>1. PICK k \in Nat, l \in Nat : /\ d.new.start = k /\ d.new.end = l
                                      /\ d.old.end - d.old.start = l - k
        BY <1>2, <2>1
      <3>2. k <= p /\ p < l /\ i = p - k
        BY <1>1, <3>1
      <3> HIDE DEF i
      <3>3. i \in Nat /\ i < l - k /\ k + i = p
        BY <3>2
      <3> QED BY <3>1, <3>3
    <2>3. x \in Nat /\ x < Len(u.old)
      BY <1>4, <2>1, <2>2
    <2>4. PICK a \in u.atts : Covers(a, x)
      BY <2>3 DEF AllOwned
    <2>5. Owns(u.atts, d.old.start + i, Who(a))
      BY <2>4 DEF Owns, Covers
    <2>6. Owns(A, d.new.start + i, Who(a))
      <3> HIDE DEF i
      <3> QED BY <1>5, <2>2, <2>5, KeptOwners
    <2> QED BY <2>2, <2>6 DEF Owns, Covers
  <1>6. CASE d.op = "Insert"
    <2>1. PICK nw \in SUBSET AttsOf(B, Q), gap \in BOOLEAN : Part(u, d, nw, gap).atts \subseteq A
      BY DEF PartsAre
    <2>2. CASE \E by : Part(u, d, nw, gap).atts = Owned(d, by).atts
      BY <2>1, <2>2, <1>3, OwnedCovers
    <2>3. CASE Part(u, d, nw, gap).atts = Uncovered(d.new, MovedIn(u, d), u.author, u.ts)
      <3>1. Spans(MovedIn(u, d))
        BY MoveSpans DEF Spans, MovedIn
      <3>2. CASE \A t \in MovedIn(u, d) : ~ Covers(t, p)
        BY <1>2, <1>3, <2>1, <2>3, <3>1, <3>2, UncoveredIs
      <3>3. ASSUME NEW m \in u.moves, Covers(m.target, p) PROVE \E a \in A : Covers(a, p)
        <4> DEFINE i == p - m.target.start
                   x == m.source.start + i
        <4>1. /\ m.source.start \in Nat /\ m.source.end \in Nat
              /\ m.target.start \in Nat /\ m.target.end \in Nat
              /\ m.source.end <= Len(u.old)
          BY MoveSpans DEF Inside
        <4>2. m.source.end - m.source.start = m.target.end - m.target.start
          BY CleanMovesCount
        <4>3. m.target.start <= p /\ p < m.target.end
          BY <3>3 DEF Covers
        <4>a. /\ i \in Nat /\ m.source.start + i < m.source.end /\ m.target.start + i = p
              /\ x \in Nat /\ x < Len(u.old)
          <5> DEFINE ss == m.source.start
                     se == m.source.end
                     ts == m.target.start
                     te == m.target.end
                     n == Len(u.old)
          <5>1. /\ ss \in Nat /\ se \in Nat /\ ts \in Nat /\ te \in Nat /\ n \in Nat
                /\ se - ss = te - ts /\ ts <= p /\ p < te /\ se <= n
            BY <1>4, <4>1, <4>2, <4>3
          <5> HIDE DEF ss, se, ts, te, n
          <5>2. p - ts \in Nat /\ ss + (p - ts) < se /\ ts + (p - ts) = p
                /\ ss + (p - ts) \in Nat /\ ss + (p - ts) < n
            BY <5>1
          <5> QED BY <5>2 DEF ss, se, ts, te, n
        <4>4. i \in Nat /\ m.source.start + i < m.source.end /\ m.target.start + i = p
          BY <4>a
        <4>5. x \in Nat /\ x < Len(u.old)
          BY <4>a
        <4>6. PICK a \in u.atts : Covers(a, x)
          BY <4>5 DEF AllOwned
        <4>7. PICK e \in u.diffs : e.op = "Delete" /\ m.del = e.old
          BY DEF UpdateIs, MoveIs
        <4>8. m \in MovedOut(u, e)
          BY <4>7, CleanMovesCount DEF MovedOut
        <4>9. PICK nw2 \in SUBSET AttsOf(B, Q), gap2 \in BOOLEAN : Part(u, e, nw2, gap2).atts \subseteq A
          BY DEF PartsAre
        <4>10. Part(u, e, nw2, gap2).atts = Carry(u.atts, MovedOut(u, e)).atts
          BY <4>7, <4>8, DeletedIs
        <4>11. PICK b \in Carry(u.atts, MovedOut(u, e)).atts : Covers(b, m.target.start + i)
          <5> HIDE DEF i
          <5>1. Covers(a, m.source.start + i)
            BY <4>6
          <5> QED BY <4>1, <4>4, <4>8, <5>1, CarriedTo
        <4> QED BY <4>4, <4>9, <4>10, <4>11
      <3>4. (\E t \in MovedIn(u, d) : Covers(t, p)) => \E m \in u.moves : Covers(m.target, p)
        BY DEF MovedIn
      <3> QED BY <3>2, <3>3, <3>4
    <2>4. EitherPart(u, d, Part(u, d, nw, gap).atts)
      BY <1>6, InsertedEither
    <2>5. \/ Part(u, d, nw, gap).atts = Uncovered(d.new, MovedIn(u, d), u.author, u.ts)
          \/ \E by : Part(u, d, nw, gap).atts = Owned(d, by).atts
      BY <2>4 DEF EitherPart
    <2> QED BY <2>2, <2>3, <2>5, Zenon
  <1> QED BY <1>1, <1>5, <1>6

----------------------------------------------------------------------------
(* Order and merge *)

\* Who may own bytes, and since when.
Credits(Q) == IsFiniteSet(Q) /\ Q \subseteq Authors \X Nat

\* Who can be credited, and when.
LEMMA CreditsArePairs ==
  ASSUME NEW Q, Credits(Q)
  PROVE  Pairs(Q) /\ IsFiniteSet(Q) /\ \A q \in Q : q[1] \in Authors /\ q[2] \in Nat
  BY DEF Credits, Pairs

\* An attribution that credits one of them.
LEMMA CreditedAtt ==
  ASSUME NEW B \in Nat, NEW Q, Credits(Q), NEW a \in AttsOf(B, Q)
  PROVE  /\ a.start \in Nat /\ a.end \in Nat /\ a.start <= a.end /\ a.end <= B
         /\ a.author \in Authors /\ a.ts \in Nat /\ Who(a) \in Q
         /\ Rank(a.author) \in Int
         /\ a = Att(a.start, a.end, a.author, a.ts)
  <1>1. Pairs(Q)
    BY CreditsArePairs
  <1>2. /\ a.start \in Nat /\ a.end \in Nat /\ a.start <= a.end /\ a.end <= B
        /\ Who(a) \in Q /\ a = Att(a.start, a.end, a.author, a.ts)
    BY <1>1, AttIs DEF Pairs
  <1>3. Who(a)[1] \in Authors /\ Who(a)[2] \in Nat
    BY <1>2, CreditsArePairs
  <1>4. a.author \in Authors /\ a.ts \in Nat
    BY <1>3 DEF Who
  <1>5. Rank(a.author) \in Int
    BY <1>4, CheckpointAssumption
  <1> QED BY <1>2, <1>4, <1>5

\* No two authors have the same rank.
LEMMA SameRank ==
  ASSUME NEW a \in Authors, NEW b \in Authors, Rank(a) = Rank(b)
  PROVE  a = b
  BY CheckpointAssumption

\* Before orders attributions totally.
LEMMA BeforeOrders ==
  ASSUME NEW B \in Nat, NEW Q, Credits(Q), NEW S, S \subseteq AttsOf(B, Q)
  PROVE  Orders({z \in S \X S : Before(z[1], z[2])}, S)
  <1> DEFINE R == {z \in S \X S : Before(z[1], z[2])}
  <1>1. \A x, y \in S : <<x, y>> \in R <=> Before(x, y)
    OBVIOUS
  <1>2. \A x \in S : /\ x.start \in Nat /\ x.end \in Nat /\ Rank(x.author) \in Int /\ x.ts \in Nat
                     /\ x.author \in Authors
                     /\ x = Att(x.start, x.end, x.author, x.ts)
    BY CreditedAtt
  <1> HIDE DEF R
  <1>3. \A x \in S : <<x, x>> \notin R
    BY <1>1, <1>2 DEF Before
  <1>4. ASSUME NEW x \in S, NEW y \in S, NEW z \in S, Before(x, y), Before(y, z) PROVE Before(x, z)
    <2>1. /\ x.start \in Nat /\ x.end \in Nat /\ Rank(x.author) \in Int /\ x.ts \in Nat
          /\ y.start \in Nat /\ y.end \in Nat /\ Rank(y.author) \in Int /\ y.ts \in Nat
          /\ z.start \in Nat /\ z.end \in Nat /\ Rank(z.author) \in Int /\ z.ts \in Nat
      BY <1>2
    <2> QED BY <2>1, <1>4 DEF Before
  <1>5. ASSUME NEW x \in S, NEW y \in S, ~ Before(x, y), ~ Before(y, x) PROVE x = y
    <2>1. /\ x.start \in Nat /\ x.end \in Nat /\ Rank(x.author) \in Int /\ x.ts \in Nat
          /\ y.start \in Nat /\ y.end \in Nat /\ Rank(y.author) \in Int /\ y.ts \in Nat
      BY <1>2
    <2>2. x.start = y.start
      BY <2>1, <1>5 DEF Before
    <2>3. x.end = y.end
      BY <2>1, <2>2, <1>5 DEF Before
    <2>4. Rank(x.author) = Rank(y.author)
      BY <2>1, <2>2, <2>3, <1>5 DEF Before
    <2>5. x.author = y.author
      BY <2>4, <1>2, SameRank
    <2>6. x.ts = y.ts
      BY <2>1, <2>2, <2>3, <2>5, <1>5 DEF Before
    <2> QED BY <1>2, <2>2, <2>3, <2>5, <2>6
  <1> QED BY <1>1, <1>3, <1>4, <1>5 DEF Orders, R

\* What comes before does not start after.
LEMMA BeforeStarts ==
  ASSUME NEW x, NEW y, x.start \in Nat, y.start \in Nat, Before(x, y)
  PROVE  x.start <= y.start
  BY DEF Before

\* Attributions in order are all there, by their start.
LEMMA AttsInOrder ==
  ASSUME NEW B \in Nat, NEW Q, Credits(Q), NEW S, S \subseteq AttsOf(B, Q),
         NEW s, s = Ordered(S, Before)
  PROVE  /\ Len(s) \in Nat /\ DOMAIN s = 1 .. Len(s)
         /\ \A k \in 1 .. Len(s) : s[k] \in S
         /\ \A a \in S : \E k \in 1 .. Len(s) : s[k] = a
         /\ \A j, k \in 1 .. Len(s) : j < k => s[j].start <= s[k].start
  <1> DEFINE R == {z \in S \X S : Before(z[1], z[2])}
             rank == [x \in S |-> Cardinality({y \in S : Before(y, x)})]
             n == Cardinality(S)
  <1>1. s = ByRank(S, rank)
    BY DEF Ordered
  <1>2. IsFiniteSet(S) /\ Orders(R, S)
    <2>1. IsFiniteSet(AttsOf(B, Q))
      BY CreditsArePairs, AttsFinite
    <2>2. IsFiniteSet(S)
      BY <2>1, FS_Subset
    <2> QED BY <2>2, BeforeOrders
  <1>3. rank = [x \in S |-> Cardinality({y \in S : <<y, x>> \in R})]
    <2>1. \A x \in S : {y \in S : Before(y, x)} = {y \in S : <<y, x>> \in R}
      OBVIOUS
    <2> HIDE DEF R
    <2> QED BY <2>1
  <1>a. \A x, y \in S : <<x, y>> \in R => Before(x, y)
    OBVIOUS
  <1> HIDE DEF R, rank
  <1>4. Lists(s, S, R)
    BY <1>1, <1>2, <1>3, InOrder
  <1>5. /\ n \in Nat /\ s \in [1 .. n -> S] /\ \A a \in S : \E k \in 1 .. n : s[k] = a
        /\ \A j, k \in 1 .. n : j < k => <<s[j], s[k]>> \in R
    BY <1>4 DEF Lists
  <1> HIDE DEF n
  <1>6. Len(s) = n /\ DOMAIN s = 1 .. n
    BY <1>5, FunctionIsSeq
  <1>7. ASSUME NEW j \in 1 .. n, NEW k \in 1 .. n, j < k PROVE s[j].start <= s[k].start
    <2>1. s[j] \in S /\ s[k] \in S /\ Before(s[j], s[k])
      BY <1>5, <1>7, <1>a
    <2>2. s[j].start \in Nat /\ s[k].start \in Nat
      BY <2>1, CreditedAtt
    <2> QED BY <2>1, <2>2, BeforeStarts
  <1> QED BY <1>5, <1>6, <1>7

\* The same owners, byte for byte.
SameOwners(S, T) == \A p \in Nat : \A q : Owns(S, p, q) <=> Owns(T, p, q)

\* Whom the attributions of two sets credit.
LEMMA OwnsEither ==
  ASSUME NEW S, NEW T, NEW p, NEW q
  PROVE  Owns(S \cup T, p, q) <=> Owns(S, p, q) \/ Owns(T, p, q)
  BY DEF Owns

\* Joining two of one owner keeps what they cover.
LEMMA JoinedIs ==
  ASSUME NEW B \in Nat, NEW Q, Credits(Q), NEW a \in AttsOf(B, Q), NEW b \in AttsOf(B, Q),
         NEW c, c = Att(a.start, Higher(a.end, b.end), a.author, a.ts)
  PROVE  /\ c \in AttsOf(B, Q) /\ c.start = a.start
         /\ Joins(a, b) /\ a.start <= b.start => SameOwners({c}, {a} \cup {b})
  <1> DEFINE e == Higher(a.end, b.end)
  <1>1. /\ a.start \in Nat /\ a.end \in Nat /\ a.start <= a.end /\ a.end <= B /\ Who(a) \in Q
        /\ b.start \in Nat /\ b.end \in Nat /\ b.start <= b.end /\ b.end <= B
    BY CreditedAtt
  <1>2. e \in Nat /\ a.end <= e /\ b.end <= e /\ (e = a.end \/ e = b.end)
    BY <1>1 DEF Higher
  <1>3. c = Att(a.start, e, a.author, a.ts)
    OBVIOUS
  <1> HIDE DEF e
  <1>4. c.start = a.start /\ c.end = e /\ Who(c) = Who(a)
    BY <1>3, AttFields DEF Who
  <1>5. a.start <= e /\ e <= B
    BY <1>1, <1>2
  <1>6. c \in AttsOf(B, Q)
    BY <1>1, <1>2, <1>3, <1>5, AttIn DEF Who
  <1>7. ASSUME Joins(a, b), a.start <= b.start, NEW p \in Nat, NEW q
        PROVE  Owns({c}, p, q) <=> Owns({a} \cup {b}, p, q)
    <2>1. Who(a) = Who(b) /\ b.start <= a.end
      BY <1>7 DEF Joins, Who
    <2>2. c.start <= p /\ p < c.end <=> (a.start <= p /\ p < a.end) \/ (b.start <= p /\ p < b.end)
      BY <1>1, <1>2, <1>4, <1>7, <2>1
    <2> QED BY <1>4, <2>1, <2>2 DEF Owns
  <1> QED BY <1>4, <1>6, <1>7 DEF SameOwners

\* A deletion marker in S is one of T.
MarksFrom(S, T) == \A a \in S : a.start = a.end => a \in T

\* Merging attributions takes nothing from anybody, gives nothing to anybody, and
\* marks no deletion.
LEMMA MergeIs ==
  ASSUME NEW B \in Nat, NEW Q, Credits(Q), NEW S, S \subseteq AttsOf(B, Q)
  PROVE  /\ MergeAttributions(S) \subseteq AttsOf(B, Q)
         /\ SameOwners(MergeAttributions(S), S)
         /\ MarksFrom(MergeAttributions(S), S)
  <1> DEFINE sorted == Ordered(S, Before)
             N == Len(sorted)
             T == AttsOf(B, Q)
             V == [shut : SUBSET T, open : SUBSET T]
             grown(s, x) == {Att(a.start, Higher(a.end, x.end), a.author, a.ts) : a \in s.open}
             joining(s, x) == \E a \in s.open : Joins(a, x)
             step(k, s) == IF joining(s, sorted[k])
                           THEN [shut |-> s.shut, open |-> grown(s, sorted[k])]
                           ELSE [shut |-> s.shut \cup s.open, open |-> {sorted[k]}]
             b == [shut |-> {}, open |-> {}]
             h == [k \in 1 .. N |-> [s \in V |-> step(k, s)]]
             eqn(walk) == walk = [k \in 0 .. N |-> IF k = 0 THEN b ELSE step(k, walk[k - 1])]
             w == CHOOSE walk : eqn(walk)
  <1>1. MergeAttributions(S) = w[N].shut \cup w[N].open
    BY DEF MergeAttributions
  <1>2. /\ N \in Nat /\ \A k \in 1 .. N : sorted[k] \in S /\ sorted[k] \in T
        /\ \A a \in S : \E k \in 1 .. N : sorted[k] = a
        /\ \A j, k \in 1 .. N : j < k => sorted[j].start <= sorted[k].start
    BY AttsInOrder
  <1> HIDE DEF sorted, N
  <1>3. ASSUME NEW k \in 1 .. N, NEW s \in V PROVE step(k, s) \in V
    <2>1. s.shut \subseteq T /\ s.open \subseteq T /\ {sorted[k]} \subseteq T
      BY <1>2
    <2>2. grown(s, sorted[k]) \subseteq T
      BY <2>1, <1>2, JoinedIs
    <2> HIDE DEF grown, joining, T
    <2> QED BY <2>1, <2>2
  <1>4. b \in V
    OBVIOUS
  <1> HIDE DEF V, b
  <1>5. h \in [1 .. N -> [V -> V]]
    <2> HIDE DEF step
    <2> QED BY <1>3
  <1>6. \A k \in 1 .. N, s \in V : h[k][s] = step(k, s)
    <2> HIDE DEF step
    <2> QED OBVIOUS
  <1> HIDE DEF h
  <1>8. PICK f \in [0 .. N -> V] : f[0] = b /\ \A k \in 1 .. N : f[k] = h[k][f[k - 1]]
    <2> HIDE DEF step, eqn, w
    <2>1. N \in Nat
      BY <1>2
    <2>2. Walks(V, N, b, h) # {}
      BY <2>1, <1>4, <1>5, WalkExists
    <2> QED BY <2>2 DEF Walks
  <1>9. eqn(f)
    <2> HIDE DEF step
    <2>1. ASSUME NEW k \in 0 .. N PROVE f[k] = IF k = 0 THEN b ELSE step(k, f[k - 1])
      <3>1. CASE k = 0
        BY <3>1, <1>8
      <3>2. CASE k # 0
        <4>1. k \in 1 .. N /\ k - 1 \in 0 .. N
          BY <3>2, <1>2
        <4> QED BY <3>2, <4>1, <1>6, <1>8
      <3> QED BY <3>1, <3>2
    <2>2. f = [k \in 0 .. N |-> f[k]]
      OBVIOUS
    <2> QED BY <2>1, <2>2
  <1>10. eqn(w)
    <2> HIDE DEF eqn
    <2> QED BY <1>9
  <1>11. w[0] = b /\ \A k \in 1 .. N : w[k] = step(k, w[k - 1])
    <2> HIDE DEF w, step
    <2>1. \A k \in 0 .. N : w[k] = IF k = 0 THEN b ELSE step(k, w[k - 1])
      BY <1>10
    <2>2. 0 \in 0 .. N /\ \A k \in 1 .. N : k \in 0 .. N /\ k # 0
      BY <1>2
    <2> QED BY <2>1, <2>2
  <1> HIDE DEF w
  <1> DEFINE Upon(k) == {sorted[j] : j \in 1 .. k}
             Held(s) == s.shut \cup s.open
             One(k, s) == s.open # {} => \E o : s.open = {o} /\ \E j \in 1 .. k : o.start = sorted[j].start
             Good(k) == /\ w[k] \in V /\ One(k, w[k]) /\ SameOwners(Held(w[k]), Upon(k))
                        /\ MarksFrom(Held(w[k]), Upon(k))
             bad == {k \in 0 .. N : ~ Good(k)}
  <1>12. Good(0)
    <2>1. w[0] = b /\ b \in V /\ Held(b) = {} /\ b.open = {}
      BY <1>11, <1>4 DEF b
    <2>2. Upon(0) = {}
      OBVIOUS
    <2>3. SameOwners({}, {}) /\ MarksFrom({}, {})
      BY DEF SameOwners, MarksFrom
    <2> HIDE DEF Upon, Held
    <2> QED BY <2>1, <2>2, <2>3
  <1>13. ASSUME NEW k \in 1 .. N, Good(k - 1) PROVE Good(k)
    <2> DEFINE s == w[k - 1]
               x == sorted[k]
    <2>1. w[k] = step(k, s) /\ s \in V /\ k - 1 \in Nat /\ k \in Nat
      <3> HIDE DEF step, One, Held, Upon
      <3> QED BY <1>11, <1>13, <1>2
    <2>2. step(k, s) \in V
      <3> HIDE DEF step, s
      <3> QED BY <2>1, <1>3
    <2>3. x \in T /\ s.open \subseteq T /\ s.shut \subseteq T
      BY <1>2, <2>1 DEF V
    <2>4. One(k - 1, s) /\ SameOwners(Held(s), Upon(k - 1)) /\ MarksFrom(Held(s), Upon(k - 1))
      BY <1>13
    <2>5. Upon(k) = Upon(k - 1) \cup {x}
      <3>1. \A j \in 1 .. k : j = k \/ j \in 1 .. (k - 1)
        BY <2>1
      <3>2. k \in 1 .. k /\ \A j \in 1 .. (k - 1) : j \in 1 .. k
        BY <2>1
      <3> QED BY <3>1, <3>2
    <2> DEFINE t == step(k, s)
    <2>6. /\ One(k, t) /\ MarksFrom(Held(t), Held(s) \cup {x})
          /\ \A p \in Nat : \A q : Owns(Held(t), p, q) <=> Owns(Held(s), p, q) \/ Owns({x}, p, q)
      <3>1. CASE joining(s, x)
        <4>1. t.shut = s.shut /\ t.open = grown(s, x)
          BY <3>1
        <4>2. s.open # {}
          BY <3>1
        <4>3. PICK o : s.open = {o} /\ \E j \in 1 .. (k - 1) : o.start = sorted[j].start
          BY <2>4, <4>2
        <4>4. PICK j \in 1 .. (k - 1) : o.start = sorted[j].start
          BY <4>3
        <4>5. o \in T /\ Joins(o, x) /\ o.start <= x.start
          <5>1. j \in 1 .. N /\ j < k
            BY <1>2, <2>1
          <5>2. sorted[j].start <= sorted[k].start
            BY <5>1, <1>2
          <5> QED BY <2>3, <3>1, <4>3, <4>4, <5>2
        <4> DEFINE c == Att(o.start, Higher(o.end, x.end), o.author, o.ts)
        <4>6. t.open = {c}
          BY <4>1, <4>3
        <4>a. c.start < c.end
          <5>1. o.start < o.end
            BY <4>5 DEF Joins
          <5>2. o.start \in Nat /\ o.end \in Nat /\ x.end \in Nat
            BY <2>3, <4>5, CreditedAtt
          <5>3. c.start = o.start /\ c.end = Higher(o.end, x.end)
            BY DEF Att
          <5> HIDE DEF c, x, t, step, joining, grown, s
          <5> QED BY <5>1, <5>2, <5>3 DEF Higher
        <4>7. c.start = o.start /\ SameOwners({c}, {o} \cup {x})
          <5>1. c = Att(o.start, Higher(o.end, x.end), o.author, o.ts)
            OBVIOUS
          <5> HIDE DEF c, x, t, step, joining, grown, s
          <5>2. o \in AttsOf(B, Q) /\ x \in AttsOf(B, Q) /\ Joins(o, x) /\ o.start <= x.start
            BY <2>3, <4>5
          <5> HIDE DEF T
          <5> QED BY <5>1, <5>2, JoinedIs
        <4> HIDE DEF t, c, x, step, joining, grown, s
        <4>8. One(k, t)
          <5>1. j \in 1 .. k
            BY <2>1
          <5> QED BY <4>4, <4>6, <4>7, <5>1
        <4>9. Held(t) = s.shut \cup {c} /\ Held(s) = s.shut \cup {o}
          BY <4>1, <4>3, <4>6
        <4>10. MarksFrom(Held(t), Held(s) \cup {x})
          <5> HIDE DEF Held
          <5>1. c.start # c.end
            <6>1. c.start \in Nat /\ c.end \in Nat
              <7>1. o.start \in Nat /\ o.end \in Nat /\ x.end \in Nat
                BY <2>3, <4>5, CreditedAtt
              <7> QED BY <7>1 DEF c, Att, Higher
            <6> QED BY <4>a, <6>1
          <5>2. s.shut \subseteq Held(s)
            BY DEF Held
          <5> QED BY <4>9, <5>1, <5>2 DEF MarksFrom
        <4> QED BY <4>7, <4>8, <4>9, <4>10, OwnsEither DEF SameOwners
      <3>2. CASE ~ joining(s, x)
        <4>1. t.shut = s.shut \cup s.open /\ t.open = {x}
          BY <3>2
        <4> HIDE DEF t, step, joining, grown, s
        <4>2. One(k, t)
          <5>1. k \in 1 .. k
            BY <2>1
          <5> QED BY <4>1, <5>1
        <4>3. Held(t) = Held(s) \cup {x}
          BY <4>1
        <4> HIDE DEF Held
        <4>4. MarksFrom(Held(t), Held(s) \cup {x})
          BY <4>3 DEF MarksFrom
        <4> QED BY <4>2, <4>3, <4>4, OwnsEither
      <3> QED BY <3>1, <3>2
    <2> HIDE DEF t, step, s, x, Upon, Held, One
    <2>7. SameOwners(Held(t), Upon(k))
      <3>1. \A p \in Nat : \A q : Owns(Upon(k), p, q) <=> Owns(Upon(k - 1), p, q) \/ Owns({x}, p, q)
        BY <2>5, OwnsEither
      <3> QED BY <3>1, <2>4, <2>6 DEF SameOwners
    <2>8. MarksFrom(Held(t), Upon(k))
      BY <2>4, <2>5, <2>6 DEF MarksFrom
    <2> QED BY <2>1, <2>2, <2>6, <2>7, <2>8 DEF t
  <1> HIDE DEF Good
  <1>14. Good(N)
    <2>1. SUFFICES ASSUME ~ Good(N) PROVE FALSE
      OBVIOUS
    <2>2. N \in bad /\ bad \subseteq Nat
      BY <2>1, <1>2
    <2>3. PICK k \in bad : \A j \in bad : k <= j
      <3> HIDE DEF bad
      <3> QED BY <2>2, LeastNat
    <2>4. k # 0 /\ k \in 0 .. N
      BY <1>12
    <2>5. k \in 1 .. N /\ k - 1 \in 0 .. N /\ ~ (k <= k - 1)
      BY <2>4, <1>2
    <2>6. k - 1 \notin bad
      <3> HIDE DEF bad
      <3> QED BY <2>3, <2>5
    <2>7. Good(k - 1)
      BY <2>5, <2>6
    <2>8. Good(k)
      BY <1>13, <2>5, <2>7
    <2> QED BY <2>8
  <1>15. Upon(N) = S
    BY <1>2
  <1>16. /\ w[N].shut \subseteq T /\ w[N].open \subseteq T
         /\ SameOwners(w[N].shut \cup w[N].open, Upon(N))
         /\ MarksFrom(w[N].shut \cup w[N].open, Upon(N))
    BY <1>14 DEF Good, V
  <1> HIDE DEF Upon
  <1> QED BY <1>1, <1>15, <1>16

----------------------------------------------------------------------------
(* What an update promises *)

\* More may be credited, in a longer text.
LEMMA MoreAtts ==
  ASSUME NEW B \in Nat, NEW C \in Nat, B <= C, NEW Q, NEW R, Q \subseteq R, Credits(Q)
  PROVE  AttsOf(B, Q) \subseteq AttsOf(C, R)
  <1> SUFFICES ASSUME NEW a \in AttsOf(B, Q) PROVE a \in AttsOf(C, R)
    OBVIOUS
  <1>1. /\ a.start \in Nat /\ a.end \in Nat /\ a.start <= a.end /\ a.end <= B /\ Who(a) \in Q
        /\ a = Att(a.start, a.end, a.author, a.ts)
    BY CreditedAtt
  <1>2. a.end <= C /\ <<a.author, a.ts>> \in R
    <2>1. a.end <= C
      BY <1>1
    <2> QED BY <1>1, <2>1 DEF Who
  <1>3. Att(a.start, a.end, a.author, a.ts) \in AttsOf(C, R)
    BY <1>1, <1>2, AttIn
  <1> QED BY <1>1, <1>3

\* One author more.
LEMMA MoreCredits ==
  ASSUME NEW Q, Credits(Q), NEW author \in Authors, NEW ts \in Nat
  PROVE  Credits(Q \cup {<<author, ts>>})
  <1>1. IsFiniteSet(Q \cup {<<author, ts>>})
    BY FS_AddElement DEF Credits
  <1>2. <<author, ts>> \in Authors \X Nat
    OBVIOUS
  <1> QED BY <1>1, <1>2 DEF Credits

\* Once the gaps are filled, every byte is credited.
FilledIs(c, B, Q, author, ts, filled) ==
  filled \subseteq AttsOf(B, Q \cup {<<author, ts>>}) /\ AllOwned(c, filled)

\* Filling the gaps leaves no byte without an owner, and invents none but the author.
LEMMA FillGapsIs ==
  ASSUME NEW c \in Seq(Symbols), NEW B \in Nat, Len(c) <= B, NEW Q, Credits(Q),
         NEW atts, atts \subseteq AttsOf(B, Q), NEW author \in Authors, NEW ts \in Nat
  PROVE  FilledIs(c, B, Q, author, ts, FillGaps(c, atts, author, ts))
  <1> DEFINE s == Span(0, Len(c))
             mapped == {a \in atts : a.start < a.end}
             U == Uncovered(s, mapped, author, ts)
             R == Q \cup {<<author, ts>>}
  <1>0. Len(c) \in Nat
    BY LenProperties
  <1>1. s.start = 0 /\ s.end = Len(c)
    BY DEF Span
  <1>2. Spans(mapped)
    BY CreditedAtt DEF Spans
  <1>3. FillGaps(c, atts, author, ts) = atts \cup U
    BY DEF FillGaps
  <1>4. Credits(R) /\ Q \subseteq R /\ <<author, ts>> \in R
    BY MoreCredits
  <1> HIDE DEF s, R
  <1>5. AttsOf(B, Q) \subseteq AttsOf(B, R)
    BY <1>4, MoreAtts
  <1>6. \A b \in U : /\ b.start \in Nat /\ b.end \in Nat /\ b.start < b.end
                     /\ b.end <= s.end /\ b = Att(b.start, b.end, author, ts)
    <2> HIDE DEF mapped
    <2> QED BY <1>0, <1>1, <1>2, UncoveredIs
  <1>7. \A p \in Nat : Covers(s, p) /\ (\A m \in mapped : ~ Covers(m, p)) => \E b \in U : Covers(b, p)
    <2> HIDE DEF mapped
    <2> QED BY <1>0, <1>1, <1>2, UncoveredIs
  <1> HIDE DEF U
  <1>8. U \subseteq AttsOf(B, R)
    <2> SUFFICES ASSUME NEW b \in U PROVE b \in AttsOf(B, R)
      OBVIOUS
    <2>1. /\ b.start \in Nat /\ b.end \in Nat /\ b.start <= b.end /\ b.end <= B
          /\ b = Att(b.start, b.end, author, ts)
      BY <1>0, <1>1, <1>6
    <2>2. Att(b.start, b.end, author, ts) \in AttsOf(B, R)
      BY <1>4, <2>1, AttIn
    <2> QED BY <2>1, <2>2
  <1>9. ASSUME NEW p \in Nat, p < Len(c) PROVE \E a \in atts \cup U : Covers(a, p)
    <2>1. Covers(s, p)
      BY <1>1, <1>9, <1>0 DEF Covers
    <2>2. CASE \E m \in mapped : Covers(m, p)
      BY <2>2
    <2>3. CASE \A m \in mapped : ~ Covers(m, p)
      <3> HIDE DEF mapped
      <3> QED BY <1>7, <2>1, <2>3
    <2> QED BY <2>2, <2>3
  <1>10. AllOwned(c, atts \cup U)
    BY <1>9 DEF AllOwned
  <1>11. atts \cup U \subseteq AttsOf(B, R)
    BY <1>5, <1>8
  <1> QED BY <1>3, <1>10, <1>11 DEF FilledIs, R

\* Deletion markers are at deletions.
MarksAre(diffs, atts) ==
  \A a \in atts : a.start = a.end => \E d \in diffs : d.op = "Delete" /\ a.start = d.new.start

\* Only a deletion that moved nothing leaves a marker.
LEMMA PartMarks ==
  ASSUME NEW u, NEW B, NEW Q, UpdateIs(u, B, Q), NEW d \in u.diffs,
         NEW nw \in SUBSET AttsOf(B, Q), NEW gap, NEW a \in Part(u, d, nw, gap).atts, a.start = a.end
  PROVE  d.op = "Delete" /\ a.start = d.new.start
  <1>0. a.start = a.end
    OBVIOUS
  <1>1. DiffIs(u.old, u.new, d)
    BY DEF UpdateIs, Script
  <1>2. ASSUME NEW jumps, a \in Carry(u.atts, jumps).atts,
               \A j \in jumps : j.source.start \in Nat /\ j.source.end \in Nat /\ j.target.start \in Nat
        PROVE  FALSE
    <2>1. PICK b \in u.atts, j \in jumps : a \in Carried(b, j)
      BY <1>2, CarryIs
    <2>2. b.start \in Nat /\ b.end \in Nat
      BY OldAtt
    <2>3. a.start \in Nat /\ a.end \in Nat /\ a.start < a.end
      BY <1>2, <2>1, <2>2, CarriedIs
    <2> QED BY <2>3
  <1>3. CASE d.op = "Equal"
    <2> DEFINE jumps == {[source |-> d.old, target |-> d.new]}
    <2>1. a \in Carry(u.atts, jumps).atts
      BY <1>3, KeptIs
    <2>2. \A j \in jumps : j.source.start \in Nat /\ j.source.end \in Nat /\ j.target.start \in Nat
      BY <1>1 DEF DiffIs, Inside
    <2> HIDE DEF jumps
    <2> QED BY <1>2, <2>1, <2>2
  <1>4. CASE d.op = "Delete" /\ MovedOut(u, d) # {}
    <2>1. a \in Carry(u.atts, MovedOut(u, d)).atts
      BY <1>4, DeletedIs
    <2>2. \A m \in MovedOut(u, d) : m \in u.moves
      BY DEF MovedOut, DistinctMoves
    <2>3. \A m \in MovedOut(u, d) : m.source.start \in Nat /\ m.source.end \in Nat /\ m.target.start \in Nat
      BY <2>2, MoveSpans
    <2> QED BY <1>2, <2>1, <2>3
  <1>5. CASE d.op = "Delete" /\ MovedOut(u, d) = {}
    <2>1. a \in Owned(d, u).atts
      BY <1>5, DeletedIs
    <2> QED BY <1>5, <2>1, OwnedIs
  <1>6. CASE d.op = "Insert"
    <2>1. d.new.start \in Nat /\ d.new.end \in Nat /\ d.new.start < d.new.end
      BY <1>1, <1>6 DEF DiffIs, Inside
    <2>2. EitherPart(u, d, Part(u, d, nw, gap).atts)
      BY <1>6, InsertedEither
    <2>3. CASE a \in Uncovered(d.new, MovedIn(u, d), u.author, u.ts)
      <3>1. Spans(MovedIn(u, d))
        BY MoveSpans DEF Spans, MovedIn
      <3>2. a.start \in Nat /\ a.end \in Nat /\ a.start < a.end
        BY <2>1, <2>3, <3>1, UncoveredIs
      <3> QED BY <3>2
    <2>4. ASSUME NEW by, a \in Owned(d, by).atts PROVE FALSE
      <3>1. a.start = d.new.start /\ a.end = d.new.end
        BY <2>4, OwnedIs
      <3>2. d.new.start = d.new.end
        BY <1>0, <3>1
      <3> QED BY <2>1, <3>2
    <2> QED BY <2>2, <2>3, <2>4 DEF EitherPart
  <1> QED BY <1>1, <1>3, <1>4, <1>5, <1>6 DEF DiffIs

\* Moves that take the same text along, each deletion once.
MovesClean(old, new, moves) ==
  /\ \A m \in moves : Text(old, m.source) = Text(new, m.target)
  /\ \A m, n \in moves : m.del = n.del /\ m.source = n.source => m = n

\* What an update of attributions achieves.
KeepsOwners(diffs, before, after) ==
  \A d \in diffs : d.op = "Equal" =>
    \A i \in Nat : i < d.old.end - d.old.start =>
      \A q : Owns(after, d.new.start + i, q) <=> Owns(before, d.old.start + i, q)

\* What is inserted, and not moved there, is the update's author's.
NamesAuthor(new, diffs, moves, after, author, ts, ai) ==
  \A d \in diffs : d.op = "Insert" =>
    \A p \in Nat : /\ Covers(d.new, p)
                   /\ \A m \in moves : ~ Covers(m.target, p)
                   /\ ai \/ new[p + 1] \notin Blanks
      => \A q : Owns(after, p, q) <=> q = <<author, ts>>

\* What update_attributions promises.
UpdateOK(old, new, B, Q, atts, author, ts, ai, r) ==
  /\ Script(old, new, r.diffs)
  /\ \A m \in r.moves : MoveIs(r.diffs, m)
  /\ r.atts \subseteq AttsOf(B, Q) /\ MarksAre(r.diffs, r.atts)
  /\ MovesClean(old, new, r.moves) =>
       /\ AllOwned(old, atts) => AllOwned(new, r.atts)
       /\ KeepsOwners(r.diffs, atts, r.atts)
       /\ NamesAuthor(new, r.diffs, r.moves, r.atts, author, ts, ai)

\* It keeps its promise.
LEMMA UpdateResult ==
  ASSUME NEW old \in Seq(Symbols), NEW new \in Seq(Symbols), NEW B \in Nat, Len(old) + Len(new) <= B,
         NEW Q, Credits(Q), NEW atts, atts \subseteq AttsOf(B, Q),
         NEW author, NEW ts, <<author, ts>> \in Q, NEW ai,
         NEW r \in UpdateAttributions(old, new, atts, author, ts, ai)
  PROVE  UpdateOK(old, new, B, Q, atts, author, ts, ai, r)
  <1> DEFINE Dels(c) == Deletions(c.diffs)
             Adds(c) == Insertions(c.diffs)
             Moves(c) == IF ai \/ SkipMoves(old, new, Dels(c), Adds(c)) THEN {}
                         ELSE DetectMoves(old, new, Dels(c), Adds(c))
             U(c) == [old |-> old, new |-> new, diffs |-> c.diffs, fresh |-> c.fresh, moves |-> Moves(c),
                      atts |-> atts, author |-> author, ts |-> ts, ai |-> ai]
  <1>1. PICK c \in ComputeDiffs(old, new, ai) :
          r = [diffs |-> c.diffs, moves |-> Moves(c), atts |-> MergeAttributions(Transform(U(c)))]
    BY DEF UpdateAttributions
  <1> DEFINE u == U(c)
             A == Transform(u)
  <1>2. Script(old, new, c.diffs) /\ (~ ai => Substantive(new, c.diffs, c.fresh))
    BY DiffsAreScript
  <1>3. Apart(old, Dels(c)) /\ Apart(new, Adds(c))
    BY <1>2, SpansApart
  <1>4. \A m \in Moves(c) : MoveIs(c.diffs, m)
    <2> SUFFICES ASSUME NEW m \in DetectMoves(old, new, Dels(c), Adds(c)) PROVE MoveIs(c.diffs, m)
      OBVIOUS
    <2>1. MoveThreshold \in Nat
      BY TrackerAssumption
    <2>2. /\ m.del \in Dels(c) /\ m.ins \in Adds(c)
          /\ Within1(m.source, m.del) /\ Within1(m.target, m.ins)
      <3> HIDE DEF Dels, Adds
      <3> QED BY <1>3, <2>1, MovesAre
    <2> QED BY <2>2 DEF MoveIs, Deletions, Insertions
  <1>5. r.diffs = c.diffs /\ r.moves = Moves(c) /\ r.atts = MergeAttributions(A)
    BY <1>1
  <1>6. /\ u.old = old /\ u.new = new /\ u.diffs = c.diffs /\ u.fresh = c.fresh /\ u.moves = Moves(c)
        /\ u.atts = atts /\ u.author = author /\ u.ts = ts /\ u.ai = ai
    OBVIOUS
  <1> HIDE DEF u, Moves
  <1>7. UpdateIs(u, B, Q)
    BY <1>2, <1>4, <1>6, CreditsArePairs DEF UpdateIs
  <1>8. PartsAre(u, B, Q, A) /\ A \subseteq AttsOf(B, Q)
    BY <1>7, TransformIs
  <1> HIDE DEF A
  <1>9. r.atts \subseteq AttsOf(B, Q) /\ SameOwners(r.atts, A) /\ MarksFrom(r.atts, A)
    BY <1>5, <1>8, MergeIs
  <1>a. MarksAre(r.diffs, r.atts)
    <2> SUFFICES ASSUME NEW a \in r.atts, a.start = a.end
                 PROVE  \E d \in c.diffs : d.op = "Delete" /\ a.start = d.new.start
      BY <1>5 DEF MarksAre
    <2>1. a \in A
      BY <1>9 DEF MarksFrom
    <2>2. PICK d \in u.diffs, nw \in SUBSET AttsOf(B, Q), gap \in BOOLEAN : a \in Part(u, d, nw, gap).atts
      BY <1>8, <2>1 DEF PartsAre
    <2>3. d.op = "Delete" /\ a.start = d.new.start
      BY <1>7, <2>2, PartMarks
    <2> QED BY <1>6, <2>3
  <1>10. ASSUME MovesClean(old, new, r.moves)
         PROVE  /\ AllOwned(old, atts) => AllOwned(new, r.atts)
                /\ KeepsOwners(r.diffs, atts, r.atts)
                /\ NamesAuthor(new, r.diffs, r.moves, r.atts, author, ts, ai)
    <2>1. CleanMovesOf(u)
      BY <1>5, <1>6, <1>10 DEF MovesClean, CleanMovesOf
    <2>2. ASSUME AllOwned(old, atts) PROVE AllOwned(new, r.atts)
      <3>1. AllOwned(new, A)
        BY <1>6, <1>7, <1>8, <2>1, <2>2, NewOwned
      <3> SUFFICES ASSUME NEW p \in Nat, p < Len(new) PROVE \E a \in r.atts : Covers(a, p)
        BY DEF AllOwned
      <3>2. PICK a \in A : Covers(a, p)
        BY <3>1 DEF AllOwned
      <3>3. Owns(A, p, Who(a))
        BY <3>2 DEF Owns, Covers
      <3>4. Owns(r.atts, p, Who(a))
        BY <1>9, <3>3 DEF SameOwners
      <3> QED BY <3>4 DEF Owns, Covers
    <2>3. KeepsOwners(r.diffs, atts, r.atts)
      <3> SUFFICES ASSUME NEW d \in c.diffs, d.op = "Equal", NEW i \in Nat, i < d.old.end - d.old.start, NEW q
                   PROVE  Owns(r.atts, d.new.start + i, q) <=> Owns(atts, d.old.start + i, q)
        BY <1>5 DEF KeepsOwners
      <3>1. d \in u.diffs
        BY <1>6
      <3>2. Owns(A, d.new.start + i, q) <=> Owns(u.atts, d.old.start + i, q)
        BY <1>7, <1>8, <2>1, <3>1, KeptOwners
      <3>3. d.new.start + i \in Nat
        BY <1>2, ScriptNat
      <3> QED BY <1>6, <1>9, <3>2, <3>3 DEF SameOwners
    <2>4. NamesAuthor(new, r.diffs, r.moves, r.atts, author, ts, ai)
      <3> SUFFICES ASSUME NEW d \in c.diffs, d.op = "Insert", NEW p \in Nat, Covers(d.new, p),
                          \A m \in r.moves : ~ Covers(m.target, p),
                          ai \/ new[p + 1] \notin Blanks, NEW q
                   PROVE  Owns(r.atts, p, q) <=> q = <<author, ts>>
        BY <1>5 DEF NamesAuthor
      <3>1. /\ d \in u.diffs /\ \A m \in u.moves : ~ Covers(m.target, p)
            /\ u.ai \/ u.new[p + 1] \notin Blanks
            /\ ~ u.ai => Substantive(u.new, u.diffs, u.fresh)
        BY <1>2, <1>5, <1>6
      <3>2. Owns(A, p, q) <=> q = <<u.author, u.ts>>
        BY <1>7, <1>8, <2>1, <3>1, InsertedOwners
      <3> QED BY <1>6, <1>9, <3>2 DEF SameOwners
    <2> QED BY <2>2, <2>3, <2>4
  <1> QED BY <1>2, <1>4, <1>5, <1>9, <1>10, <1>a DEF UpdateOK

----------------------------------------------------------------------------
(* Lines and attributions *)

\* Line attributions, of the given authors.
LinesOf(ls, W) ==
  \A l \in ls : l.first \in Nat /\ l.last \in Nat /\ l.first <= l.last /\ l.author \in W

\* Lines of authors become attributions that credit them.
LEMMA LinesBecomeAtts ==
  ASSUME NEW c \in Seq(Symbols), NEW ts \in Nat, NEW W, W \subseteq Authors, IsFiniteSet(W),
         NEW ls, LinesOf(ls, W)
  PROVE  \E Q : Credits(Q) /\ LinesToAttributions(ls, c, ts) \subseteq AttsOf(Len(c), Q)
                /\ \A q \in Q : q[2] = ts
  <1> DEFINE Q == {<<a, ts>> : a \in W}
             l == Lines(c)
             R == LinesToAttributions(ls, c, ts)
  <1>1. Credits(Q)
    <2>1. Q \subseteq Authors \X Nat
      OBVIOUS
    <2>2. IsFiniteSet(Q)
      <3> DEFINE f == [a \in W |-> <<a, ts>>]
      <3>1. f \in [W -> Q] /\ \A q \in Q : \E a \in W : f[a] = q
        OBVIOUS
      <3> HIDE DEF f, Q
      <3> QED BY <3>1, FiniteImage
    <2> QED BY <2>1, <2>2 DEF Credits
  <1>2. \A q \in Q : q[2] = ts
    OBVIOUS
  <1>3. \A a \in W : <<a, ts>> \in Q
    OBVIOUS
  <1>4. Len(c) \in Nat
    BY LenProperties
  <1> HIDE DEF Q
  <1>5. ASSUME NEW a \in R PROVE a \in AttsOf(Len(c), Q)
    <2>1. PICK k \in ls : {k.first, k.last} \subseteq DOMAIN l
                          /\ a = Att(l[k.first].start, l[k.last].end, k.author, ts)
      BY DEF LinesToAttributions
    <2>2. /\ k.first \in DOMAIN l /\ k.last \in DOMAIN l
          /\ k.first \in Nat /\ k.last \in Nat /\ k.first <= k.last /\ k.author \in W
      BY <2>1 DEF LinesOf
    <2>3. /\ l[k.first].start \in Nat /\ l[k.first].end \in Nat /\ l[k.first].start < l[k.first].end
          /\ l[k.last].start \in Nat /\ l[k.last].end \in Nat /\ l[k.last].start < l[k.last].end
          /\ l[k.last].end <= Len(c)
      BY <2>2, LinesFacts
    <2>4. k.first < k.last => l[k.first].end <= l[k.last].start
      BY <2>2, LinesFacts
    <2>5. l[k.first].start <= l[k.last].end
      <3>1. CASE k.first = k.last
        BY <2>3, <3>1
      <3>2. CASE k.first < k.last
        BY <2>3, <2>4, <3>2
      <3> QED BY <2>2, <3>1, <3>2
    <2>6. Att(l[k.first].start, l[k.last].end, k.author, ts) \in AttsOf(Len(c), Q)
      BY <1>3, <1>4, <2>2, <2>3, <2>5, AttIn
    <2> QED BY <2>1, <2>6
  <1> QED BY <1>1, <1>2, <1>5

\* Some attribution is the newest.
LEMMA NewestExists ==
  ASSUME NEW B \in Nat, NEW Q, Credits(Q), NEW S, S \subseteq AttsOf(B, Q), S # {}
  PROVE  \E a \in S : \A b \in S : b.ts <= a.ts
  <1> DEFINE X == {a.ts : a \in S}
             f == [a \in S |-> a.ts]
  <1>1. \A a \in S : a.ts \in Nat
    BY CreditedAtt
  <1>2. IsFiniteSet(S)
    BY CreditsArePairs, AttsFinite, FS_Subset
  <1>3. f \in [S -> X] /\ \A y \in X : \E a \in S : f[a] = y
    OBVIOUS
  <1>4. X \subseteq Nat /\ X # {}
    BY <1>1
  <1>5. \A a \in S : a.ts \in X
    OBVIOUS
  <1>6. \A y \in X : \E a \in S : a.ts = y
    OBVIOUS
  <1> HIDE DEF f, X
  <1>7. IsFiniteSet(X) /\ X \subseteq Int
    <2>1. IsFiniteSet(X)
      BY <1>2, <1>3, FiniteImage
    <2> QED BY <1>4, <2>1
  <1> DEFINE s == Ordered(X, <)
             n == Cardinality(X)
  <1>8. /\ n \in Nat /\ s \in [1 .. n -> X] /\ \A x \in X : \E k \in 1 .. n : s[k] = x
        /\ \A j, k \in 1 .. n : j < k => s[j] < s[k]
    BY <1>7, NumbersInOrder
  <1> HIDE DEF s, n
  <1>9. n \in 1 .. n
    <2>1. PICK x \in X : TRUE
      BY <1>4
    <2>2. PICK k \in 1 .. n : s[k] = x
      BY <1>8
    <2> QED BY <1>8, <2>2
  <1>10. s[n] \in X
    BY <1>8, <1>9
  <1>11. PICK a \in S : a.ts = s[n]
    BY <1>6, <1>10
  <1>12. ASSUME NEW b \in S PROVE b.ts <= a.ts
    <2>1. PICK k \in 1 .. n : s[k] = b.ts
      BY <1>5, <1>8
    <2>2. k = n \/ k < n
      BY <1>8
    <2>3. b.ts \in Nat /\ a.ts \in Nat
      BY <1>1
    <2>4. CASE k = n
      BY <2>1, <2>3, <2>4, <1>11
    <2>5. CASE k < n
      <3>1. s[k] < s[n]
        BY <2>5, <1>8, <1>9
      <3> QED BY <2>1, <2>3, <3>1, <1>11
    <2> QED BY <2>2, <2>4, <2>5
  <1> QED BY <1>12

\* Some attribution comes first.
LEMMA FirstExists ==
  ASSUME NEW B \in Nat, NEW Q, Credits(Q), NEW S, S \subseteq AttsOf(B, Q), S # {}
  PROVE  \E a \in S : a \in First(S, Before)
  <1> DEFINE R == {z \in S \X S : Before(z[1], z[2])}
             rank == [x \in S |-> Cardinality({y \in S : <<y, x>> \in R})]
             s == ByRank(S, rank)
             n == Cardinality(S)
  <1>1. IsFiniteSet(S)
    BY CreditsArePairs, AttsFinite, FS_Subset
  <1>2. Orders(R, S)
    BY BeforeOrders
  <1>3. \A x, y \in S : <<x, y>> \in R => Before(x, y)
    OBVIOUS
  <1>4. rank = [x \in S |-> Cardinality({y \in S : <<y, x>> \in R})]
    OBVIOUS
  <1> HIDE DEF R, rank
  <1>5. Lists(s, S, R)
    BY <1>1, <1>2, <1>4, InOrder
  <1> HIDE DEF s
  <1>6. /\ n \in Nat /\ s \in [1 .. n -> S] /\ \A x \in S : \E k \in 1 .. n : s[k] = x
        /\ \A j, k \in 1 .. n : j < k => <<s[j], s[k]>> \in R
    BY <1>5 DEF Lists
  <1> HIDE DEF n
  <1>7. 1 \in 1 .. n
    <2>1. PICK x \in S : TRUE
      OBVIOUS
    <2>2. PICK k \in 1 .. n : s[k] = x
      BY <1>6
    <2> QED BY <1>6, <2>2
  <1>8. s[1] \in S
    BY <1>6, <1>7
  <1>9. ASSUME NEW y \in S \ {s[1]} PROVE Before(s[1], y)
    <2>1. PICK k \in 1 .. n : s[k] = y
      BY <1>6
    <2>2. 1 < k
      BY <2>1, <1>6, <1>9
    <2>3. <<s[1], s[k]>> \in R
      BY <2>2, <1>6, <1>7
    <2> QED BY <2>1, <2>3, <1>3, <1>8
  <1>10. s[1] \in First(S, Before)
    BY <1>8, <1>9 DEF First
  <1> QED BY <1>8, <1>10

\* Who is named for a line is one of the owners, or the human.
LEMMA DominantIs ==
  ASSUME NEW B \in Nat, NEW Q, Credits(Q), NEW atts, atts \subseteq AttsOf(B, Q),
         NEW c, NEW line, NEW ai
  PROVE  DominantAuthor(c, line, atts, ai).author \in {Human} \cup {q[1] : q \in Q}
  <1> DEFINE candidates == {a \in atts : Counts(a, c, line, ai)}
             newest == {a \in candidates : \A b \in candidates : b.ts <= a.ts}
             chosen == CHOOSE a \in newest : a \in First(newest, Before)
  <1>1. candidates = {} => DominantAuthor(c, line, atts, ai).author = Human
    BY DEF DominantAuthor
  <1>2. candidates # {} => DominantAuthor(c, line, atts, ai).author = chosen.author
    BY DEF DominantAuthor
  <1>3. ASSUME candidates # {} PROVE chosen \in AttsOf(B, Q)
    <2>1. candidates \subseteq AttsOf(B, Q)
      OBVIOUS
    <2> HIDE DEF candidates
    <2>2. \E a \in candidates : \A b \in candidates : b.ts <= a.ts
      BY <1>3, <2>1, NewestExists
    <2>3. newest # {} /\ newest \subseteq AttsOf(B, Q)
      BY <2>1, <2>2
    <2> HIDE DEF newest
    <2>4. \E a \in newest : a \in First(newest, Before)
      BY <2>3, FirstExists
    <2>5. chosen \in newest
      BY <2>4
    <2> QED BY <2>3, <2>5
  <1> HIDE DEF candidates, chosen
  <1>4. CASE candidates = {}
    BY <1>1, <1>4
  <1>5. CASE candidates # {}
    <2>1. Who(chosen) \in Q
      BY <1>3, <1>5, CreditedAtt
    <2>2. Who(chosen)[1] = chosen.author
      BY DEF Who
    <2> QED BY <1>2, <1>5, <2>1, <2>2
  <1> QED BY <1>4, <1>5

\* Attributions become lines of the authors they credit.
LEMMA AttsBecomeLines ==
  ASSUME NEW B \in Nat, NEW Q, Credits(Q), NEW atts, atts \subseteq AttsOf(B, Q),
         NEW c \in Seq(Symbols), NEW ai
  PROVE  LinesOf(AttributionsToLines(atts, c, ai), {Human} \cup {q[1] : q \in Q})
  <1> DEFINE lines == Lines(c)
             who == [k \in DOMAIN lines |-> DominantAuthor(c, lines[k], atts, ai)]
             W == {Human} \cup {q[1] : q \in Q}
             runs == {r \in (DOMAIN who) \X (DOMAIN who) :
                        /\ r[1] <= r[2]
                        /\ \A k \in r[1]..r[2] : who[k] = who[r[1]]
                        /\ r[1] = 1 \/ who[r[1] - 1] # who[r[1]]
                        /\ r[2] = Len(lines) \/ who[r[2] + 1] # who[r[1]]}
  <1>1. \A l \in AttributionsToLines(atts, c, ai) : \E r \in runs :
          l = [first |-> r[1], last |-> r[2], author |-> who[r[1]].author, overrode |-> who[r[1]].overrode]
    BY DEF AttributionsToLines
  <1>2. \A k \in DOMAIN lines : who[k].author \in W
    <2>1. \A k \in DOMAIN lines : DominantAuthor(c, lines[k], atts, ai).author \in W
      BY DominantIs
    <2> HIDE DEF lines, W
    <2> QED BY <2>1
  <1>3. DOMAIN who = DOMAIN lines /\ DOMAIN lines \subseteq Nat
    <2>1. DOMAIN lines = 1 .. Len(lines)
      BY LinesFacts
    <2> HIDE DEF lines
    <2> QED BY <2>1
  <1> HIDE DEF who, W, lines
  <1>4. \A r \in runs : r[1] \in DOMAIN lines /\ r[2] \in DOMAIN lines /\ r[1] <= r[2]
    BY <1>3
  <1> HIDE DEF runs
  <1>5. ASSUME NEW l \in AttributionsToLines(atts, c, ai)
        PROVE  l.first \in Nat /\ l.last \in Nat /\ l.first <= l.last /\ l.author \in W
    <2>1. PICK r \in runs :
            l = [first |-> r[1], last |-> r[2], author |-> who[r[1]].author, overrode |-> who[r[1]].overrode]
      BY <1>1
    <2>2. l.first = r[1] /\ l.last = r[2] /\ l.author = who[r[1]].author
      BY <2>1
    <2> QED BY <2>2, <1>2, <1>3, <1>4
  <1> QED BY <1>5 DEF LinesOf, W

----------------------------------------------------------------------------
(* From the promise to the properties *)

\* What the update h says of the entry e that it made.
Account(h, e) ==
  /\ h.old \in Seq(Symbols) /\ e.content \in Seq(Symbols)
  /\ Script(h.old, e.content, h.diffs)
  /\ \A m \in h.moves : MoveIs(h.diffs, m)
  /\ \E B, Q : B \in Nat /\ Credits(Q) /\ h.before \subseteq AttsOf(B, Q) /\ e.atts \subseteq AttsOf(B, Q)
  /\ MarksAre(h.diffs, e.atts)
  /\ MovesClean(h.old, e.content, h.moves) =>
       /\ AllOwned(e.content, e.atts)
       /\ KeepsOwners(h.diffs, h.before, e.atts)
       /\ NamesAuthor(e.content, h.diffs, h.moves, e.atts, h.author, h.ts, h.kind = "Ai")

\* A span overlaps a byte that it covers.
LEMMA OverlapsHere ==
  ASSUME NEW s, s.start \in Nat, s.end \in Nat, NEW x \in Nat
  PROVE  Overlaps(s, x, x + 1) <=> s.start <= x /\ x < s.end
  BY DEF Overlaps

\* Of the diffs of a script one covers a byte of the old content that is kept or
\* deleted, and one a byte of the new content that is kept or inserted.
LEMMA OldOnce ==
  ASSUME NEW old \in Seq(Symbols), NEW new \in Seq(Symbols), NEW diffs, Script(old, new, diffs),
         NEW x \in Nat, x < Len(old)
  PROVE  \E d \in diffs : /\ d.op \in {"Equal", "Delete"} /\ Overlaps(d.old, x, x + 1)
                          /\ \A e \in diffs \ {d} : ~ Overlaps(e.old, x, x + 1)
  <1>1. PICK d \in diffs : d.op \in {"Equal", "Delete"} /\ d.old.start <= x /\ x < d.old.end
    BY DEF Script
  <1>2. \A e \in diffs : e.old.start \in Nat /\ e.old.end \in Nat
    BY ScriptNat
  <1>3. \A e \in diffs : Overlaps(e.old, x, x + 1) <=> e.old.start <= x /\ x < e.old.end
    BY <1>2, OverlapsHere
  <1>4. ASSUME NEW e \in diffs \ {d} PROVE ~ Overlaps(e.old, x, x + 1)
    <2>1. d = e \/ Ahead(d, e) \/ Ahead(e, d)
      BY DEF Script
    <2>2. d.old.end <= e.old.start \/ e.old.end <= d.old.start
      BY <2>1 DEF Ahead
    <2>3. ~ (e.old.start <= x /\ x < e.old.end)
      BY <1>1, <1>2, <2>2
    <2> QED BY <1>3, <2>3
  <1> QED BY <1>1, <1>3, <1>4

\* A byte of the new text is in one diff.
LEMMA NewOnce ==
  ASSUME NEW old \in Seq(Symbols), NEW new \in Seq(Symbols), NEW diffs, Script(old, new, diffs),
         NEW x \in Nat, x < Len(new)
  PROVE  \E d \in diffs : /\ d.op \in {"Equal", "Insert"} /\ Overlaps(d.new, x, x + 1)
                          /\ \A e \in diffs \ {d} : ~ Overlaps(e.new, x, x + 1)
  <1>1. PICK d \in diffs : d.op \in {"Equal", "Insert"} /\ d.new.start <= x /\ x < d.new.end
    BY DEF Script
  <1>2. \A e \in diffs : e.new.start \in Nat /\ e.new.end \in Nat
    BY ScriptNat
  <1>3. \A e \in diffs : Overlaps(e.new, x, x + 1) <=> e.new.start <= x /\ x < e.new.end
    BY <1>2, OverlapsHere
  <1>4. ASSUME NEW e \in diffs \ {d} PROVE ~ Overlaps(e.new, x, x + 1)
    <2>1. d = e \/ Ahead(d, e) \/ Ahead(e, d)
      BY DEF Script
    <2>2. d.new.end <= e.new.start \/ e.new.end <= d.new.start
      BY <2>1 DEF Ahead
    <2>3. ~ (e.new.start <= x /\ x < e.new.end)
      BY <1>1, <1>2, <2>2
    <2> QED BY <1>3, <2>3
  <1> QED BY <1>1, <1>3, <1>4

\* A text's bytes, from zero.
LEMMA ByteRangeIs ==
  ASSUME NEW c \in Seq(Symbols)
  PROVE  \A x : x \in ByteRange(c) <=> x \in Nat /\ x < Len(c)
  <1>1. Len(c) \in Nat
    BY LenProperties
  <1> QED BY <1>1 DEF ByteRange

\* The first part of BytesAccounted.
LEMMA AccountRebuilds ==
  ASSUME last # <<>> => Account(last[1], entry[1])
  PROVE  DiffsRebuildBoth
  <1> SUFFICES ASSUME last # <<>> PROVE DiffsRebuildBoth
    BY DEF DiffsRebuildBoth
  <1> DEFINE old == last[1].old
             new == entry[1].content
             diffs == last[1].diffs
  <1>1. old \in Seq(Symbols) /\ new \in Seq(Symbols) /\ Script(old, new, diffs)
    BY DEF Account
  <1>2. \A x \in ByteRange(old) :
          \E d \in diffs : /\ d.op \in {"Equal", "Delete"} /\ Overlaps(d.old, x, x + 1)
                           /\ \A e \in diffs \ {d} : ~ Overlaps(e.old, x, x + 1)
    <2> HIDE DEF old, new, diffs
    <2> QED BY <1>1, ByteRangeIs, OldOnce
  <1>3. \A x \in ByteRange(new) :
          \E d \in diffs : /\ d.op \in {"Equal", "Insert"} /\ Overlaps(d.new, x, x + 1)
                           /\ \A e \in diffs \ {d} : ~ Overlaps(e.new, x, x + 1)
    <2> HIDE DEF old, new, diffs
    <2> QED BY <1>1, ByteRangeIs, NewOnce
  <1>4. \A d \in diffs : d.op = "Equal" => Text(old, d.old) = Text(new, d.new)
    <2> HIDE DEF old, new, diffs
    <2> QED BY <1>1 DEF Script, DiffIs
  <1>5. \A d, e \in diffs : \/ d = e
                            \/ d.old.end <= e.old.start /\ d.new.end <= e.new.start
                            \/ e.old.end <= d.old.start /\ e.new.end <= d.new.start
    <2> HIDE DEF old, new, diffs
    <2> QED BY <1>1 DEF Script, Ahead
  <1> QED BY <1>2, <1>3, <1>4, <1>5 DEF DiffsRebuildBoth

\* Its premise is that of UpdateOK.
LEMMA MovesAreClean == CleanMoves <=> MovesClean(last[1].old, entry[1].content, last[1].moves)
  BY DEF CleanMoves, MovesClean

\* The second part.
LEMMA AccountCovers ==
  ASSUME last # <<>> => Account(last[1], entry[1])
  PROVE  EveryByteOwned
  <1> SUFFICES ASSUME last # <<>>, CleanMoves, NEW p \in ByteRange(entry[1].content)
               PROVE  CoveredBy(entry[1].atts, p) # {}
    BY DEF EveryByteOwned, Covered
  <1> DEFINE c == entry[1].content
             atts == entry[1].atts
  <1>1. c \in Seq(Symbols) /\ AllOwned(c, atts)
    BY MovesAreClean DEF Account
  <1>2. PICK B, Q : B \in Nat /\ Credits(Q) /\ atts \subseteq AttsOf(B, Q)
    BY DEF Account
  <1> HIDE DEF c, atts
  <1>3. p \in Nat /\ p < Len(c)
    BY <1>1, ByteRangeIs DEF c
  <1>4. PICK a \in atts : Covers(a, p)
    BY <1>1, <1>3 DEF AllOwned
  <1>5. a.start \in Nat /\ a.end \in Nat
    BY <1>2, CreditedAtt
  <1>6. Overlaps(a, p, p + 1)
    BY <1>3, <1>4, <1>5, OverlapsByte
  <1> QED BY <1>4, <1>6 DEF CoveredBy, atts

\* The two ways to say who owns a byte agree.
LEMMA OwnersMatch ==
  ASSUME NEW B \in Nat, NEW Q, Credits(Q), NEW S, S \subseteq AttsOf(B, Q), NEW p \in Nat
  PROVE  \A q : q \in OwnersOf(S, p) <=> Owns(S, p, q)
  <1>1. \A a \in S : a.start \in Nat /\ a.end \in Nat
    BY CreditedAtt
  <1> QED BY <1>1, OwnersAre

\* The third part.
LEMMA AccountKeeps ==
  ASSUME last # <<>> => Account(last[1], entry[1])
  PROVE  KeptBytesKeepOwners
  <1> SUFFICES ASSUME last # <<>>, CleanMoves, NEW d \in last[1].diffs, d.op = "Equal",
                      NEW i \in 0..(d.old.end - d.old.start - 1)
               PROVE  OwnersOf(entry[1].atts, d.new.start + i) = OwnersOf(last[1].before, d.old.start + i)
    BY DEF KeptBytesKeepOwners
  <1> DEFINE old == last[1].old
             new == entry[1].content
             diffs == last[1].diffs
             before == last[1].before
             after == entry[1].atts
  <1>1. old \in Seq(Symbols) /\ new \in Seq(Symbols) /\ Script(old, new, diffs)
    BY DEF Account
  <1>2. KeepsOwners(diffs, before, after)
    BY MovesAreClean DEF Account
  <1>3. PICK B, Q : B \in Nat /\ Credits(Q) /\ before \subseteq AttsOf(B, Q) /\ after \subseteq AttsOf(B, Q)
    BY DEF Account
  <1>4. d \in diffs
    OBVIOUS
  <1> HIDE DEF old, new, diffs, before, after
  <1>5. /\ d.old.start \in Nat /\ d.old.end \in Nat /\ d.new.start \in Nat
    BY <1>1, <1>4, ScriptNat
  <1>6. i \in Nat /\ i < d.old.end - d.old.start
    BY <1>5
  <1>7. \A q : Owns(after, d.new.start + i, q) <=> Owns(before, d.old.start + i, q)
    BY <1>2, <1>4, <1>6 DEF KeepsOwners
  <1>8. d.new.start + i \in Nat /\ d.old.start + i \in Nat
    BY <1>5, <1>6
  <1>9. \A q : q \in OwnersOf(after, d.new.start + i) <=> Owns(after, d.new.start + i, q)
    BY <1>3, <1>8, OwnersMatch
  <1>10. \A q : q \in OwnersOf(before, d.old.start + i) <=> Owns(before, d.old.start + i, q)
    BY <1>3, <1>8, OwnersMatch
  <1>11. OwnersOf(after, d.new.start + i) = OwnersOf(before, d.old.start + i)
    BY <1>7, <1>9, <1>10
  <1> QED BY <1>11 DEF after, before

\* And BytesNameTheirAuthor.
LEMMA AccountNames ==
  ASSUME last # <<>> => Account(last[1], entry[1])
  PROVE  InsertedBytesAreTheAuthors
  <1> SUFFICES ASSUME last # <<>>, CleanMoves, NEW p \in ByteRange(entry[1].content),
                      \E d \in last[1].diffs : d.op = "Insert" /\ Overlaps(d.new, p, p + 1),
                      last[1].kind = "Ai" \/ entry[1].content[p + 1] \notin Blanks,
                      ~ \E m \in last[1].moves : Overlaps(m.target, p, p + 1)
               PROVE  OwnersOf(entry[1].atts, p) = {<<last[1].author, last[1].ts>>}
    BY DEF InsertedBytesAreTheAuthors
  <1> DEFINE old == last[1].old
             new == entry[1].content
             diffs == last[1].diffs
             moves == last[1].moves
             after == entry[1].atts
             ai == last[1].kind = "Ai"
             me == <<last[1].author, last[1].ts>>
  <1>1. old \in Seq(Symbols) /\ new \in Seq(Symbols) /\ Script(old, new, diffs)
        /\ \A m \in moves : MoveIs(diffs, m)
    BY DEF Account
  <1>2. NamesAuthor(new, diffs, moves, after, last[1].author, last[1].ts, ai)
    BY MovesAreClean DEF Account
  <1>3. PICK B, Q : B \in Nat /\ Credits(Q) /\ after \subseteq AttsOf(B, Q)
    BY DEF Account
  <1>4. PICK d \in diffs : d.op = "Insert" /\ Overlaps(d.new, p, p + 1)
    OBVIOUS
  <1>5. (ai \/ new[p + 1] \notin Blanks) /\ \A m \in moves : ~ Overlaps(m.target, p, p + 1)
    OBVIOUS
  <1>6. p \in ByteRange(new)
    OBVIOUS
  <1> HIDE DEF old, new, diffs, moves, after, ai
  <1>7. p \in Nat
    BY <1>1, <1>6, ByteRangeIs
  <1>8. Covers(d.new, p)
    <2>1. d.new.start \in Nat /\ d.new.end \in Nat
      BY <1>1, ScriptNat
    <2> QED BY <1>4, <1>7, <2>1, OverlapsByte
  <1>9. \A m \in moves : ~ Covers(m.target, p)
    <2> TAKE m \in moves
    <2>1. m.target.start \in Nat /\ m.target.end \in Nat
      BY <1>1 DEF MoveIs, Within1
    <2> QED BY <1>5, <1>7, <2>1, OverlapsByte
  <1>10. \A q : Owns(after, p, q) <=> q = me
    BY <1>2, <1>4, <1>5, <1>7, <1>8, <1>9 DEF NamesAuthor
  <1>11. \A q : q \in OwnersOf(after, p) <=> Owns(after, p, q)
    BY <1>3, <1>7, OwnersMatch
  <1> HIDE DEF me
  <1>12. OwnersOf(after, p) = {me}
    BY <1>10, <1>11
  <1> QED BY <1>12 DEF after, me

----------------------------------------------------------------------------
(* The inductive invariant *)

\* Attributions that belong to authors, up to a time.
Credited(atts, until) ==
  \E B, Q : B \in Nat /\ Credits(Q) /\ (\A q \in Q : q[2] <= until) /\ atts \subseteq AttsOf(B, Q)

\* The inductive invariant.
FilesOK ==
  /\ content \in Contents /\ initial \in Initials /\ aiTouched \in BOOLEAN
  /\ clock \in Nat /\ InitialTs <= clock /\ done \in 0 .. MaxCheckpoints
  /\ lastAi = <<>> \/ \E t : lastAi = <<t>>
  /\ last = <<>> \/ \E h : last = <<h>>
  /\ entry = <<>> \/ \E e : entry = <<e>>
  /\ entry # <<>> => entry[1].content \in Contents /\ Credited(entry[1].atts, 2 * clock)
  /\ last # <<>> => entry # <<>> /\ Account(last[1], entry[1])

\* No attributions are fine at any time.
LEMMA NoneCredited ==
  ASSUME NEW t
  PROVE  Credited({}, t)
  <1>1. Credits({})
    BY FS_EmptySet DEF Credits
  <1> QED BY <1>1 DEF Credited

\* What belongs to authors now does so later.
LEMMA CreditedLater ==
  ASSUME NEW atts, NEW s \in Nat, NEW t \in Nat, s <= t, Credited(atts, s)
  PROVE  Credited(atts, t)
  <1>1. PICK B, Q : B \in Nat /\ Credits(Q) /\ (\A q \in Q : q[2] <= s) /\ atts \subseteq AttsOf(B, Q)
    BY DEF Credited
  <1>2. \A q \in Q : q[2] <= t
    <2> TAKE q \in Q
    <2>1. q[2] \in Nat /\ q[2] <= s
      BY <1>1, CreditsArePairs
    <2> QED BY <2>1
  <1> QED BY <1>1, <1>2 DEF Credited

\* What the working tree holds is a text.
LEMMA InContents ==
  ASSUME NEW c \in Contents
  PROVE  c \in Seq(Symbols)
  BY CheckpointAssumption

\* INITIAL's lines, and an AI's beyond them, are credited to authors.
LEMMA InitialCredited ==
  ASSUME FilesOK, NEW author \in Authors, NEW ai
  PROVE  /\ InitialState(author, ai).content \in Contents
         /\ Credited(InitialState(author, ai).atts, 2 * clock)
  <1> DEFINE covered == UNION {l.first..l.last : l \in initial.lines}
             beyond == ((Len(Lines(HeadContent)) + 1)..Len(Lines(content))) \ covered
             extra == IF ai THEN {[first |-> n, last |-> n, author |-> author, overrode |-> {}] :
                                    n \in beyond}
                      ELSE {}
             base == IF initial.lines = {} THEN HeadContent
                     ELSE IF initial.snapshot # <<>> THEN initial.snapshot[1]
                     ELSE content
             ls == initial.lines \cup extra
             W == {l.author : l \in initial.lines} \cup {author}
  <1>1. InitialState(author, ai) = [content |-> base, atts |-> LinesToAttributions(ls, base, InitialTs)]
    BY DEF InitialState
  <1>2. /\ initial \in Initials /\ content \in Contents /\ clock \in Nat /\ InitialTs <= clock
    BY DEF FilesOK
  <1>3. base \in Contents
    <2>1. HeadContent \in Contents /\ initial.snapshot \in {<<>>} \cup {<<c>> : c \in Contents}
      BY <1>2, CheckpointAssumption
    <2>2. initial.snapshot # <<>> => initial.snapshot[1] \in Contents
      BY <2>1
    <2> QED BY <1>2, <2>1, <2>2
  <1>4. W \subseteq Authors
    BY <1>2 DEF Authors
  <1>5. IsFiniteSet(W)
    <2> DEFINE X == {l.author : l \in initial.lines}
               f == [l \in initial.lines |-> l.author]
    <2>1. IsFiniteSet(initial.lines)
      BY <1>2, CheckpointAssumption
    <2>2. f \in [initial.lines -> X] /\ \A x \in X : \E l \in initial.lines : f[l] = x
      OBVIOUS
    <2> HIDE DEF f, X
    <2>3. IsFiniteSet(X)
      BY <2>1, <2>2, FiniteImage
    <2>4. IsFiniteSet(X \cup {author})
      BY <2>3, FS_AddElement
    <2> QED BY <2>4 DEF X
  <1>6. LinesOf(ls, W)
    <2>1. \A l \in initial.lines : l.first \in Nat /\ l.last \in Nat /\ l.first <= l.last /\ l.author \in W
      BY <1>2, CheckpointAssumption
    <2>2. \A n \in beyond : n \in Nat
      <3>1. Len(Lines(HeadContent)) \in Nat /\ Len(Lines(content)) \in Nat
        <4>1. HeadContent \in Seq(Symbols) /\ content \in Seq(Symbols)
          BY <1>2, CheckpointAssumption, InContents
        <4> QED BY <4>1, LinesFacts
      <3> QED BY <3>1
    <2>3. author \in W
      OBVIOUS
    <2> HIDE DEF beyond, W
    <2>4. \A l \in extra : l.first \in Nat /\ l.last \in Nat /\ l.first <= l.last /\ l.author \in W
      BY <2>2, <2>3
    <2> HIDE DEF extra
    <2> QED BY <2>1, <2>4 DEF LinesOf
  <1> HIDE DEF ls, base, W
  <1>7. InitialTs \in Nat /\ base \in Seq(Symbols)
    BY <1>3, InContents, CheckpointAssumption
  <1>8. PICK Q : /\ Credits(Q) /\ LinesToAttributions(ls, base, InitialTs) \subseteq AttsOf(Len(base), Q)
                 /\ \A q \in Q : q[2] = InitialTs
    BY <1>4, <1>5, <1>6, <1>7, LinesBecomeAtts
  <1>9. InitialTs <= 2 * clock
    BY <1>2, <1>7
  <1>10. Len(base) \in Nat
    BY <1>7, LenProperties
  <1>11. Credited(LinesToAttributions(ls, base, InitialTs), 2 * clock)
    BY <1>8, <1>9, <1>10 DEF Credited
  <1> QED BY <1>1, <1>3, <1>11

\* The attributions an update starts from belong to authors.
LEMMA PreviousCredited ==
  ASSUME FilesOK, NEW author \in Authors, NEW ai
  PROVE  /\ Previous(author, ai).content \in Contents
         /\ Credited(Previous(author, ai).atts, 2 * clock)
  <1>1. CASE entry # <<>>
    <2>1. Previous(author, ai) = [content |-> entry[1].content, atts |-> entry[1].atts]
      BY <1>1 DEF Previous
    <2> QED BY <1>1, <2>1 DEF FilesOK
  <1>2. CASE entry = <<>>
    <2>1. Previous(author, ai) = InitialState(author, ai)
      BY <1>2 DEF Previous
    <2> QED BY <2>1, InitialCredited
  <1> QED BY <1>1, <1>2

\* The author of a checkpoint is an author.
LEMMA AuthorsAre ==
  ASSUME NEW kind \in Kinds, NEW author \in AuthorsOf(kind)
  PROVE  author \in Authors
  BY DEF Kinds, AuthorsOf, Authors

\* What MakeEntry makes is accounted for.
LEMMA MadeEntry ==
  ASSUME FilesOK, NEW kind \in Kinds, NEW author \in AuthorsOf(kind),
         NEW previous, previous = Previous(author, kind = "Ai"),
         NEW filled, filled = FillGaps(previous.content, previous.atts, Human, 2 * clock - 1),
         NEW u \in UpdateAttributions(previous.content, content, filled, author, 2 * clock, kind = "Ai"),
         NEW h, h = [kind |-> kind, author |-> author, ts |-> 2 * clock, old |-> previous.content,
                     before |-> filled, diffs |-> u.diffs, moves |-> u.moves],
         NEW ls
  PROVE  /\ Credited(u.atts, 2 * clock)
         /\ Account(h, [content |-> content, atts |-> u.atts, lines |-> ls])
  <1> DEFINE old == previous.content
             ai == kind = "Ai"
             ts == 2 * clock
             e == [content |-> content, atts |-> u.atts, lines |-> ls]
  <1>1. author \in Authors /\ Human \in Authors
    BY AuthorsAre DEF Authors
  <1>2. old \in Contents /\ Credited(previous.atts, ts)
    BY <1>1, PreviousCredited
  <1>3. old \in Seq(Symbols) /\ content \in Seq(Symbols)
    BY <1>2, InContents DEF FilesOK
  <1>4. clock \in Nat /\ ts \in Nat /\ ts - 1 \in Nat /\ ts - 1 <= ts
    BY CheckpointAssumption DEF FilesOK
  <1>a. filled = FillGaps(old, previous.atts, Human, ts - 1)
    OBVIOUS
  <1>b. u \in UpdateAttributions(old, content, filled, author, ts, ai)
    OBVIOUS
  <1>c. /\ h.kind = kind /\ h.author = author /\ h.ts = ts /\ h.old = old /\ h.before = filled
        /\ h.diffs = u.diffs /\ h.moves = u.moves
        /\ e.content = content /\ e.atts = u.atts /\ (h.kind = "Ai") = ai
    OBVIOUS
  <1> HIDE DEF old, ts, ai, e
  <1>5. PICK B, Q : B \in Nat /\ Credits(Q) /\ (\A q \in Q : q[2] <= ts) /\ previous.atts \subseteq AttsOf(B, Q)
    BY <1>2 DEF Credited
  <1> DEFINE C == B + Len(old) + Len(content)
             R == Q \cup {<<Human, ts - 1>>}
             Z == R \cup {<<author, ts>>}
  <1>6. Len(old) \in Nat /\ Len(content) \in Nat
    BY <1>3, LenProperties
  <1>7. C \in Nat /\ B <= C /\ Len(old) <= C /\ Len(old) + Len(content) <= C
    BY <1>5, <1>6
  <1>8. Credits(R) /\ Credits(Z)
    BY <1>1, <1>4, <1>5, MoreCredits
  <1>9. \A q \in Z : q[2] <= ts
    BY <1>4, <1>5
  <1>10. R \subseteq Z /\ <<author, ts>> \in Z /\ Q \subseteq Q
    OBVIOUS
  <1> HIDE DEF C, Z
  <1>11. previous.atts \subseteq AttsOf(C, Q)
    BY <1>5, <1>7, <1>10, MoreAtts
  <1>12. filled \subseteq AttsOf(C, R) /\ AllOwned(old, filled)
    <2> DEFINE t == ts - 1
    <2>1. t \in Nat /\ filled = FillGaps(old, previous.atts, Human, t)
      BY <1>4, <1>a
    <2> HIDE DEF t
    <2>2. FilledIs(old, C, Q, Human, t, filled)
      BY <1>1, <1>3, <1>5, <1>7, <1>11, <2>1, FillGapsIs
    <2> QED BY <2>2 DEF FilledIs, t
  <1> HIDE DEF R
  <1>13. filled \subseteq AttsOf(C, Z)
    <2>1. AttsOf(C, R) \subseteq AttsOf(C, Z)
      BY <1>7, <1>8, <1>10, MoreAtts
    <2> QED BY <1>12, <2>1
  <1>14. /\ Script(old, content, u.diffs)
         /\ \A m \in u.moves : MoveIs(u.diffs, m)
         /\ u.atts \subseteq AttsOf(C, Z) /\ MarksAre(u.diffs, u.atts)
         /\ MovesClean(old, content, u.moves) =>
              /\ AllOwned(old, filled) => AllOwned(content, u.atts)
              /\ KeepsOwners(u.diffs, filled, u.atts)
              /\ NamesAuthor(content, u.diffs, u.moves, u.atts, author, ts, ai)
    <2>1. UpdateOK(old, content, C, Z, filled, author, ts, ai, u)
      BY <1>3, <1>7, <1>8, <1>10, <1>13, <1>b, UpdateResult
    <2> QED BY <2>1 DEF UpdateOK
  <1>15. Credited(u.atts, ts)
    BY <1>7, <1>8, <1>9, <1>14 DEF Credited
  <1>16. Account(h, e)
    BY <1>3, <1>7, <1>8, <1>12, <1>13, <1>14, <1>c DEF Account
  <1> QED BY <1>15, <1>16 DEF ts, e

----------------------------------------------------------------------------
(* Steps and theorems *)

\* FilesOK holds at first.
LEMMA FilesInit == Init => FilesOK
  <1> SUFFICES ASSUME Init PROVE FilesOK
    OBVIOUS
  <1>1. /\ initial \in Initials /\ content = HeadContent /\ entry = <<>>
        /\ aiTouched = (initial.lines # {}) /\ lastAi = <<>> /\ clock = InitialTs /\ done = 0 /\ last = <<>>
    BY DEF Init
  <1>2. content \in Contents /\ clock \in Nat /\ InitialTs <= clock /\ done \in 0 .. MaxCheckpoints
    BY <1>1, CheckpointAssumption
  <1>3. aiTouched \in BOOLEAN
    BY <1>1
  <1> QED BY <1>1, <1>2, <1>3 DEF FilesOK

\* What a checkpoint does to its entry leaves it accounted for.
EntryKept(t) ==
  /\ entry' = <<>> \/ \E e : entry' = <<e>>
  /\ entry' # <<>> => entry'[1].content \in Contents /\ Credited(entry'[1].atts, t)
  /\ lastAi' = <<>> \/ \E x : lastAi' = <<x>>
  /\ last' = <<>> \/ \E h : last' = <<h>>
  /\ last' # <<>> => entry' # <<>> /\ Account(last'[1], entry'[1])
  /\ aiTouched' \in BOOLEAN

\* A new entry with its account, or with none, keeps it.
LEMMA RecordKeeps ==
  ASSUME FilesOK, NEW e, NEW kind, NEW author, NEW history, Record(e, kind, author, history),
         e.content \in Contents, Credited(e.atts, 2 * clock),
         history = <<>> \/ \E h : history = <<h>> /\ Account(h, e)
  PROVE  EntryKept(2 * clock)
  <1>1. /\ entry' = <<e>> /\ last' = history
        /\ lastAi' = IF kind = "Ai" THEN <<clock>> ELSE lastAi
        /\ aiTouched' = (aiTouched \/ kind = "Ai" \/ \E a \in e.atts \cup e.lines : IsAi(a.author))
    BY DEF Record
  <1>2. aiTouched' \in BOOLEAN
    BY <1>1
  <1>3. entry' # <<>> /\ entry'[1] = e
    BY <1>1
  <1>4. lastAi' = <<>> \/ \E x : lastAi' = <<x>>
    BY <1>1 DEF FilesOK
  <1>5. last' = <<>> \/ \E h : last' = <<h>>
    BY <1>1
  <1>6. last' # <<>> => Account(last'[1], entry'[1])
    <2> SUFFICES ASSUME last' # <<>> PROVE Account(last'[1], entry'[1])
      OBVIOUS
    <2>1. PICK h : history = <<h>> /\ Account(h, e)
      BY <1>1
    <2>2. last'[1] = h
      BY <1>1, <2>1
    <2> QED BY <1>3, <2>1, <2>2
  <1> QED BY <1>1, <1>2, <1>3, <1>4, <1>5, <1>6 DEF EntryKept

\* So does a Human checkpoint of a file no AI has touched,
LEMMA HumanOnlyKeeps ==
  ASSUME FilesOK, NEW kind, HumanOnly(kind)
  PROVE  EntryKept(2 * clock)
  <1> DEFINE e == [content |-> content, atts |-> {}, lines |-> {}]
  <1>1. Record(e, kind, Human, <<>>)
    BY DEF HumanOnly
  <1>2. e.content \in Contents /\ Credited(e.atts, 2 * clock)
    BY NoneCredited DEF FilesOK
  <1> HIDE DEF e
  <1> QED BY <1>1, <1>2, RecordKeeps

\* one that only changed line endings,
LEMMA LineEndingsKeep ==
  ASSUME FilesOK, NEW kind, NEW author, LineEndings(kind, author)
  PROVE  EntryKept(2 * clock)
  <1> DEFINE lines == AttributionsToLines(entry[1].atts, entry[1].content, kind = "Ai")
             atts == LinesToAttributions(lines, content, 2 * clock)
             e == [content |-> content, atts |-> atts, lines |-> lines]
             ts == 2 * clock
  <1>1. Record(e, kind, author, <<>>) /\ entry # <<>>
    BY DEF LineEndings
  <1>2. PICK B, Q : B \in Nat /\ Credits(Q) /\ entry[1].atts \subseteq AttsOf(B, Q)
    BY <1>1 DEF FilesOK, Credited
  <1>3. entry[1].content \in Seq(Symbols) /\ content \in Seq(Symbols) /\ content \in Contents
    BY <1>1, InContents DEF FilesOK
  <1> DEFINE W == {Human} \cup {q[1] : q \in Q}
  <1>4. LinesOf(lines, W)
    BY <1>2, <1>3, AttsBecomeLines
  <1>5. W \subseteq Authors
    <2>1. Human \in Authors
      BY DEF Authors
    <2>2. \A q \in Q : q[1] \in Authors
      BY <1>2, CreditsArePairs
    <2> QED BY <2>1, <2>2
  <1>6. IsFiniteSet(W)
    <2> DEFINE X == {q[1] : q \in Q}
               f == [q \in Q |-> q[1]]
    <2>1. IsFiniteSet(Q)
      BY <1>2 DEF Credits
    <2>2. f \in [Q -> X] /\ \A x \in X : \E q \in Q : f[q] = x
      OBVIOUS
    <2> HIDE DEF f, X
    <2>3. IsFiniteSet(X)
      BY <2>1, <2>2, FiniteImage
    <2>4. IsFiniteSet(X \cup {Human})
      BY <2>3, FS_AddElement
    <2>5. X \cup {Human} = W
      BY DEF X
    <2> HIDE DEF W
    <2> QED BY <2>4, <2>5
  <1>7. ts \in Nat
    BY DEF FilesOK
  <1>a. atts = LinesToAttributions(lines, content, ts)
    OBVIOUS
  <1>b. e.content = content /\ e.atts = atts
    OBVIOUS
  <1> HIDE DEF W, lines, e, atts, ts
  <1>8. PICK R : /\ Credits(R) /\ LinesToAttributions(lines, content, ts) \subseteq AttsOf(Len(content), R)
                 /\ \A q \in R : q[2] = ts
    BY <1>3, <1>4, <1>5, <1>6, <1>7, LinesBecomeAtts
  <1>9. Len(content) \in Nat /\ \A q \in R : q[2] <= ts
    <2>1. Len(content) \in Nat
      BY <1>3, LenProperties
    <2>2. \A q \in R : q[2] <= ts
      BY <1>7, <1>8
    <2> QED BY <2>1, <2>2
  <1>10. Credited(e.atts, ts)
    BY <1>8, <1>9, <1>a, <1>b DEF Credited
  <1>11. e.content \in Contents /\ Credited(e.atts, 2 * clock)
    BY <1>3, <1>10, <1>b DEF ts
  <1> QED BY <1>1, <1>11, RecordKeeps

\* and one that runs update_attributions.
LEMMA MakeEntryKeeps ==
  ASSUME FilesOK, NEW kind \in Kinds, NEW author \in AuthorsOf(kind), MakeEntry(kind, author)
  PROVE  EntryKept(2 * clock)
  <1> DEFINE ai == kind = "Ai"
             ts == 2 * clock
             previous == Previous(author, ai)
             filled == FillGaps(previous.content, previous.atts, Human, ts - 1)
             E(u) == [content |-> content, atts |-> u.atts, lines |-> AttributionsToLines(u.atts, content, ai)]
             H(u) == [kind |-> kind, author |-> author, ts |-> ts, old |-> previous.content,
                      before |-> filled, diffs |-> u.diffs, moves |-> u.moves]
  <1>1. PICK u \in UpdateAttributions(previous.content, content, filled, author, ts, ai) :
          Record(E(u), kind, author, <<H(u)>>)
    BY DEF MakeEntry
  <1>2. Credited(u.atts, 2 * clock) /\ Account(H(u), E(u))
    BY MadeEntry
  <1>3. E(u).content = content /\ E(u).atts = u.atts /\ content \in Contents
    BY DEF FilesOK
  <1> HIDE DEF E, H, ai, ts, previous, filled
  <1> QED BY <1>1, <1>2, <1>3, RecordKeeps

\* Every step of CheckpointFile keeps it.
LEMMA FilesNext == FilesOK /\ [Next]_vars => FilesOK'
  <1> SUFFICES ASSUME FilesOK, [Next]_vars PROVE FilesOK'
    OBVIOUS
  <1>0. /\ content \in Contents /\ initial \in Initials /\ aiTouched \in BOOLEAN
        /\ clock \in Nat /\ InitialTs <= clock /\ InitialTs \in Nat /\ done \in 0 .. MaxCheckpoints
        /\ MaxCheckpoints \in Nat
    BY CheckpointAssumption DEF FilesOK
  <1>1. CASE UNCHANGED vars
    BY <1>1 DEF FilesOK, vars
  <1>2. CASE Edit
    <2>1. /\ content' \in Contents /\ last' = <<>>
          /\ UNCHANGED <<initial, entry, aiTouched, lastAi, clock, done>>
      BY <1>2 DEF Edit
    <2> QED BY <2>1 DEF FilesOK
  <1>3. ASSUME NEW kind \in Kinds, NEW author \in AuthorsOf(kind), Checkpoint(kind, author)
        PROVE  FilesOK'
    <2>1. /\ done < MaxCheckpoints /\ clock' = clock + 1 /\ done' = done + 1
          /\ initial' = initial /\ content' = content
          /\ HumanOnly(kind) \/ LineEndings(kind, author) \/ MakeEntry(kind, author)
      BY <1>3 DEF Checkpoint
    <2>2. EntryKept(2 * clock)
      BY <2>1, HumanOnlyKeeps, LineEndingsKeep, MakeEntryKeeps
    <2>3. /\ clock' \in Nat /\ InitialTs <= clock' /\ done' \in 0 .. MaxCheckpoints
          /\ 2 * clock \in Nat /\ 2 * clock' \in Nat /\ 2 * clock <= 2 * clock'
      BY <1>0, <2>1
    <2>4. entry' # <<>> => entry'[1].content \in Contents /\ Credited(entry'[1].atts, 2 * clock')
      BY <2>2, <2>3, CreditedLater DEF EntryKept
    <2> QED BY <1>0, <2>1, <2>2, <2>3, <2>4 DEF FilesOK, EntryKept
  <1>4. ASSUME NEW kind \in Kinds, Reject(kind) PROVE FilesOK'
    <2>1. /\ done < MaxCheckpoints /\ clock' = clock + 1 /\ done' = done + 1 /\ last' = <<>>
          /\ UNCHANGED <<initial, content, entry, aiTouched, lastAi>>
      BY <1>4 DEF Reject
    <2>2. /\ clock' \in Nat /\ InitialTs <= clock' /\ done' \in 0 .. MaxCheckpoints
          /\ 2 * clock \in Nat /\ 2 * clock' \in Nat /\ 2 * clock <= 2 * clock'
      BY <1>0, <2>1
    <2>3. entry # <<>> => entry[1].content \in Contents /\ Credited(entry[1].atts, 2 * clock')
      BY <2>2, CreditedLater DEF FilesOK
    <2> QED BY <1>0, <2>1, <2>2, <2>3 DEF FilesOK
  <1> QED BY <1>1, <1>2, <1>3, <1>4 DEF Next

\* A sequence of at most one element.
LEMMA ShortSeq ==
  ASSUME NEW s, s = <<>> \/ \E x : s = <<x>>
  PROVE  Len(s) <= 1
  <1>1. CASE s = <<>>
    BY <1>1
  <1>2. CASE \E x : s = <<x>>
    <2>1. PICK x : s = <<x>>
      BY <1>2
    <2>2. Len(s) = 1
      BY <2>1
    <2> QED BY <2>2
  <1> QED BY <1>1, <1>2

\* FilesOK implies the type invariant,
LEMMA FilesTyped == FilesOK => TypeOK
  <1> SUFFICES ASSUME FilesOK PROVE TypeOK
    OBVIOUS
  <1>1. Len(lastAi) <= 1 /\ Len(last) <= 1
    <2>1. (lastAi = <<>> \/ \E t : lastAi = <<t>>) /\ (last = <<>> \/ \E h : last = <<h>>)
      BY DEF FilesOK
    <2> QED BY <2>1, ShortSeq
  <1>2. ASSUME NEW e \in ToSet(entry)
        PROVE  /\ e.content \in Contents
               /\ \A a \in e.atts : /\ 0 <= a.start /\ a.start <= a.end
                                    /\ a.author \in Authors
                                    /\ a.ts <= 2 * clock
    <2>1. entry # <<>> /\ e = entry[1]
      BY DEF FilesOK, ToSet
    <2>2. PICK B, Q : B \in Nat /\ Credits(Q) /\ (\A q \in Q : q[2] <= 2 * clock) /\ e.atts \subseteq AttsOf(B, Q)
      BY <2>1 DEF FilesOK, Credited
    <2>3. ASSUME NEW a \in e.atts
          PROVE  0 <= a.start /\ a.start <= a.end /\ a.author \in Authors /\ a.ts <= 2 * clock
      <3>1. a.start \in Nat /\ a.start <= a.end /\ a.author \in Authors /\ Who(a) \in Q
        BY <2>2, CreditedAtt
      <3>2. Who(a)[2] <= 2 * clock
        BY <2>2, <3>1
      <3>3. Who(a)[2] = a.ts
        BY DEF Who
      <3> QED BY <3>1, <3>2, <3>3
    <2> QED BY <2>1, <2>3 DEF FilesOK
  <1> QED BY <1>1, <1>2 DEF TypeOK, FilesOK

\* and what is to be proved.
LEMMA FilesAccounted == FilesOK => BytesAccounted /\ BytesNameTheirAuthor
  <1> SUFFICES ASSUME FilesOK PROVE BytesAccounted /\ BytesNameTheirAuthor
    OBVIOUS
  <1>1. last # <<>> => Account(last[1], entry[1])
    BY DEF FilesOK
  <1>2. TypeOK
    BY FilesTyped
  <1>3. DiffsRebuildBoth /\ EveryByteOwned
    BY <1>1, AccountRebuilds, AccountCovers
  <1>4. KeptBytesKeepOwners /\ InsertedBytesAreTheAuthors
    BY <1>1, AccountKeeps, AccountNames
  <1> QED BY <1>2, <1>3, <1>4 DEF BytesAccounted, BytesNameTheirAuthor

\* A step of the shell commands does not touch the file.
LEMMA FilesSteps == FilesOK /\ [EditsNext]_<<side, vars, shellVars>> => FilesOK'
  <1> SUFFICES ASSUME FilesOK, [EditsNext]_<<side, vars, shellVars>> PROVE FilesOK'
    OBVIOUS
  <1>1. [Next]_vars
    BY DEF EditsNext
  <1> QED BY <1>1, FilesNext

\* FilesOK always holds.
LEMMA FilesAlways == EditsSpec => []FilesOK
  <1>1. EditsInit => FilesOK
    BY FilesInit DEF EditsInit
  <1> QED BY <1>1, FilesSteps, PTL DEF EditsSpec

\* The diffs of every update rebuild both texts (DiffsRebuildBoth), and every byte
\* of the new text has an owner (EveryByteOwned) if the moves the detector found
\* take the same text along: update_attributions neither loses nor makes up bytes,
\* for all texts of any length over any symbols and any series of checkpoints.
THEOREM BytesAreAccounted == EditsSpec => []BytesAccounted
  BY FilesAlways, FilesAccounted, PTL

\* A byte an update keeps has exactly the owners it had (KeptBytesKeepOwners); one
\* it inserts, and that no move brought there, is credited to the checkpoint's
\* author and to nobody else, but for the white space that a person's edit may leave
\* to its neighbours (InsertedBytesAreTheAuthors); provided the moves are clean.
THEOREM BytesAreTheirAuthors == EditsSpec => []BytesNameTheirAuthor
  BY FilesAlways, FilesAccounted, PTL

----------------------------------------------------------------------------
(* Whom a line hears *)

\* No deletion marker lies in a line.
Unmarked(atts, line) ==
  \A a \in atts : a.start = a.end => ~ Overlaps(a, line.start, line.end)

\* A byte of a line that has a say in who is named for it.
Speaks(c, line, ai, author, p) ==
  /\ Covers(line, p)
  /\ IsBlank(Text(c, line)) \/ (ai /\ IsAi(author)) \/ c[p + 1] \notin Blanks

\* The line hears q: q owns a byte that has a say.
Hears(atts, c, line, ai, q) == \E p \in Nat : Speaks(c, line, ai, q[1], p) /\ Owns(atts, p, q)

\* x is the author of a newest one it hears.
NewestHeard(atts, c, line, ai, x) ==
  \E q : /\ Hears(atts, c, line, ai, q) /\ q[1] = x
         /\ \A r : Hears(atts, c, line, ai, r) => r[2] <= q[2]

\* Whom a line may be named for: the newest it hears, or the human if it hears none.
Heard(atts, c, line, ai, x) ==
  \/ NewestHeard(atts, c, line, ai, x)
  \/ x = Human /\ \A q : ~ Hears(atts, c, line, ai, q)

\* A text is blank if every byte of its span is.
LEMMA BlankText ==
  ASSUME NEW c \in Seq(Symbols), NEW s, Inside(c, s)
  PROVE  IsBlank(Text(c, s)) <=> \A p \in Nat : Covers(s, p) => c[p + 1] \in Blanks
  <1>1. /\ DOMAIN Text(c, s) = 1 .. (s.end - s.start)
        /\ \A i \in 1 .. (s.end - s.start) : Text(c, s)[i] = c[s.start + i]
    BY TextFacts
  <1>2. s.start \in Nat /\ s.end \in Nat /\ s.start <= s.end
    BY DEF Inside
  <1>3. ASSUME IsBlank(Text(c, s)), NEW p \in Nat, Covers(s, p) PROVE c[p + 1] \in Blanks
    <2> DEFINE i == p + 1 - s.start
    <2>1. i \in 1 .. (s.end - s.start) /\ s.start + i = p + 1
      BY <1>2, <1>3 DEF Covers
    <2>2. Text(c, s)[i] = c[p + 1]
      BY <1>1, <2>1
    <2> HIDE DEF i
    <2> QED BY <1>1, <1>3, <2>1, <2>2 DEF IsBlank
  <1>4. ASSUME \A p \in Nat : Covers(s, p) => c[p + 1] \in Blanks,
               NEW i \in 1 .. (s.end - s.start)
        PROVE  Text(c, s)[i] \in Blanks
    <2> DEFINE p == s.start + i - 1
    <2>1. p \in Nat /\ Covers(s, p) /\ p + 1 = s.start + i
      BY <1>2 DEF Covers
    <2> HIDE DEF p
    <2> QED BY <1>1, <1>4, <2>1
  <1> QED BY <1>1, <1>3, <1>4 DEF IsBlank

\* An attribution counts in a line if it covers a byte that has a say there.
LEMMA CountsByByte ==
  ASSUME NEW c \in Seq(Symbols), NEW line, Inside(c, line), line.start < line.end,
         NEW a, a.start \in Nat, a.end \in Nat, a.start <= a.end,
         a.start = a.end => ~ Overlaps(a, line.start, line.end), NEW ai
  PROVE  Counts(a, c, line, ai) <=> \E p \in Nat : Covers(a, p) /\ Speaks(c, line, ai, a.author, p)
  <1> DEFINE s == Higher(a.start, line.start)
             t == Lower(a.end, line.end)
             cut == Span(s, t)
  <1>1. line.start \in Nat /\ line.end \in Nat /\ line.end <= Len(c) /\ Len(c) \in Nat
    BY LenProperties DEF Inside
  <1>2. s \in Nat /\ t \in Nat /\ \A p \in Nat : s <= p /\ p < t <=> Covers(a, p) /\ Covers(line, p)
    BY <1>1 DEF Higher, Lower, Covers
  <1>3. t <= line.end /\ line.start <= s /\ t <= Len(c)
    BY <1>1 DEF Higher, Lower
  <1>4. Overlaps(a, line.start, line.end) /\ a.start # a.end => s < t
    BY <1>1 DEF Higher, Lower, Overlaps
  <1>5. \A p \in Nat : Covers(a, p) /\ Covers(line, p) => Overlaps(a, line.start, line.end) /\ a.start # a.end
    BY <1>1 DEF Overlaps, Covers
  <1> HIDE DEF s, t
  <1>6. cut.start = s /\ cut.end = t
    BY DEF Span
  <1>7. Counts(a, c, line, ai) <=>
          /\ Overlaps(a, line.start, line.end)
          /\ \/ IsBlank(Text(c, line)) \/ a.start = a.end \/ (ai /\ IsAi(a.author))
             \/ ~ IsBlank(Text(c, cut))
    BY DEF Counts, s, t
  <1> HIDE DEF cut
  <1>8. s <= t => (IsBlank(Text(c, cut)) <=> \A p \in Nat : Covers(cut, p) => c[p + 1] \in Blanks)
    <2> SUFFICES ASSUME s <= t
                 PROVE  IsBlank(Text(c, cut)) <=> \A p \in Nat : Covers(cut, p) => c[p + 1] \in Blanks
      OBVIOUS
    <2>1. Inside(c, cut)
      BY <1>2, <1>3, <1>6 DEF Inside
    <2> QED BY <2>1, BlankText
  <1>9. \A p \in Nat : Covers(cut, p) <=> Covers(a, p) /\ Covers(line, p)
    BY <1>2, <1>6 DEF Covers
  <1>10. ASSUME Counts(a, c, line, ai)
         PROVE  \E p \in Nat : Covers(a, p) /\ Speaks(c, line, ai, a.author, p)
    <2>1. Overlaps(a, line.start, line.end) /\ a.start # a.end /\ s < t
      BY <1>4, <1>7, <1>10
    <2>2. Covers(a, s) /\ Covers(line, s)
      BY <1>2, <2>1
    <2>3. CASE IsBlank(Text(c, line)) \/ (ai /\ IsAi(a.author))
      BY <1>2, <2>2, <2>3 DEF Speaks
    <2>4. CASE ~ IsBlank(Text(c, cut))
      <3>1. PICK p \in Nat : Covers(cut, p) /\ c[p + 1] \notin Blanks
        BY <1>2, <1>8, <2>1, <2>4
      <3> QED BY <1>9, <3>1 DEF Speaks
    <2> QED BY <1>7, <1>10, <2>1, <2>3, <2>4
  <1>11. ASSUME NEW p \in Nat, Covers(a, p), Speaks(c, line, ai, a.author, p)
         PROVE  Counts(a, c, line, ai)
    <2>1. Covers(line, p) /\ Overlaps(a, line.start, line.end)
      BY <1>5, <1>11 DEF Speaks
    <2>2. s <= p /\ p < t /\ s <= t
      BY <1>2, <1>11, <2>1
    <2>3. c[p + 1] \notin Blanks => ~ IsBlank(Text(c, cut))
      BY <1>8, <1>9, <1>11, <2>1, <2>2
    <2> QED BY <1>7, <1>11, <2>1, <2>3 DEF Speaks
  <1> QED BY <1>10, <1>11

\* A line hears those whose attributions count.
LEMMA HeardCounts ==
  ASSUME NEW c \in Seq(Symbols), NEW line, Inside(c, line), line.start < line.end,
         NEW B \in Nat, NEW Q, Credits(Q), NEW atts, atts \subseteq AttsOf(B, Q), Unmarked(atts, line),
         NEW ai, NEW q
  PROVE  Hears(atts, c, line, ai, q) <=> \E a \in atts : Counts(a, c, line, ai) /\ Who(a) = q
  <1>1. ASSUME NEW a \in atts
        PROVE  Counts(a, c, line, ai) <=> \E p \in Nat : Covers(a, p) /\ Speaks(c, line, ai, a.author, p)
    <2>1. a.start \in Nat /\ a.end \in Nat /\ a.start <= a.end
      BY CreditedAtt
    <2>2. a.start = a.end => ~ Overlaps(a, line.start, line.end)
      BY DEF Unmarked
    <2> QED BY <2>1, <2>2, CountsByByte
  <1>2. \A a \in atts : Who(a)[1] = a.author
    BY DEF Who
  <1>3. ASSUME Hears(atts, c, line, ai, q) PROVE \E a \in atts : Counts(a, c, line, ai) /\ Who(a) = q
    <2>1. PICK p \in Nat : Speaks(c, line, ai, q[1], p) /\ Owns(atts, p, q)
      BY <1>3 DEF Hears
    <2>2. PICK a \in atts : Covers(a, p) /\ q = Who(a)
      BY <2>1 DEF Owns, Covers
    <2> QED BY <1>1, <1>2, <2>1, <2>2
  <1>4. ASSUME NEW a \in atts, Counts(a, c, line, ai), Who(a) = q PROVE Hears(atts, c, line, ai, q)
    <2>1. PICK p \in Nat : Covers(a, p) /\ Speaks(c, line, ai, a.author, p)
      BY <1>1, <1>4
    <2>2. Owns(atts, p, q)
      BY <1>4, <2>1 DEF Owns, Covers
    <2> QED BY <1>2, <1>4, <2>1, <2>2 DEF Hears
  <1> QED BY <1>3, <1>4

\* The newest authors of a line are the newest it hears.
LEMMA NewestByByte ==
  ASSUME NEW e, e.content \in Seq(Symbols), NEW line, Inside(e.content, line), line.start < line.end,
         NEW B \in Nat, NEW Q, Credits(Q), e.atts \subseteq AttsOf(B, Q), Unmarked(e.atts, line),
         NEW ai, NEW x
  PROVE  x \in Newest(e, line, ai) <=> NewestHeard(e.atts, e.content, line, ai, x)
  <1> DEFINE counted == {a \in e.atts : Counts(a, e.content, line, ai)}
             H(q) == Hears(e.atts, e.content, line, ai, q)
  <1>1. \A q : H(q) <=> \E a \in counted : Who(a) = q
    BY HeardCounts
  <1>2. x \in Newest(e, line, ai) <=> \E a \in counted : a.author = x /\ \A b \in counted : b.ts <= a.ts
    BY DEF Newest
  <1>3. \A a \in counted : Who(a)[1] = a.author /\ Who(a)[2] = a.ts
    BY DEF Who
  <1>4. NewestHeard(e.atts, e.content, line, ai, x) <=>
          \E q : H(q) /\ q[1] = x /\ \A r : H(r) => r[2] <= q[2]
    BY DEF NewestHeard
  <1> HIDE DEF counted, H
  <1>5. ASSUME NEW a \in counted, a.author = x, \A b \in counted : b.ts <= a.ts
        PROVE  \E q : H(q) /\ q[1] = x /\ \A r : H(r) => r[2] <= q[2]
    <2>1. H(Who(a)) /\ Who(a)[1] = x
      BY <1>1, <1>3, <1>5
    <2>2. ASSUME NEW r, H(r) PROVE r[2] <= Who(a)[2]
      <3>1. PICK b \in counted : Who(b) = r
        BY <1>1, <2>2
      <3> QED BY <1>3, <1>5, <3>1
    <2> QED BY <2>1, <2>2
  <1>6. ASSUME NEW q, H(q), q[1] = x, \A r : H(r) => r[2] <= q[2]
        PROVE  \E a \in counted : a.author = x /\ \A b \in counted : b.ts <= a.ts
    <2>1. PICK a \in counted : Who(a) = q
      BY <1>1, <1>6
    <2>2. ASSUME NEW b \in counted PROVE b.ts <= a.ts
      <3>1. H(Who(b))
        BY <1>1
      <3>2. Who(b)[2] <= q[2]
        BY <1>6, <3>1
      <3> QED BY <1>3, <2>1, <3>2
    <2> QED BY <1>3, <1>6, <2>1, <2>2
  <1> QED BY <1>2, <1>4, <1>5, <1>6

\* The dominant author of a line is a newest it hears, or the human.
LEMMA DominantHeard ==
  ASSUME NEW c \in Seq(Symbols), NEW line, Inside(c, line), line.start < line.end,
         NEW B \in Nat, NEW Q, Credits(Q), NEW atts, atts \subseteq AttsOf(B, Q), Unmarked(atts, line),
         NEW ai
  PROVE  Heard(atts, c, line, ai, DominantAuthor(c, line, atts, ai).author)
  <1> DEFINE candidates == {a \in atts : Counts(a, c, line, ai)}
             newest == {a \in candidates : \A b \in candidates : b.ts <= a.ts}
             chosen == CHOOSE a \in newest : a \in First(newest, Before)
             e == [content |-> c, atts |-> atts]
  <1>1. candidates = {} => DominantAuthor(c, line, atts, ai).author = Human
    BY DEF DominantAuthor
  <1>2. candidates # {} => DominantAuthor(c, line, atts, ai).author = chosen.author
    BY DEF DominantAuthor
  <1>3. e.content = c /\ e.atts = atts
    OBVIOUS
  <1>4. {a.author : a \in newest} = Newest(e, line, ai)
    BY DEF Newest
  <1>5. CASE candidates = {}
    <2>1. \A q : ~ Hears(atts, c, line, ai, q)
      BY <1>5, HeardCounts
    <2> QED BY <1>1, <1>5, <2>1 DEF Heard
  <1>6. CASE candidates # {}
    <2>1. candidates \subseteq AttsOf(B, Q)
      OBVIOUS
    <2> HIDE DEF candidates, e
    <2>2. \E a \in candidates : \A b \in candidates : b.ts <= a.ts
      BY <1>6, <2>1, NewestExists
    <2>3. newest # {} /\ newest \subseteq AttsOf(B, Q)
      BY <2>1, <2>2
    <2> HIDE DEF newest
    <2>4. \E a \in newest : a \in First(newest, Before)
      BY <2>3, FirstExists
    <2>5. chosen \in newest
      BY <2>4
    <2> HIDE DEF chosen
    <2>6. chosen.author \in Newest(e, line, ai)
      BY <1>4, <2>5
    <2>7. NewestHeard(e.atts, e.content, line, ai, chosen.author)
      BY <1>3, <2>6, NewestByByte
    <2> QED BY <1>2, <1>3, <1>6, <2>7 DEF Heard
  <1> QED BY <1>5, <1>6

\* A longest run of equal values around a place.
RunAround(who, N, n, r) ==
  /\ r \in (1 .. N) \X (1 .. N)
  /\ r[1] <= n /\ n <= r[2]
  /\ \A k \in r[1] .. r[2] : who[k] = who[n]
  /\ r[1] = 1 \/ who[r[1] - 1] # who[n]
  /\ r[2] = N \/ who[r[2] + 1] # who[n]

\* Every place is in a longest run of equal values.
LEMMA RunExists ==
  ASSUME NEW N \in Nat, NEW n \in 1 .. N, NEW who
  PROVE  \E r : RunAround(who, N, n, r)
  <1> DEFINE lows == {j \in 1 .. n : \A k \in j .. n : who[k] = who[n]}
             highs == {j \in n .. N : \A k \in n .. j : who[k] = who[n]}
  <1>1. n \in lows /\ lows \subseteq Nat /\ n \in highs /\ highs \subseteq 0 .. N
    <2>1. \A k \in n .. n : k = n
      OBVIOUS
    <2>2. n \in 1 .. n /\ n \in n .. N /\ n .. N \subseteq 0 .. N /\ 1 .. n \subseteq Nat
      OBVIOUS
    <2> QED BY <2>1, <2>2
  <1>2. PICK i \in lows : \A j \in lows : i <= j
    <2> HIDE DEF lows
    <2> QED BY <1>1, LeastNat
  <1>3. PICK h \in highs : \A j \in highs : h >= j
    <2> HIDE DEF highs
    <2> QED BY <1>1, GreatestNat
  <1>4. /\ i \in 1 .. n /\ \A k \in i .. n : who[k] = who[n]
        /\ h \in n .. N /\ \A k \in n .. h : who[k] = who[n]
    OBVIOUS
  <1>5. i = 1 \/ who[i - 1] # who[n]
    <2> SUFFICES ASSUME i # 1, who[i - 1] = who[n] PROVE FALSE
      OBVIOUS
    <2> DEFINE j == i - 1
    <2>1. j \in 1 .. n /\ ~ (i <= j) /\ \A k \in j .. n : k = j \/ k \in i .. n
      BY <1>4
    <2>2. who[j] = who[n]
      OBVIOUS
    <2> HIDE DEF j
    <2>3. \A k \in j .. n : who[k] = who[n]
      BY <1>4, <2>1, <2>2
    <2>4. j \in lows
      BY <2>1, <2>3
    <2> QED BY <1>2, <2>1, <2>4
  <1>6. h = N \/ who[h + 1] # who[n]
    <2> SUFFICES ASSUME h # N, who[h + 1] = who[n] PROVE FALSE
      OBVIOUS
    <2> DEFINE j == h + 1
    <2>1. j \in n .. N /\ ~ (h >= j) /\ \A k \in n .. j : k = j \/ k \in n .. h
      BY <1>4
    <2>2. who[j] = who[n]
      OBVIOUS
    <2> HIDE DEF j
    <2>3. \A k \in n .. j : who[k] = who[n]
      BY <1>4, <2>1, <2>2
    <2>4. j \in highs
      BY <2>1, <2>3
    <2> QED BY <1>3, <2>1, <2>4
  <1>7. i \in 1 .. N /\ h \in 1 .. N /\ i <= n /\ n <= h
    BY <1>4
  <1>8. \A k \in i .. h : who[k] = who[n]
    <2>1. \A k \in i .. h : k \in i .. n \/ k \in n .. h
      BY <1>4
    <2> QED BY <1>4, <2>1
  <1> HIDE DEF lows, highs
  <1>9. RunAround(who, N, n, <<i, h>>)
    BY <1>5, <1>6, <1>7, <1>8 DEF RunAround
  <1> QED BY <1>9

\* A list of lines says who is named for each line of a text, without contradiction.
NamesLines(ls, c) ==
  \A l \in ls : /\ l.first \in DOMAIN Lines(c) /\ l.last \in DOMAIN Lines(c) /\ l.first <= l.last
                /\ \A n \in l.first .. l.last : l.author = Named(ls, n)

\* The lines AttributionsToLines lists are named for their dominant author.
LEMMA LinesAreNamed ==
  ASSUME NEW c \in Seq(Symbols), NEW atts, NEW ai, NEW ls, ls = AttributionsToLines(atts, c, ai)
  PROVE  /\ \A n \in DOMAIN Lines(c) : Named(ls, n) = DominantAuthor(c, Lines(c)[n], atts, ai).author
         /\ NamesLines(ls, c)
  <1> DEFINE lines == Lines(c)
             N == Len(lines)
             dom(n) == DominantAuthor(c, lines[n], atts, ai)
             who == [k \in DOMAIN lines |-> dom(k)]
             runs == {r \in (DOMAIN who) \X (DOMAIN who) :
                        /\ r[1] <= r[2]
                        /\ \A k \in r[1]..r[2] : who[k] = who[r[1]]
                        /\ r[1] = 1 \/ who[r[1] - 1] # who[r[1]]
                        /\ r[2] = Len(lines) \/ who[r[2] + 1] # who[r[1]]}
             lineOf(r) == [first |-> r[1], last |-> r[2], author |-> who[r[1]].author,
                           overrode |-> who[r[1]].overrode]
  <1>1. atts = {} => ls = {}
    BY DEF AttributionsToLines
  <1>2. atts # {} => ls = {l \in {lineOf(r) : r \in runs} : l.author # Human \/ l.overrode # {}}
    BY DEF AttributionsToLines
  <1>3. N \in Nat /\ DOMAIN lines = 1 .. N
    BY LinesFacts
  <1>4. atts = {} => \A n : dom(n).author = Human
    BY DEF DominantAuthor
  <1> HIDE DEF dom, lines, N
  <1>5. DOMAIN who = 1 .. N /\ \A n \in 1 .. N : who[n] = dom(n)
    BY <1>3
  <1> HIDE DEF who
  <1>6. \A r : lineOf(r).first = r[1] /\ lineOf(r).last = r[2] /\ lineOf(r).author = who[r[1]].author
    OBVIOUS
  <1>7. ASSUME NEW r \in runs
        PROVE  /\ r[1] \in 1 .. N /\ r[2] \in 1 .. N /\ r[1] <= r[2]
               /\ \A n \in r[1] .. r[2] : n \in 1 .. N /\ who[r[1]] = who[n]
    <2>1. /\ r[1] \in 1 .. N /\ r[2] \in 1 .. N /\ r[1] <= r[2]
          /\ \A k \in r[1] .. r[2] : who[k] = who[r[1]]
      BY <1>5
    <2>2. \A n \in r[1] .. r[2] : n \in 1 .. N
      BY <1>3, <2>1
    <2> QED BY <2>1, <2>2
  <1>8. \A n \in 1 .. N : \A r : RunAround(who, N, n, r) => r \in runs /\ who[r[1]] = who[n]
    <2> SUFFICES ASSUME NEW n \in 1 .. N, NEW r, RunAround(who, N, n, r)
                 PROVE  r \in runs /\ who[r[1]] = who[n]
      OBVIOUS
    <2>1. /\ r \in (1 .. N) \X (1 .. N) /\ r[1] <= n /\ n <= r[2]
          /\ \A k \in r[1] .. r[2] : who[k] = who[n]
          /\ r[1] = 1 \/ who[r[1] - 1] # who[n]
          /\ r[2] = N \/ who[r[2] + 1] # who[n]
      BY DEF RunAround
    <2>2. r[1] \in 1 .. N /\ r[2] \in 1 .. N
      BY <2>1
    <2>3. r[1] <= r[2] /\ r[1] \in r[1] .. r[2]
      BY <2>1, <2>2, <1>3
    <2>4. who[r[1]] = who[n]
      BY <2>1, <2>3
    <2> QED BY <2>1, <2>3, <2>4, <1>5 DEF N
  <1> HIDE DEF runs, lineOf
  <1>9. ASSUME NEW l \in ls
        PROVE  /\ l.first \in 1 .. N /\ l.last \in 1 .. N /\ l.first <= l.last
               /\ \A n \in l.first .. l.last : n \in 1 .. N /\ l.author = dom(n).author
    <2>1. PICK r \in runs : l = lineOf(r)
      BY <1>1, <1>2, <1>9
    <2>2. l.first = r[1] /\ l.last = r[2] /\ l.author = who[r[1]].author
      BY <1>6, <2>1
    <2>3. /\ r[1] \in 1 .. N /\ r[2] \in 1 .. N /\ r[1] <= r[2]
          /\ \A n \in r[1] .. r[2] : n \in 1 .. N /\ who[r[1]] = who[n]
      BY <1>7
    <2> QED BY <2>2, <2>3, <1>5
  <1>10. ASSUME NEW n \in 1 .. N PROVE Named(ls, n) = dom(n).author
    <2> DEFINE here == {l \in ls : n \in l.first .. l.last}
               one == CHOOSE l \in here : TRUE
    <2>1. Named(ls, n) = IF here = {} THEN Human ELSE one.author
      BY DEF Named
    <2>2. CASE here # {}
      <3>1. one \in here
        BY <2>2
      <3> HIDE DEF one
      <3>2. one \in ls /\ n \in one.first .. one.last
        BY <3>1
      <3> HIDE DEF here
      <3> QED BY <1>9, <2>1, <2>2, <3>2
    <2>3. CASE here = {}
      <3>1. CASE atts = {}
        BY <1>4, <2>1, <2>3, <3>1
      <3>2. CASE atts # {}
        <4>1. PICK r : RunAround(who, N, n, r)
          BY <1>3, RunExists
        <4>2. r \in runs /\ who[r[1]] = who[n]
          BY <1>8, <4>1
        <4>3. n \in r[1] .. r[2]
          BY <4>1, <1>3 DEF RunAround
        <4>4. lineOf(r) \notin ls
          BY <1>6, <2>3, <4>3
        <4>5. lineOf(r).author = Human
          BY <1>2, <3>2, <4>2, <4>4
        <4> HIDE DEF here
        <4> QED BY <1>5, <1>6, <2>1, <2>3, <4>2, <4>5
      <3> QED BY <3>1, <3>2
    <2> QED BY <2>2, <2>3
  <1>11. NamesLines(ls, c)
    <2>1. DOMAIN Lines(c) = 1 .. N
      BY <1>3 DEF lines
    <2> QED BY <1>9, <1>10, <2>1 DEF NamesLines
  <1>12. \A n \in DOMAIN Lines(c) : dom(n) = DominantAuthor(c, Lines(c)[n], atts, ai) /\ n \in 1 .. N
    BY <1>3 DEF dom, lines
  <1> QED BY <1>10, <1>11, <1>12

----------------------------------------------------------------------------
(* Line endings *)

\* Where lines end.
LineEnds(c) == {i \in DOMAIN c : c[i] = NL \/ i = Len(c)}

\* A content has as many lines as ends of lines.
LEMMA LinesByEnds ==
  ASSUME NEW c \in Seq(Symbols)
  PROVE  Len(Lines(c)) = Cardinality(LineEnds(c)) /\ IsFiniteSet(LineEnds(c))
  <1> DEFINE S == LineEnds(c)
             e == Ordered(S, <)
             n == Cardinality(S)
  <1>1. Len(c) \in Nat /\ DOMAIN c = 1 .. Len(c)
    OBVIOUS
  <1>2. S \subseteq 1 .. Len(c) /\ S \subseteq Int
    BY <1>1 DEF LineEnds
  <1>3. IsFiniteSet(S)
    <2>1. IsFiniteSet(1 .. Len(c))
      BY <1>1, FS_Interval
    <2> HIDE DEF S
    <2> QED BY <1>2, <2>1, FS_Subset
  <1>4. Lines(c) = [k \in DOMAIN e |-> Span(IF k = 1 THEN 0 ELSE e[k - 1], e[k])]
    BY DEF Lines, LineEnds
  <1> HIDE DEF S
  <1>5. n \in Nat /\ e \in [1 .. n -> S]
    BY <1>2, <1>3, NumbersInOrder
  <1> HIDE DEF e, n
  <1>6. DOMAIN Lines(c) = 1 .. n
    BY <1>4, <1>5
  <1>7. DOMAIN Lines(c) = 1 .. Len(Lines(c)) /\ Len(Lines(c)) \in Nat
    BY LinesFacts
  <1>8. Len(Lines(c)) = n
    BY <1>5, <1>6, <1>7
  <1> QED BY <1>3, <1>8 DEF n, S

\* Normalizing keeps the ends of lines.
LEMMA NormalizedEnds ==
  ASSUME NEW c \in Seq(Symbols)
  PROVE  Cardinality(LineEnds(Normalized(c))) = Cardinality(LineEnds(c))
  <1> DEFINE crlf == {i \in DOMAIN c : c[i] = CR /\ i < Len(c) /\ c[i + 1] = NL}
             S == (DOMAIN c) \ crlf
             kept == Ordered(S, <)
             n == Cardinality(S)
             N == Normalized(c)
  <1>0. CR # NL
    BY TrackerAssumption
  <1>1. Len(c) \in Nat /\ DOMAIN c = 1 .. Len(c)
    OBVIOUS
  <1>2. S \subseteq 1 .. Len(c) /\ S \subseteq Int
    BY <1>1
  <1>3. IsFiniteSet(S)
    <2>1. IsFiniteSet(1 .. Len(c))
      BY <1>1, FS_Interval
    <2> HIDE DEF S
    <2> QED BY <1>2, <2>1, FS_Subset
  <1>4. N = [k \in DOMAIN kept |-> c[kept[k]]]
    BY DEF Normalized
  <1>5. LineEnds(c) \subseteq S /\ \A i \in S : i <= Len(c)
    BY <1>0, <1>1 DEF LineEnds
  <1> HIDE DEF S
  <1>6. /\ n \in Nat /\ kept \in [1 .. n -> S]
        /\ \A x \in S : \E k \in 1 .. n : kept[k] = x
        /\ \A j, k \in 1 .. n : j < k => kept[j] < kept[k]
    BY <1>2, <1>3, NumbersInOrder
  <1> HIDE DEF kept, n, N
  <1>7. N \in [1 .. n -> Symbols] /\ \A k \in 1 .. n : N[k] = c[kept[k]]
    <2>1. \A k \in 1 .. n : kept[k] \in 1 .. Len(c)
      BY <1>2, <1>6
    <2>2. \A i \in 1 .. Len(c) : c[i] \in Symbols
      BY <1>1
    <2> QED BY <1>4, <1>6, <2>1, <2>2
  <1>8. Len(N) = n /\ DOMAIN N = 1 .. n
    BY <1>6, <1>7, FunctionIsSeq
  <1>9. ASSUME NEW k \in 1 .. n PROVE k \in LineEnds(N) <=> kept[k] \in LineEnds(c)
    <2>1. kept[k] \in S /\ kept[k] \in 1 .. Len(c) /\ kept[k] \in Int
      BY <1>2, <1>6
    <2>2. k \in LineEnds(N) <=> c[kept[k]] = NL \/ k = n
      BY <1>7, <1>8 DEF LineEnds
    <2>3. kept[k] \in LineEnds(c) <=> c[kept[k]] = NL \/ kept[k] = Len(c)
      BY <1>1, <2>1 DEF LineEnds
    <2>4. ASSUME k = n PROVE kept[k] = Len(c)
      <3>1. 1 <= Len(c)
        BY <2>1, <1>1
      <3>2. Len(c) \in S
        BY <1>1, <1>5, <3>1 DEF LineEnds
      <3>3. PICK j \in 1 .. n : kept[j] = Len(c)
        BY <1>6, <3>2
      <3>4. j = k \/ j < k
        BY <2>4, <1>6
      <3>5. CASE j < k
        <4>1. kept[j] < kept[k]
          BY <1>6, <3>5
        <4> QED BY <1>1, <2>1, <3>3, <4>1
      <3> QED BY <3>3, <3>4, <3>5
    <2>5. ASSUME kept[k] = Len(c) PROVE k = n
      <3>1. n \in 1 .. n
        BY <1>6
      <3>2. kept[n] \in S /\ kept[n] <= Len(c) /\ kept[n] \in Int
        BY <1>2, <1>5, <1>6, <3>1
      <3>3. CASE k < n
        <4>1. kept[k] < kept[n]
          BY <1>6, <3>1, <3>3
        <4> QED BY <1>1, <2>5, <3>2, <4>1
      <3> QED BY <1>6, <3>3
    <2> QED BY <2>2, <2>3, <2>4, <2>5
  <1> DEFINE E == LineEnds(N)
             F == LineEnds(c)
             f == [k \in E |-> kept[k]]
  <1>10. E \subseteq 1 .. n
    BY <1>8 DEF LineEnds
  <1>11. f \in [E -> F]
    BY <1>9, <1>10
  <1>12. \A x \in F : \E k \in E : f[k] = x
    <2> TAKE x \in F
    <2>1. PICK k \in 1 .. n : kept[k] = x
      BY <1>5, <1>6
    <2>2. k \in E
      BY <1>9, <2>1
    <2> QED BY <2>1, <2>2
  <1>13. \A j, k \in E : f[j] = f[k] => j = k
    <2> TAKE j, k \in E
    <2>1. j \in 1 .. n /\ k \in 1 .. n /\ kept[j] \in Int /\ kept[k] \in Int
      BY <1>2, <1>6, <1>10
    <2>2. j < k \/ k < j \/ j = k
      BY <2>1
    <2>3. f[j] = kept[j] /\ f[k] = kept[k]
      OBVIOUS
    <2>4. j < k => kept[j] < kept[k]
      BY <1>6, <2>1
    <2>5. k < j => kept[k] < kept[j]
      BY <1>6, <2>1
    <2> QED BY <2>1, <2>2, <2>3, <2>4, <2>5
  <1>14. IsFiniteSet(E) /\ IsFiniteSet(F)
    <2>1. IsFiniteSet(1 .. n)
      BY <1>6, FS_Interval
    <2>2. IsFiniteSet(E)
      <3> HIDE DEF E
      <3> QED BY <1>10, <2>1, FS_Subset
    <2>3. IsFiniteSet(F)
      BY LinesByEnds
    <2> QED BY <2>2, <2>3
  <1> HIDE DEF E, F, f
  <1>15. f \in Bijection(E, F)
    <2>1. f \in Injection(E, F)
      BY <1>11, <1>13 DEF Injection, IsInjective
    <2>2. f \in Surjection(E, F)
      BY <1>11, <1>12 DEF Surjection
    <2> QED BY <2>1, <2>2 DEF Bijection
  <1>16. Cardinality(E) = Cardinality(F)
    BY <1>14, <1>15, FS_Bijection DEF ExistsBijection
  <1> QED BY <1>16 DEF E, F, N

\* Contents that differ in line endings only have the same lines.
LEMMA SameTextLines ==
  ASSUME NEW a \in Seq(Symbols), NEW b \in Seq(Symbols), SameText(a, b)
  PROVE  DOMAIN Lines(a) = DOMAIN Lines(b)
  <1>1. Normalized(a) = Normalized(b)
    BY DEF SameText
  <1>2. Len(Lines(a)) = Len(Lines(b))
    BY <1>1, NormalizedEnds, LinesByEnds
  <1>3. DOMAIN Lines(a) = 1 .. Len(Lines(a)) /\ DOMAIN Lines(b) = 1 .. Len(Lines(b))
    BY LinesFacts
  <1> QED BY <1>2, <1>3

----------------------------------------------------------------------------
(* Every entry names its lines for whom they hear *)

\* A line is named for one of the newest it hears, in one kind of checkpoint or the
\* other, or for the human if it hears none.
LinesOK(e) ==
  \A n \in DOMAIN Lines(e.content) : Unmarked(e.atts, Lines(e.content)[n]) =>
    \E ai \in BOOLEAN : Heard(e.atts, e.content, Lines(e.content)[n], ai, Named(e.lines, n))

\* A line is a span of the content that is not empty.
LEMMA LineIs ==
  ASSUME NEW c \in Seq(Symbols), NEW n \in DOMAIN Lines(c)
  PROVE  Inside(c, Lines(c)[n]) /\ Lines(c)[n].start < Lines(c)[n].end
  <1>1. /\ Lines(c)[n].start \in Nat /\ Lines(c)[n].end \in Nat
        /\ Lines(c)[n].start < Lines(c)[n].end /\ Lines(c)[n].end <= Len(c)
    BY LinesFacts
  <1> QED BY <1>1 DEF Inside

\* The lines of an update's entry are named for whom they hear.
LEMMA MadeLines ==
  ASSUME NEW c \in Seq(Symbols), NEW B \in Nat, NEW Q, Credits(Q), NEW atts, atts \subseteq AttsOf(B, Q),
         NEW ai \in BOOLEAN, NEW e, e.content = c, e.atts = atts,
         e.lines = AttributionsToLines(atts, c, ai)
  PROVE  LinesOK(e)
  <1> SUFFICES ASSUME NEW n \in DOMAIN Lines(c), Unmarked(atts, Lines(c)[n])
               PROVE  Heard(atts, c, Lines(c)[n], ai, Named(e.lines, n))
    BY DEF LinesOK
  <1> DEFINE line == Lines(c)[n]
  <1>1. Named(e.lines, n) = DominantAuthor(c, line, atts, ai).author
    BY LinesAreNamed
  <1>2. Inside(c, line) /\ line.start < line.end
    BY LineIs
  <1> HIDE DEF line
  <1>3. Unmarked(atts, line)
    BY DEF line
  <1>4. Heard(atts, c, line, ai, DominantAuthor(c, line, atts, ai).author)
    BY <1>2, <1>3, DominantHeard
  <1> QED BY <1>1, <1>4 DEF line

\* Without attributions nobody is heard.
LEMMA NoneHeard ==
  ASSUME NEW c, NEW line, NEW ai, NEW q
  PROVE  ~ Hears({}, c, line, ai, q)
  BY DEF Hears, Owns

\* A human's entry of a file no AI touched names nobody, and hears nobody.
LEMMA EmptyLines ==
  ASSUME NEW e, e.atts = {}, e.lines = {}
  PROVE  LinesOK(e)
  <1> SUFFICES ASSUME NEW n \in DOMAIN Lines(e.content)
               PROVE  Heard({}, e.content, Lines(e.content)[n], TRUE, Named({}, n))
    BY DEF LinesOK
  <1>1. Named({}, n) = Human
    BY DEF Named
  <1> QED BY <1>1, NoneHeard DEF Heard

\* Lines made attributions: whoever is named for a line owns every byte of it.
LEMMA MappedOwner ==
  ASSUME NEW c \in Seq(Symbols), NEW ts \in Nat, NEW ls,
         \A l \in ls : /\ l.first \in DOMAIN Lines(c) /\ l.last \in DOMAIN Lines(c) /\ l.first <= l.last
                       /\ \A k \in l.first .. l.last : l.author = Named(ls, k),
         NEW n \in DOMAIN Lines(c), NEW p \in Nat, Covers(Lines(c)[n], p), NEW q
  PROVE  Owns(LinesToAttributions(ls, c, ts), p, q)
           <=> q = <<Named(ls, n), ts>> /\ \E l \in ls : n \in l.first .. l.last
  <1> DEFINE lines == Lines(c)
             atts == LinesToAttributions(ls, c, ts)
             of(l) == Att(lines[l.first].start, lines[l.last].end, l.author, ts)
  <1>1. /\ Len(lines) \in Nat /\ DOMAIN lines = 1 .. Len(lines)
        /\ \A k \in DOMAIN lines : /\ lines[k].start \in Nat /\ lines[k].end \in Nat
                                   /\ lines[k].start < lines[k].end
        /\ \A j, k \in DOMAIN lines : j < k => lines[j].end <= lines[k].start
    BY LinesFacts
  <1>2. atts = {of(l) : l \in ls}
    <2>1. ls = {k \in ls : {k.first, k.last} \subseteq DOMAIN lines}
      OBVIOUS
    <2> QED BY <2>1 DEF LinesToAttributions
  <1>3. lines[n].start <= p /\ p < lines[n].end /\ n \in DOMAIN lines
    BY DEF Covers
  <1> HIDE DEF lines, atts
  <1>4. ASSUME NEW l \in ls
        PROVE  /\ l.first \in DOMAIN lines /\ l.last \in DOMAIN lines /\ l.first <= l.last
               /\ l.first \in Nat /\ l.last \in Nat /\ n \in Nat
               /\ \A k \in l.first .. l.last : l.author = Named(ls, k)
    BY <1>1, <1>3 DEF lines
  <1>5. ASSUME NEW l \in ls
        PROVE  /\ of(l).start = lines[l.first].start /\ of(l).end = lines[l.last].end
               /\ Who(of(l)) = <<l.author, ts>>
    <2>1. /\ of(l).start = lines[l.first].start /\ of(l).end = lines[l.last].end
          /\ of(l).author = l.author /\ of(l).ts = ts
      BY AttFields
    <2> HIDE DEF of
    <2> QED BY <2>1 DEF Who
  <1> HIDE DEF of
  <1>6. ASSUME NEW l \in ls
        PROVE  (of(l).start <= p /\ p < of(l).end) <=> n \in l.first .. l.last
    <2>1. CASE n \in l.first .. l.last
      <3>1. lines[l.first].start <= lines[n].start
        <4>1. l.first = n \/ l.first < n
          BY <1>4, <2>1
        <4>2. l.first < n => lines[l.first].end <= lines[n].start
          BY <1>1, <1>3, <1>4
        <4> QED BY <4>1, <4>2, <1>1, <1>3, <1>4
      <3>2. lines[n].end <= lines[l.last].end
        <4>1. l.last = n \/ n < l.last
          BY <1>4, <2>1
        <4>2. n < l.last => lines[n].end <= lines[l.last].start
          BY <1>1, <1>3, <1>4
        <4> QED BY <4>1, <4>2, <1>1, <1>3, <1>4
      <3>3. lines[l.first].start <= p
        BY <1>1, <1>3, <1>4, <3>1
      <3>4. p < lines[l.last].end
        BY <1>1, <1>3, <1>4, <3>2
      <3> QED BY <1>5, <2>1, <3>3, <3>4
    <2>2. CASE n < l.first
      <3>1. lines[n].end <= lines[l.first].start
        BY <1>1, <1>3, <1>4, <2>2
      <3>2. ~ (lines[l.first].start <= p)
        BY <1>1, <1>3, <1>4, <3>1
      <3>3. n \notin l.first .. l.last
        BY <1>4, <2>2
      <3> QED BY <1>5, <3>2, <3>3
    <2>3. CASE l.last < n
      <3>1. lines[l.last].end <= lines[n].start
        BY <1>1, <1>3, <1>4, <2>3
      <3>2. ~ (p < lines[l.last].end)
        BY <1>1, <1>3, <1>4, <3>1
      <3>3. n \notin l.first .. l.last
        BY <1>4, <2>3
      <3> QED BY <1>5, <3>2, <3>3
    <2> QED BY <1>4, <2>1, <2>2, <2>3
  <1>7. Owns(atts, p, q) <=> \E l \in ls : of(l).start <= p /\ p < of(l).end /\ q = Who(of(l))
    BY <1>2 DEF Owns
  <1>8. Owns(atts, p, q) <=> \E l \in ls : n \in l.first .. l.last /\ q = <<l.author, ts>>
    BY <1>5, <1>6, <1>7
  <1>9. Owns(atts, p, q) <=> q = <<Named(ls, n), ts>> /\ \E l \in ls : n \in l.first .. l.last
    BY <1>4, <1>8
  <1> QED BY <1>9 DEF atts

\* Every line has a byte that has a say, whoever owns it.
LEMMA SpeakerExists ==
  ASSUME NEW c \in Seq(Symbols), NEW line, Inside(c, line), line.start < line.end
  PROVE  \E p \in Nat : Covers(line, p) /\ \A ai, author : Speaks(c, line, ai, author, p)
  <1>0. line.start \in Nat /\ line.end \in Nat
    BY DEF Inside
  <1>1. CASE IsBlank(Text(c, line))
    <2>1. Covers(line, line.start)
      BY <1>0 DEF Covers
    <2> QED BY <1>0, <1>1, <2>1 DEF Speaks
  <1>2. CASE ~ IsBlank(Text(c, line))
    <2>1. PICK p \in Nat : Covers(line, p) /\ c[p + 1] \notin Blanks
      BY <1>2, BlankText
    <2> QED BY <2>1 DEF Speaks
  <1> QED BY <1>1, <1>2

\* Lines mapped to a content with other line endings hear whom they name.
LEMMA MappedLines ==
  ASSUME NEW c \in Seq(Symbols), NEW ts \in Nat, NEW ls, NEW b, NamesLines(ls, b),
         DOMAIN Lines(b) = DOMAIN Lines(c),
         NEW e, e.content = c, e.atts = LinesToAttributions(ls, c, ts), e.lines = ls
  PROVE  LinesOK(e)
  <1> SUFFICES ASSUME NEW n \in DOMAIN Lines(c)
               PROVE  Heard(e.atts, c, Lines(c)[n], TRUE, Named(ls, n))
    BY DEF LinesOK
  <1> DEFINE line == Lines(c)[n]
             x == Named(ls, n)
             H(q) == Hears(e.atts, c, line, TRUE, q)
             Here == \E l \in ls : n \in l.first .. l.last
  <1>1. \A l \in ls : /\ l.first \in DOMAIN Lines(c) /\ l.last \in DOMAIN Lines(c) /\ l.first <= l.last
                      /\ \A k \in l.first .. l.last : l.author = Named(ls, k)
    BY DEF NamesLines
  <1>2. \A p \in Nat : Covers(line, p) => \A q : Owns(e.atts, p, q) <=> q = <<x, ts>> /\ Here
    BY <1>1, MappedOwner
  <1>3. Inside(c, line) /\ line.start < line.end
    BY LineIs
  <1>4. ~ Here => x = Human
    BY DEF Named
  <1> HIDE DEF line, x, Here
  <1>5. \A q : H(q) => q = <<x, ts>> /\ Here
    BY <1>2 DEF Hears, Speaks
  <1>6. Here => H(<<x, ts>>)
    <2>1. PICK p \in Nat : Covers(line, p) /\ \A ai, author : Speaks(c, line, ai, author, p)
      BY <1>3, SpeakerExists
    <2>2. Here => Owns(e.atts, p, <<x, ts>>)
      BY <1>2, <2>1
    <2> QED BY <2>1, <2>2 DEF Hears
  <1>7. CASE Here
    <2>0. <<x, ts>>[2] = ts /\ ts <= ts
      OBVIOUS
    <2> HIDE DEF H
    <2>1. H(<<x, ts>>) /\ <<x, ts>>[1] = x /\ \A r : H(r) => r[2] <= <<x, ts>>[2]
      <3>1. \A r : H(r) => r = <<x, ts>>
        BY <1>5
      <3> QED BY <1>6, <1>7, <2>0, <3>1
    <2> USE DEF H
    <2>2. NewestHeard(e.atts, c, line, TRUE, x)
      BY <2>1 DEF NewestHeard
    <2> QED BY <2>2 DEF Heard, line, x
  <1>8. CASE ~ Here
    <2>1. \A q : ~ H(q)
      BY <1>5, <1>8
    <2>2. Heard(e.atts, c, line, TRUE, x)
      BY <1>4, <1>8, <2>1 DEF Heard
    <2> QED BY <2>2 DEF line, x
  <1> QED BY <1>7, <1>8

----------------------------------------------------------------------------
(* Lines that an update keeps *)

\* Equal texts are equally long.
LEMMA SameTextSpan ==
  ASSUME NEW a \in Seq(Symbols), NEW b \in Seq(Symbols), NEW s, NEW t, Inside(a, s), Inside(b, t),
         Text(a, s) = Text(b, t)
  PROVE  t.end - t.start = s.end - s.start
  BY TextFacts

\* Places in a span and in the span it is shifted to.
LEMMA ShiftedSpan ==
  ASSUME NEW ds \in Nat, NEW de \in Nat, NEW ns \in Nat, NEW ne \in Nat, NEW os \in Nat,
         NEW oe \in Nat, NEW ws \in Nat, NEW we \in Nat,
         ds <= os, oe <= de, ws - os = ns - ds, we - ws = oe - os, ne - ns = de - ds
  PROVE  /\ ns <= ws /\ we <= ne
         /\ \A p, r \in Nat : r = p + (ws - os) =>
              /\ (ws <= r /\ r < we) <=> (os <= p /\ p < oe)
              /\ os <= p /\ p < oe => /\ p - ds \in Nat /\ p - ds < de - ds
                                     /\ p = ds + (p - ds) /\ r = ns + (p - ds)
                                     /\ ds + (p - ds + 1) = p + 1 /\ ns + (p - ds + 1) = r + 1
  <1>1. ns <= ws /\ we <= ne
    OBVIOUS
  <1>2. ASSUME NEW p \in Nat, NEW r \in Nat, r = p + (ws - os)
        PROVE  /\ (ws <= r /\ r < we) <=> (os <= p /\ p < oe)
               /\ os <= p => p - ds \in Nat
               /\ p < oe => p - ds < de - ds
               /\ p = ds + (p - ds) /\ r = ns + (p - ds)
               /\ ds + (p - ds + 1) = p + 1 /\ ns + (p - ds + 1) = r + 1
    BY <1>2
  <1> QED BY <1>1, <1>2

\* The diff d keeps the line o of the old content, as w.
KeepsLine(d, o, w) ==
  /\ d.op = "Equal"
  /\ d.old.start <= o.start /\ o.end <= d.old.end
  /\ w.start - o.start = d.new.start - d.old.start
  /\ w.end - w.start = o.end - o.start

\* No deletion marker ends up in a line that an edit keeps.
LEMMA KeptLineUnmarked ==
  ASSUME NEW old \in Seq(Symbols), NEW new \in Seq(Symbols), NEW diffs, Script(old, new, diffs),
         NEW d \in diffs, NEW o, NEW w, Inside(old, o), Inside(new, w), KeepsLine(d, o, w),
         NEW B \in Nat, NEW Q, Credits(Q), NEW atts, atts \subseteq AttsOf(B, Q), MarksAre(diffs, atts)
  PROVE  Unmarked(atts, w)
  <1> SUFFICES ASSUME NEW a \in atts, a.start = a.end, Overlaps(a, w.start, w.end)
               PROVE  FALSE
    BY DEF Unmarked
  <1>1. PICK e \in diffs : e.op = "Delete" /\ a.start = e.new.start
    BY DEF MarksAre
  <1>2. DiffIs(old, new, e) /\ DiffIs(old, new, d) /\ (e = d \/ Ahead(e, d) \/ Ahead(d, e))
    BY DEF Script
  <1>3. e # d /\ e.new.start = e.new.end
    BY <1>1, <1>2 DEF KeepsLine, DiffIs
  <1>4. /\ d.old.start \in Nat /\ d.old.end \in Nat /\ d.new.start \in Nat /\ d.new.end \in Nat
        /\ e.new.start \in Nat /\ e.new.end \in Nat
        /\ o.start \in Nat /\ o.end \in Nat /\ w.start \in Nat /\ w.end \in Nat
    BY <1>2 DEF DiffIs, Inside
  <1>5. d.new.end - d.new.start = d.old.end - d.old.start
    <2>1. Inside(old, d.old) /\ Inside(new, d.new) /\ Text(old, d.old) = Text(new, d.new)
      BY <1>2 DEF KeepsLine, DiffIs
    <2> QED BY <2>1, SameTextSpan
  <1>6. d.new.start <= w.start /\ w.end <= d.new.end
    <2> DEFINE ds == d.old.start
               de == d.old.end
               ns == d.new.start
               ne == d.new.end
               os == o.start
               oe == o.end
               ws == w.start
               we == w.end
    <2>1. /\ ds <= os /\ oe <= de /\ ws - os = ns - ds /\ we - ws = oe - os
      BY DEF KeepsLine
    <2>2. /\ ds \in Nat /\ de \in Nat /\ ns \in Nat /\ ne \in Nat
          /\ os \in Nat /\ oe \in Nat /\ ws \in Nat /\ we \in Nat
      BY <1>4
    <2>3. ne - ns = de - ds
      BY <1>5
    <2>4. ns <= ws /\ we <= ne
      <3> HIDE DEF ds, de, ns, ne, os, oe, ws, we
      <3> QED BY <2>1, <2>2, <2>3, ShiftedSpan
    <2> QED BY <2>4
  <1>7. w.start < e.new.start /\ e.new.start < w.end
    <2>1. a.start = e.new.start /\ a.end = e.new.start
      BY <1>1
    <2> QED BY <1>4, <2>1 DEF Overlaps
  <1>8. d.new.end <= e.new.start \/ e.new.end <= d.new.start
    BY <1>2, <1>3 DEF Ahead
  <1> QED BY <1>3, <1>4, <1>6, <1>7, <1>8

\* A line that an edit keeps hears whom it heard.
LEMMA KeptLineHears ==
  ASSUME NEW old \in Seq(Symbols), NEW new \in Seq(Symbols), NEW diffs, Script(old, new, diffs),
         NEW d \in diffs, NEW o, NEW w, Inside(old, o), Inside(new, w), KeepsLine(d, o, w),
         NEW before, NEW after, KeepsOwners(diffs, before, after), NEW ai, NEW q
  PROVE  Hears(after, new, w, ai, q) <=> Hears(before, old, o, ai, q)
  <1>1. /\ d.op = "Equal" /\ d.old.start <= o.start /\ o.end <= d.old.end
        /\ w.start - o.start = d.new.start - d.old.start /\ w.end - w.start = o.end - o.start
    BY DEF KeepsLine
  <1>2. Inside(old, d.old) /\ Inside(new, d.new) /\ Text(old, d.old) = Text(new, d.new)
    BY <1>1 DEF Script, DiffIs
  <1>3. /\ d.old.start \in Nat /\ d.old.end \in Nat /\ d.new.start \in Nat /\ d.new.end \in Nat
        /\ o.start \in Nat /\ o.end \in Nat /\ w.start \in Nat /\ w.end \in Nat
    BY <1>2 DEF Inside
  <1>4. d.new.end - d.new.start = d.old.end - d.old.start
    BY <1>2, SameTextSpan
  <1> DEFINE ds == d.old.start
             de == d.old.end
             ns == d.new.start
             ne == d.new.end
             os == o.start
             oe == o.end
             ws == w.start
             we == w.end
             by == ws - os
  <1>a. /\ ds \in Nat /\ de \in Nat /\ ns \in Nat /\ ne \in Nat
        /\ os \in Nat /\ oe \in Nat /\ ws \in Nat /\ we \in Nat
        /\ ds <= os /\ oe <= de /\ ws - os = ns - ds /\ we - ws = oe - os /\ ne - ns = de - ds
    BY <1>1, <1>3, <1>4
  <1>b. /\ \A p : Covers(w, p) <=> ws <= p /\ p < we
        /\ \A p : Covers(o, p) <=> os <= p /\ p < oe
    BY DEF Covers
  <1>c. /\ \A i \in Nat : i < de - ds => \A z : Owns(after, ns + i, z) <=> Owns(before, ds + i, z)
        /\ \A i \in Nat : i < de - ds => new[ns + (i + 1)] = old[ds + (i + 1)]
    <2>1. \A i \in Nat : i < de - ds => \A z : Owns(after, ns + i, z) <=> Owns(before, ds + i, z)
      BY <1>1 DEF KeepsOwners
    <2>2. \A k \in 1 .. (de - ds) : Text(old, d.old)[k] = old[ds + k]
      BY <1>2, TextFacts
    <2>3. \A k \in 1 .. (ne - ns) : Text(new, d.new)[k] = new[ns + k]
      BY <1>2, TextFacts
    <2> HIDE DEF ds, de, ns, ne
    <2>4. \A i \in Nat : i < de - ds => i + 1 \in 1 .. (de - ds) /\ i + 1 \in 1 .. (ne - ns)
      BY <1>a
    <2> QED BY <1>2, <2>1, <2>2, <2>3, <2>4
  <1> HIDE DEF ds, de, ns, ne, os, oe, ws, we
  <1>6. ASSUME NEW p \in Nat, NEW r \in Nat, r = p + by
        PROVE  /\ Covers(w, r) <=> Covers(o, p)
               /\ Covers(o, p) => /\ new[r + 1] = old[p + 1]
                                  /\ \A z : Owns(after, r, z) <=> Owns(before, p, z)
    <2> DEFINE i == p - ds
    <2>1. /\ (ws <= r /\ r < we) <=> (os <= p /\ p < oe)
          /\ os <= p /\ p < oe => /\ i \in Nat /\ i < de - ds /\ p = ds + i /\ r = ns + i
                                 /\ ds + (i + 1) = p + 1 /\ ns + (i + 1) = r + 1
      BY <1>6, <1>a, ShiftedSpan
    <2> HIDE DEF i
    <2> QED BY <1>b, <1>c, <2>1
  <1>7. ASSUME NEW r \in Nat, Covers(w, r) PROVE \E p \in Nat : r = p + by
    <2>1. r - by \in Nat /\ r = (r - by) + by
      BY <1>7, <1>a, <1>b
    <2> QED BY <2>1
  <1>8. ASSUME NEW p \in Nat, Covers(o, p) PROVE p + by \in Nat
    BY <1>8, <1>a, <1>b
  <1> HIDE DEF by
  <1>9. IsBlank(Text(new, w)) <=> IsBlank(Text(old, o))
    <2>1. IsBlank(Text(new, w)) <=> \A r \in Nat : Covers(w, r) => new[r + 1] \in Blanks
      BY BlankText
    <2>2. IsBlank(Text(old, o)) <=> \A p \in Nat : Covers(o, p) => old[p + 1] \in Blanks
      BY BlankText
    <2>3. ASSUME \A p \in Nat : Covers(o, p) => old[p + 1] \in Blanks, NEW r \in Nat, Covers(w, r)
          PROVE  new[r + 1] \in Blanks
      <3>1. PICK p \in Nat : r = p + by
        BY <1>7, <2>3
      <3> QED BY <1>6, <2>3, <3>1
    <2>4. ASSUME \A r \in Nat : Covers(w, r) => new[r + 1] \in Blanks, NEW p \in Nat, Covers(o, p)
          PROVE  old[p + 1] \in Blanks
      <3>1. p + by \in Nat
        BY <1>8, <2>4
      <3> QED BY <1>6, <2>4, <3>1
    <2> QED BY <2>1, <2>2, <2>3, <2>4
  <1>10. ASSUME NEW p \in Nat, NEW r \in Nat, r = p + by
         PROVE  Speaks(new, w, ai, q[1], r) /\ Owns(after, r, q) <=> Speaks(old, o, ai, q[1], p) /\ Owns(before, p, q)
    BY <1>6, <1>9, <1>10 DEF Speaks
  <1>11. ASSUME Hears(after, new, w, ai, q) PROVE Hears(before, old, o, ai, q)
    <2>1. PICK r \in Nat : Speaks(new, w, ai, q[1], r) /\ Owns(after, r, q)
      BY <1>11 DEF Hears
    <2>2. PICK p \in Nat : r = p + by
      BY <1>7, <2>1 DEF Speaks
    <2> QED BY <1>10, <2>1, <2>2 DEF Hears
  <1>12. ASSUME Hears(before, old, o, ai, q) PROVE Hears(after, new, w, ai, q)
    <2>1. PICK p \in Nat : Speaks(old, o, ai, q[1], p) /\ Owns(before, p, q)
      BY <1>12 DEF Hears
    <2>2. p + by \in Nat
      BY <1>8, <2>1 DEF Speaks
    <2> QED BY <1>10, <2>1, <2>2 DEF Hears
  <1> QED BY <1>11, <1>12

\* Filling the gaps does not change whom a line without a gap hears, and a line that
\* nobody owns a byte of hears the human only.
LEMMA FilledHears ==
  ASSUME NEW c \in Seq(Symbols), NEW B \in Nat, NEW Q, Credits(Q), NEW atts, atts \subseteq AttsOf(B, Q),
         NEW ts, NEW line, Inside(c, line), NEW ai, NEW q
  PROVE  /\ (\A p \in Nat : Covers(line, p) => \E a \in atts : Covers(a, p)) =>
              (Hears(FillGaps(c, atts, Human, ts), c, line, ai, q) <=> Hears(atts, c, line, ai, q))
         /\ (\A p \in Nat : Covers(line, p) => \A a \in atts : ~ Covers(a, p)) =>
              /\ ~ Hears(atts, c, line, ai, q)
              /\ Hears(FillGaps(c, atts, Human, ts), c, line, ai, q) => q[1] = Human
  <1> DEFINE s == Span(0, Len(c))
             mapped == {a \in atts : a.start < a.end}
             U == Uncovered(s, mapped, Human, ts)
             filled == FillGaps(c, atts, Human, ts)
  <1>0. Len(c) \in Nat
    BY LenProperties
  <1>1. s.start = 0 /\ s.end = Len(c)
    BY DEF Span
  <1>2. Spans(mapped)
    BY CreditedAtt DEF Spans
  <1>3. filled = atts \cup U
    BY DEF FillGaps
  <1>4. \A a \in atts : \A p \in Nat : Covers(a, p) => a \in mapped
    <2> TAKE a \in atts
    <2>1. a.start \in Nat /\ a.end \in Nat
      BY CreditedAtt
    <2> QED BY <2>1 DEF Covers
  <1> HIDE DEF s, mapped
  <1>5. \A b \in U : /\ Who(b) = <<Human, ts>>
                     /\ \A p \in Nat : Covers(b, p) => \A m \in mapped : ~ Covers(m, p)
    BY <1>0, <1>1, <1>2, UncoveredIs
  <1> HIDE DEF U, filled
  <1>6. \A S, p : Owns(S, p, q) <=> \E a \in S : Covers(a, p) /\ q = Who(a)
    BY DEF Owns, Covers
  <1>7. ASSUME \A p \in Nat : Covers(line, p) => \E a \in atts : Covers(a, p)
        PROVE  Hears(filled, c, line, ai, q) <=> Hears(atts, c, line, ai, q)
    <2>1. ASSUME NEW p \in Nat, Covers(line, p)
          PROVE  Owns(filled, p, q) <=> Owns(atts, p, q)
      <3>1. PICK a \in atts : Covers(a, p)
        BY <1>7, <2>1
      <3>2. \A b \in U : ~ Covers(b, p)
        BY <1>4, <1>5, <3>1
      <3> QED BY <1>3, <1>6, <3>2
    <2> QED BY <2>1 DEF Hears, Speaks
  <1>8. ASSUME \A p \in Nat : Covers(line, p) => \A a \in atts : ~ Covers(a, p)
        PROVE  /\ ~ Hears(atts, c, line, ai, q)
               /\ Hears(filled, c, line, ai, q) => q[1] = Human
    <2>1. ASSUME NEW p \in Nat, Covers(line, p)
          PROVE  ~ Owns(atts, p, q) /\ (Owns(filled, p, q) => q[1] = Human)
      <3>1. ~ Owns(atts, p, q)
        BY <1>6, <1>8, <2>1
      <3>2. ASSUME Owns(filled, p, q) PROVE q = <<Human, ts>>
        BY <1>3, <1>5, <1>6, <3>1, <3>2
      <3> QED BY <3>1, <3>2
    <2> QED BY <2>1 DEF Hears, Speaks
  <1> QED BY <1>7, <1>8 DEF filled

\* What it is for a line to be settled.
Settled(e, line) ==
  /\ Unmarked(e.atts, line)
  /\ \/ \A p \in Nat : Covers(line, p) => \A a \in e.atts : ~ Covers(a, p)
     \/ \A p \in Nat : Covers(line, p) => \E a \in e.atts : Covers(a, p)
  /\ \A x, y : x \in Newest(e, line, TRUE) \cup Newest(e, line, FALSE)
            /\ y \in Newest(e, line, TRUE) \cup Newest(e, line, FALSE) => x = y

\* A line that is not in Unsettled is settled.
LEMMA SettledIs ==
  ASSUME NEW e, e.content \in Seq(Symbols), NEW B \in Nat, NEW Q, Credits(Q), e.atts \subseteq AttsOf(B, Q),
         NEW n \in DOMAIN Lines(e.content), n \notin Unsettled(e)
  PROVE  Settled(e, Lines(e.content)[n])
  <1> DEFINE line == Lines(e.content)[n]
             here == {a \in e.atts : Overlaps(a, line.start, line.end)}
             newest == Newest(e, line, TRUE) \cup Newest(e, line, FALSE)
  <1>1. /\ ~ \E a \in here : a.start = a.end
        /\ ~ (here # {} /\ \E p \in line.start .. (line.end - 1) : CoveredBy(e.atts, p) = {})
        /\ ~ \E a, b \in newest : a # b
    BY DEF Unsettled
  <1>2. line.start \in Nat /\ line.end \in Nat
    BY LineIs DEF Inside
  <1>3. \A a \in e.atts : a.start \in Nat /\ a.end \in Nat
    BY CreditedAtt
  <1>4. Unmarked(e.atts, line)
    BY <1>1 DEF Unmarked
  <1>5. \A x, y : x \in newest /\ y \in newest => x = y
    BY <1>1
  <1> HIDE DEF line
  <1>6. CASE here = {}
    <2>1. ASSUME NEW p \in Nat, Covers(line, p), NEW a \in e.atts, Covers(a, p) PROVE FALSE
      <3>1. Overlaps(a, line.start, line.end)
        BY <1>2, <1>3, <2>1 DEF Covers, Overlaps
      <3> QED BY <1>6, <3>1
    <2>2. \A p \in Nat : Covers(line, p) => \A a \in e.atts : ~ Covers(a, p)
      BY <2>1
    <2> QED BY <1>4, <1>5, <2>2 DEF Settled, line
  <1>7. CASE here # {}
    <2>1. ASSUME NEW p \in Nat, Covers(line, p) PROVE \E a \in e.atts : Covers(a, p)
      <3>1. p \in line.start .. (line.end - 1)
        BY <1>2, <2>1 DEF Covers
      <3>2. CoveredBy(e.atts, p) # {}
        BY <1>1, <1>7, <3>1
      <3>3. PICK a \in e.atts : Overlaps(a, p, p + 1)
        BY <3>2 DEF CoveredBy
      <3>4. Covers(a, p)
        BY <1>3, <3>3, OverlapsByte
      <3> QED BY <3>4
    <2>2. \A p \in Nat : Covers(line, p) => \E a \in e.atts : Covers(a, p)
      BY <2>1
    <2> QED BY <1>4, <1>5, <2>2 DEF Settled, line
  <1> QED BY <1>6, <1>7

\* A line without a gap hears someone, in every kind of checkpoint.
LEMMA OwnedHears ==
  ASSUME NEW c \in Seq(Symbols), NEW line, Inside(c, line), line.start < line.end, NEW atts,
         \A p \in Nat : Covers(line, p) => \E a \in atts : Covers(a, p), NEW ai
  PROVE  \E q : Hears(atts, c, line, ai, q)
  <1>1. PICK p \in Nat : Covers(line, p) /\ \A i, author : Speaks(c, line, i, author, p)
    BY SpeakerExists
  <1>2. PICK a \in atts : Covers(a, p)
    BY <1>1
  <1>3. Owns(atts, p, Who(a))
    BY <1>2 DEF Owns, Covers
  <1> QED BY <1>1, <1>3 DEF Hears

\* A line w with attributions S hears whom a line o with attributions T hears.
HearAlike(S, c, w, T, b, o, ai) == \A q : Hears(S, c, w, ai, q) <=> Hears(T, b, o, ai, q)

\* A settled line that is named for x, and one that hears the same and is named for y.
NamedAlike(e, B, Q, line, x, wasAi, c, w, after, y, isAi, ts) ==
  /\ e.content \in Seq(Symbols) /\ Inside(e.content, line) /\ line.start < line.end
  /\ B \in Nat /\ Credits(Q) /\ e.atts \subseteq AttsOf(B, Q) /\ Settled(e, line)
  /\ wasAi \in BOOLEAN /\ isAi \in BOOLEAN
  /\ Heard(e.atts, e.content, line, wasAi, x) /\ Heard(after, c, w, isAi, y)
  /\ HearAlike(after, c, w, FillGaps(e.content, e.atts, Human, ts), e.content, line, isAi)

\* Two lines that hear the same are named for the same, if the line was settled.
LEMMA SettledName ==
  ASSUME NEW e, NEW B, NEW Q, NEW line, NEW x, NEW wasAi, NEW c, NEW w, NEW after, NEW y, NEW isAi, NEW ts,
         NamedAlike(e, B, Q, line, x, wasAi, c, w, after, y, isAi, ts)
  PROVE  x = y
  <1>0. /\ e.content \in Seq(Symbols) /\ Inside(e.content, line) /\ line.start < line.end
        /\ B \in Nat /\ Credits(Q) /\ e.atts \subseteq AttsOf(B, Q) /\ Settled(e, line)
        /\ wasAi \in BOOLEAN /\ isAi \in BOOLEAN
        /\ Heard(e.atts, e.content, line, wasAi, x) /\ Heard(after, c, w, isAi, y)
        /\ HearAlike(after, c, w, FillGaps(e.content, e.atts, Human, ts), e.content, line, isAi)
    BY DEF NamedAlike
  <1>1. CASE \A p \in Nat : Covers(line, p) => \A a \in e.atts : ~ Covers(a, p)
    <2>1. \A q : ~ Hears(e.atts, e.content, line, wasAi, q)
      BY <1>0, <1>1, FilledHears
    <2>2. x = Human
      BY <1>0, <2>1 DEF Heard, NewestHeard
    <2>3. \A q : Hears(after, c, w, isAi, q) => q[1] = Human
      BY <1>0, <1>1, FilledHears DEF HearAlike
    <2>4. y = Human
      BY <1>0, <2>3 DEF Heard, NewestHeard
    <2> QED BY <2>2, <2>4
  <1>2. CASE \A p \in Nat : Covers(line, p) => \E a \in e.atts : Covers(a, p)
    <2>1. \A q : Hears(after, c, w, isAi, q) <=> Hears(e.atts, e.content, line, isAi, q)
      BY <1>0, <1>2, FilledHears DEF HearAlike
    <2>2. \E q : Hears(e.atts, e.content, line, isAi, q)
      BY <1>0, <1>2, OwnedHears
    <2>3. \E q : Hears(e.atts, e.content, line, wasAi, q)
      BY <1>0, <1>2, OwnedHears
    <2>4. NewestHeard(after, c, w, isAi, y)
      BY <1>0, <2>1, <2>2 DEF Heard
    <2>5. NewestHeard(e.atts, e.content, line, isAi, y)
      BY <2>1, <2>4 DEF NewestHeard
    <2>6. NewestHeard(e.atts, e.content, line, wasAi, x)
      BY <1>0, <2>3 DEF Heard
    <2>7. Unmarked(e.atts, line)
      BY <1>0 DEF Settled
    <2>8. y \in Newest(e, line, isAi)
      BY <1>0, <2>5, <2>7, NewestByByte
    <2>9. x \in Newest(e, line, wasAi)
      BY <1>0, <2>6, <2>7, NewestByByte
    <2>10. /\ x \in Newest(e, line, TRUE) \cup Newest(e, line, FALSE)
           /\ y \in Newest(e, line, TRUE) \cup Newest(e, line, FALSE)
      BY <1>0, <2>8, <2>9
    <2> QED BY <1>0, <2>10 DEF Settled
  <1> QED BY <1>0, <1>1, <1>2 DEF Settled

----------------------------------------------------------------------------
(* Steps and the theorem on lines *)

\* What Record leaves in the variables.
LEMMA RecordedEntry ==
  ASSUME NEW e, NEW kind, NEW author, NEW history, Record(e, kind, author, history)
  PROVE  entry' = <<e>> /\ entry'[1] = e /\ last' = history
  BY DEF Record

\* Every entry names its lines for whom they hear.
EntryNamed == entry # <<>> => LinesOK(entry[1])

\* Every step leaves an entry that names its lines for whom they hear.
LEMMA EntryNamedNext ==
  ASSUME FilesOK, EntryNamed, [Next]_vars
  PROVE  EntryNamed'
  <1>1. CASE entry' = entry
    BY <1>1 DEF EntryNamed
  <1>2. ASSUME NEW kind, HumanOnly(kind) PROVE EntryNamed'
    <2> DEFINE e == [content |-> content, atts |-> {}, lines |-> {}]
    <2>1. Record(e, kind, Human, <<>>)
      BY <1>2 DEF HumanOnly
    <2>2. LinesOK(e)
      BY EmptyLines
    <2> HIDE DEF e
    <2>3. entry'[1] = e
      BY <2>1, RecordedEntry
    <2> QED BY <2>2, <2>3 DEF EntryNamed
  <1>3. ASSUME NEW kind, NEW author, LineEndings(kind, author) PROVE EntryNamed'
    <2> DEFINE old == entry[1].content
               lines == AttributionsToLines(entry[1].atts, old, kind = "Ai")
               e == [content |-> content, atts |-> LinesToAttributions(lines, content, 2 * clock),
                     lines |-> lines]
    <2>1. Record(e, kind, author, <<>>) /\ entry # <<>> /\ SameText(content, old)
      BY <1>3 DEF LineEndings
    <2>2. old \in Seq(Symbols) /\ content \in Seq(Symbols) /\ 2 * clock \in Nat
      BY <2>1, InContents DEF FilesOK
    <2>3. NamesLines(lines, old)
      BY <2>2, LinesAreNamed
    <2>4. DOMAIN Lines(old) = DOMAIN Lines(content)
      BY <2>1, <2>2, SameTextLines
    <2>5. e.content = content /\ e.atts = LinesToAttributions(lines, content, 2 * clock) /\ e.lines = lines
      OBVIOUS
    <2> HIDE DEF e, lines, old
    <2>6. LinesOK(e)
      BY <2>2, <2>3, <2>4, <2>5, MappedLines
    <2>7. entry'[1] = e
      BY <2>1, RecordedEntry
    <2> QED BY <2>6, <2>7 DEF EntryNamed
  <1>4. ASSUME NEW kind \in Kinds, NEW author \in AuthorsOf(kind), MakeEntry(kind, author) PROVE EntryNamed'
    <2> DEFINE ai == kind = "Ai"
               ts == 2 * clock
               previous == Previous(author, ai)
               filled == FillGaps(previous.content, previous.atts, Human, ts - 1)
               E(u) == [content |-> content, atts |-> u.atts, lines |-> AttributionsToLines(u.atts, content, ai)]
               H(u) == [kind |-> kind, author |-> author, ts |-> ts, old |-> previous.content,
                        before |-> filled, diffs |-> u.diffs, moves |-> u.moves]
    <2>1. PICK u \in UpdateAttributions(previous.content, content, filled, author, ts, ai) :
            Record(E(u), kind, author, <<H(u)>>)
      BY <1>4 DEF MakeEntry
    <2>2. Credited(u.atts, 2 * clock) /\ Account(H(u), E(u))
      BY MadeEntry
    <2>3. /\ E(u).content = content /\ E(u).atts = u.atts /\ E(u).lines = AttributionsToLines(u.atts, content, ai)
          /\ ai \in BOOLEAN
      OBVIOUS
    <2>4. content \in Seq(Symbols)
      BY InContents DEF FilesOK
    <2> HIDE DEF E, H, ai, ts, previous, filled
    <2>5. PICK B, Q : B \in Nat /\ Credits(Q) /\ u.atts \subseteq AttsOf(B, Q)
      BY <2>2 DEF Credited
    <2>6. LinesOK(E(u))
      BY <2>3, <2>4, <2>5, MadeLines
    <2>7. entry'[1] = E(u)
      BY <2>1, RecordedEntry
    <2> QED BY <2>6, <2>7 DEF EntryNamed
  <1>5. \/ entry' = entry
        \/ \E kind \in Kinds : \E author \in AuthorsOf(kind) : Checkpoint(kind, author)
    BY DEF Next, vars, Edit, Reject
  <1>6. \A kind, author : Checkpoint(kind, author) =>
          HumanOnly(kind) \/ LineEndings(kind, author) \/ MakeEntry(kind, author)
    BY DEF Checkpoint
  <1> QED BY <1>1, <1>2, <1>3, <1>4, <1>5, <1>6

\* A line that the diffs keep, and the diff that does.
LEMMA KeptLineIs ==
  ASSUME NEW old \in Seq(Symbols), NEW new \in Seq(Symbols), NEW diffs, NEW x \in KeptLines(diffs, old, new)
  PROVE  /\ x[1] \in DOMAIN Lines(old) /\ x[2] \in DOMAIN Lines(new)
         /\ \E d \in diffs : KeepsLine(d, Lines(old)[x[1]], Lines(new)[x[2]])
  BY DEF KeptLines, KeepsLine

\* What a checkpoint with an update does with the lines it keeps.
LEMMA KeptLineNamed ==
  ASSUME FilesOK, FilesOK', EntryNamed, entry # <<>>,
         NEW kind \in Kinds, NEW author \in AuthorsOf(kind), MakeEntry(kind, author), CleanMoves',
         NEW x \in KeptLines(last'[1].diffs, last'[1].old, content), x[1] \notin Unsettled(entry[1])
  PROVE  Named(entry'[1].lines, x[2]) = Named(entry[1].lines, x[1])
  <1> DEFINE e == entry[1]
             old == e.content
             f == entry'[1]
             h == last'[1]
             ai == kind = "Ai"
             ts == 2 * clock
             filled == FillGaps(old, e.atts, Human, ts - 1)
  <1>1. /\ f.content = content /\ f.lines = AttributionsToLines(f.atts, content, ai)
        /\ h.old = old /\ h.before = filled /\ last' # <<>>
    <2> DEFINE previous == Previous(author, ai)
               before == FillGaps(previous.content, previous.atts, Human, ts - 1)
               E(u) == [content |-> content, atts |-> u.atts, lines |-> AttributionsToLines(u.atts, content, ai)]
               H(u) == [kind |-> kind, author |-> author, ts |-> ts, old |-> previous.content,
                        before |-> before, diffs |-> u.diffs, moves |-> u.moves]
    <2>1. PICK u : Record(E(u), kind, author, <<H(u)>>)
      BY DEF MakeEntry
    <2>2. previous.content = old /\ previous.atts = e.atts
      BY DEF Previous
    <2>3. E(u).content = content /\ E(u).lines = AttributionsToLines(E(u).atts, content, ai)
      OBVIOUS
    <2>4. H(u).old = previous.content /\ H(u).before = before
      OBVIOUS
    <2>5. before = filled
      BY <2>2
    <2> HIDE DEF E, H, previous, before, filled
    <2>6. f = E(u) /\ last' = <<H(u)>>
      BY <2>1, RecordedEntry
    <2>7. h = H(u) /\ last' # <<>>
      BY <2>6
    <2> QED BY <2>2, <2>3, <2>4, <2>5, <2>6, <2>7
  <1>2. Account(h, f)
    BY <1>1 DEF FilesOK
  <1>3. old \in Seq(Symbols) /\ content \in Seq(Symbols)
    BY InContents DEF FilesOK
  <1>4. PICK B, Q : B \in Nat /\ Credits(Q) /\ e.atts \subseteq AttsOf(B, Q)
    BY DEF FilesOK, Credited
  <1>5. MovesClean(h.old, f.content, h.moves)
    BY DEF CleanMoves, MovesClean
  <1>6. LinesOK(e)
    BY DEF EntryNamed
  <1>7. x \in KeptLines(h.diffs, h.old, content) /\ x[1] \notin Unsettled(e) /\ e.content = old /\ ai \in BOOLEAN
    OBVIOUS
  <1>a. filled = FillGaps(old, e.atts, Human, ts - 1)
    OBVIOUS
  <1> HIDE DEF e, old, f, h, ai, filled, ts
  <1>8. /\ Script(old, content, h.diffs) /\ MarksAre(h.diffs, f.atts)
        /\ KeepsOwners(h.diffs, filled, f.atts)
        /\ \E C, R : C \in Nat /\ Credits(R) /\ f.atts \subseteq AttsOf(C, R)
    BY <1>1, <1>2, <1>5 DEF Account
  <1>9. PICK C, R : C \in Nat /\ Credits(R) /\ f.atts \subseteq AttsOf(C, R)
    BY <1>8
  <1> DEFINE o == Lines(old)[x[1]]
             w == Lines(content)[x[2]]
  <1>10. /\ x[1] \in DOMAIN Lines(old) /\ x[2] \in DOMAIN Lines(content)
         /\ \E d \in h.diffs : KeepsLine(d, o, w)
    BY <1>1, <1>3, <1>7, KeptLineIs
  <1>11. Inside(old, o) /\ o.start < o.end /\ Inside(content, w) /\ w.start < w.end
    BY <1>3, <1>10, LineIs
  <1>12. Settled(e, o)
    BY <1>3, <1>4, <1>7, <1>10, SettledIs
  <1>13. PICK was \in BOOLEAN : Heard(e.atts, old, o, was, Named(e.lines, x[1]))
    BY <1>6, <1>7, <1>10, <1>12 DEF LinesOK, Settled
  <1>14. Named(f.lines, x[2]) = DominantAuthor(content, w, f.atts, ai).author
    BY <1>1, <1>3, <1>10, LinesAreNamed
  <1> HIDE DEF o, w
  <1>15. PICK d \in h.diffs : KeepsLine(d, o, w)
    BY <1>10
  <1>16. Unmarked(f.atts, w)
    BY <1>3, <1>8, <1>9, <1>11, <1>15, KeptLineUnmarked
  <1>17. Heard(f.atts, content, w, ai, Named(f.lines, x[2]))
    BY <1>3, <1>9, <1>11, <1>14, <1>16, DominantHeard
  <1>18. \A q : Hears(f.atts, content, w, ai, q) <=> Hears(filled, old, o, ai, q)
    BY <1>3, <1>8, <1>11, <1>15, KeptLineHears
  <1>19. Named(e.lines, x[1]) = Named(f.lines, x[2])
    <2> DEFINE y == Named(e.lines, x[1])
               z == Named(f.lines, x[2])
               t == ts - 1
    <2>1. Heard(e.atts, e.content, o, was, y) /\ Heard(f.atts, content, w, ai, z)
      BY <1>7, <1>13, <1>17
    <2>2. HearAlike(f.atts, content, w, FillGaps(e.content, e.atts, Human, t), e.content, o, ai)
      BY <1>7, <1>18, <1>a DEF HearAlike
    <2>3. /\ e.content \in Seq(Symbols) /\ Inside(e.content, o) /\ o.start < o.end /\ ai \in BOOLEAN
          /\ B \in Nat /\ Credits(Q) /\ e.atts \subseteq AttsOf(B, Q) /\ Settled(e, o)
          /\ was \in BOOLEAN
      BY <1>3, <1>4, <1>7, <1>11, <1>12, <1>13
    <2> HIDE DEF y, z, t
    <2>4. NamedAlike(e, B, Q, o, y, was, content, w, f.atts, z, ai, t)
      BY <2>1, <2>2, <2>3 DEF NamedAlike
    <2>5. y = z
      BY <2>4, SettledName
    <2> QED BY <2>5 DEF y, z
  <1> QED BY <1>19 DEF e, f

\* The step of KeptLinesKeepAuthor.
LineStep ==
  (last' # <<>> /\ entry # <<>> /\ CleanMoves') =>
    \A x \in KeptLines(last'[1].diffs, last'[1].old, content) :
      x[1] \notin Unsettled(entry[1]) =>
        Named(entry'[1].lines, x[2]) = Named(entry[1].lines, x[1])

\* Every step names the lines it keeps as before.
LEMMA LinesKept ==
  ASSUME FilesOK, FilesOK', EntryNamed, [Next]_vars
  PROVE  [LineStep]_vars
  <1> SUFFICES ASSUME Next, last' # <<>> PROVE LineStep
    BY DEF LineStep
  <1>0. PICK kind \in Kinds : \E author \in AuthorsOf(kind) : Checkpoint(kind, author)
    BY DEF Next, Edit, Reject
  <1>1. PICK author \in AuthorsOf(kind) : Checkpoint(kind, author)
    BY <1>0
  <1>2. MakeEntry(kind, author)
    BY <1>1 DEF Checkpoint, HumanOnly, LineEndings, Record
  <1> QED BY <1>1, <1>2, KeptLineNamed DEF LineStep

\* Every entry there ever is names its lines for whom they hear.
LEMMA EntriesNamed == EditsSpec => []EntryNamed
  <1>1. EditsInit => EntryNamed
    BY DEF EditsInit, Init, EntryNamed
  <1>2. FilesOK /\ EntryNamed /\ [EditsNext]_<<side, vars, shellVars>> => EntryNamed'
    <2> SUFFICES ASSUME FilesOK, EntryNamed, [EditsNext]_<<side, vars, shellVars>> PROVE EntryNamed'
      OBVIOUS
    <2>1. [Next]_vars
      BY DEF EditsNext
    <2> QED BY <2>1, EntryNamedNext
  <1> QED BY <1>1, <1>2, FilesAlways, PTL DEF EditsSpec

\* A line an update keeps whole is named for the same author in the new entry as in
\* the one before, for whatever kind of checkpoint either was taken and whatever the
\* update does around it, if its author was settled: it has no deletion marker, no
\* gap that a move left, and one newest author, white space of an AI's included.
THEOREM KeptLinesKeepTheirAuthor == EditsSpec => KeptLinesKeepAuthor
  <1>1. FilesOK /\ FilesOK' /\ EntryNamed /\ [EditsNext]_<<side, vars, shellVars>> => [LineStep]_vars
    <2> SUFFICES ASSUME FilesOK, FilesOK', EntryNamed, [EditsNext]_<<side, vars, shellVars>>
                 PROVE  [LineStep]_vars
      OBVIOUS
    <2>1. [Next]_vars
      BY DEF EditsNext
    <2> QED BY <2>1, LinesKept
  <1>2. EditsSpec => [][LineStep]_vars
    BY <1>1, FilesAlways, EntriesNamed, PTL DEF EditsSpec
  <1> QED BY <1>2, PTL DEF KeptLinesKeepAuthor, LineStep

----------------------------------------------------------------------------
(* The hooks of shell commands *)

Steps == {"off", "asked", "snapped", "running", "fetched", "ending", "done"}

CallType ==
  [at : Steps, wm : Shell!Times \cup {Shell!Never}, late : BOOLEAN, snapshot : Shell!Snapshots,
   taken : Shell!Times, report : SUBSET Files]

Checkpoints == [kind : {"Human", "AiAgent"}, files : (SUBSET Files) \ {{}}]

QueueInv == queue \in Seq(Checkpoints)

\* Nothing is later than now.
PastInv ==
  /\ index <= now /\ worktree <= now
  /\ \A f \in Files : mtime[f] <= now

Timely(c) ==
  /\ call[c].wm <= now /\ call[c].taken <= now
  /\ \A f \in Files : wrote[c][f] <= mtime[f]

\* What the first snapshot says of a file still holds, or the file has been
\* written since.
Fresh(s, c) ==
  /\ s.wm <= call[c].taken
  /\ \A f \in Files : mtime[f] <= call[c].taken =>
       IF f \in DOMAIN s.entries THEN s.entries[f] = mtime[f] ELSE Shell!Covered(f, s.wm)
  /\ \A f \in DOMAIN s.entries : s.entries[f] <= call[c].taken

Compares(c) ==
  /\ call[c].at \in {"snapped", "fetched"} => Fresh(call[c].snapshot, c)
  /\ Shell!At(c, "running") /\ Shell!Active(c) => Fresh(sessions[c], c)

\* A hook that met no fault has its snapshot.
Keeps(c) ==
  c \notin lost /\ Files # {} =>
    /\ Shell!At(c, "snapped") => call[c].snapshot # Shell!None
    /\ Shell!At(c, "running") => Shell!Active(c)

\* A call whose end the daemon was not told is over, one with a session has its
\* command, and only the last step has something to report.
Proceeds(c) ==
  /\ c \in orphans => Shell!At(c, "done")
  /\ c \notin orphans /\ Shell!Active(c) => call[c].at \in {"running", "fetched", "ending"}
  /\ ~Shell!At(c, "ending") => call[c].report = {}

\* What is reported was written, and what was written is reported.
Reports(c) ==
  /\ \A f \in call[c].report : mtime[f] > call[c].taken
  /\ c \notin lost /\ Shell!At(c, "ending") =>
       \A f \in Files : wrote[c][f] > call[c].taken + Grace => f \in call[c].report

CallInv(c) == Timely(c) /\ Compares(c) /\ Keeps(c) /\ Proceeds(c) /\ Reports(c)

ShellInv == Shell!TypeOK /\ QueueInv /\ PastInv /\ \A c \in Calls : CallInv(c)

----------------------------------------------------------------------------
(* Types *)

LEMMA CallsType == Shell!TypeOK => call \in [Calls -> CallType]
  BY DEF Shell!TypeOK, CallType, Steps

LEMMA TimesAreNat ==
  /\ Shell!Times \subseteq Nat /\ 0 \in Shell!Times /\ Shell!Never \in Int /\ Shell!Never \notin Shell!Times
  /\ Grace \in Nat
  /\ \A t \in Shell!Times : t < MaxClock => t + 1 \in Shell!Times
  BY ShellAssumption DEF Shell!Times, Shell!Never, Shell!BoundsAssumption

LEMMA NoneType == Shell!None \in Shell!Snapshots /\ Shell!Idle \in CallType
  <1>1. \A T : <<>> \in [{} -> T]
    OBVIOUS
  <1>2. <<>> \in UNION {[fs -> Shell!Times] : fs \in SUBSET Files}
    BY <1>1
  <1>3. Shell!None \in Shell!Snapshots
    BY <1>2 DEF Shell!None, Shell!Snapshots
  <1> QED BY <1>3, TimesAreNat DEF Shell!Idle, CallType, Steps

\* A snapshot has the files its watermark does not cover.
LEMMA SnapshotOf ==
  ASSUME Shell!TypeOK, NEW wm \in Shell!Times \cup {Shell!Never}, NEW late \in BOOLEAN
  PROVE  /\ Shell!Snapshot(wm, late) \in Shell!Snapshots /\ Shell!Snapshot(wm, late).wm = wm
         /\ DOMAIN Shell!Snapshot(wm, late).entries = {f \in Files : ~Shell!Covered(f, wm)}
         /\ \A f \in Files : ~Shell!Covered(f, wm) => Shell!Snapshot(wm, late).entries[f] = mtime[f]
         /\ Files # {} => Shell!Snapshot(wm, late) # Shell!None
  <1> DEFINE fs == {f \in Files : ~Shell!Covered(f, wm)}
             es == [f \in fs |-> mtime[f]]
             s == Shell!Snapshot(wm, late)
  <1>1. es \in [fs -> Shell!Times] /\ fs \in SUBSET Files
    BY DEF Shell!TypeOK
  <1>2. s = [wm |-> wm, late |-> late /\ wm = Shell!Never, entries |-> es]
    BY DEF Shell!Snapshot
  <1>3. s.wm = wm /\ s.entries = es /\ s.late \in BOOLEAN
    BY <1>2
  <1>4. s \in Shell!Snapshots
    <2>1. es \in UNION {[gs -> Shell!Times] : gs \in SUBSET Files}
      BY <1>1
    <2> HIDE DEF es
    <2> QED BY <1>2, <2>1 DEF Shell!Snapshots
  <1>5. ASSUME Files # {} PROVE s # Shell!None
    <2>1. CASE wm # Shell!Never
      BY <1>3, <2>1 DEF Shell!None
    <2>2. CASE wm = Shell!Never
      <3>1. fs = Files
        BY <2>2 DEF Shell!Covered
      <3>2. DOMAIN s.entries # {}
        BY <1>3, <1>5, <3>1
      <3>3. DOMAIN Shell!None.entries = {}
        BY DEF Shell!None
      <3> QED BY <3>2, <3>3
    <2> QED BY <2>1, <2>2
  <1> HIDE DEF s
  <1> QED BY <1>3, <1>4, <1>5 DEF s

LEMMA SendType ==
  ASSUME Shell!TypeOK, QueueInv, NEW kind \in {"Human", "AiAgent"},
         NEW fs \in SUBSET Files, Shell!Send(kind, fs)
  PROVE  /\ QueueInv' /\ Len(queue') <= MaxQueue /\ uncaptured' \subseteq Files
         /\ \A i \in DOMAIN queue' : /\ queue'[i].kind \in {"Human", "AiAgent"}
                                     /\ queue'[i].files \in (SUBSET Files) \ {{}}
  <1>1. QueueInv' /\ Len(queue') <= MaxQueue /\ uncaptured' \subseteq Files
    <2>1. CASE fs = {}
      BY <2>1 DEF Shell!Send, Shell!TypeOK, QueueInv
    <2>2. CASE fs # {}
      <3>1. [kind |-> kind, files |-> fs] \in Checkpoints
        BY <2>2 DEF Checkpoints
      <3>2. /\ Len(queue) < MaxQueue /\ uncaptured' = uncaptured \ fs
            /\ queue' = Append(queue, [kind |-> kind, files |-> fs])
        BY <2>2 DEF Shell!Send
      <3>3. queue' \in Seq(Checkpoints) /\ Len(queue') = Len(queue) + 1
        BY <3>1, <3>2 DEF QueueInv
      <3>4. PICK n \in Nat : n = Len(queue)
        BY DEF QueueInv
      <3>5. n < MaxQueue => n + 1 <= MaxQueue
        BY <3>4, ShellAssumption DEF Shell!BoundsAssumption
      <3> QED BY <3>2, <3>3, <3>4, <3>5 DEF Shell!TypeOK, QueueInv
    <2> QED BY <2>1, <2>2
  <1>2. \A i \in DOMAIN queue' : queue'[i] \in Checkpoints
    BY <1>1 DEF QueueInv
  <1> QED BY <1>1, <1>2 DEF Checkpoints

\* A step that sends nothing and lets no time go by.
LEMMA TypeCalls ==
  ASSUME Shell!TypeOK, call' \in [Calls -> CallType], sessions' \in [Calls -> Shell!Snapshots],
         stale' \subseteq {c \in Calls : sessions'[c] # Shell!None},
         now' = now, mtime' = mtime, index' = index,
         worktree' = worktree, perFile' = perFile,
         Len(queue') <= MaxQueue, uncaptured' \subseteq Files,
         \A i \in DOMAIN queue' : /\ queue'[i].kind \in {"Human", "AiAgent"}
                                  /\ queue'[i].files \in (SUBSET Files) \ {{}},
         wrote' \in [Calls -> [Files -> Shell!Times \cup {Shell!Never}]],
         lost' \subseteq Calls, orphans' \subseteq Calls
  PROVE  Shell!TypeOK'
  BY DEF Shell!TypeOK, CallType, Steps, Shell!Snapshots, Shell!Times, Shell!Active

LEMMA PruneType ==
  ASSUME Shell!TypeOK
  PROVE  /\ Shell!PruneStale \in [Calls -> Shell!Snapshots] /\ \A c \in Calls : Shell!PruneStale[c] \in {Shell!None, sessions[c]}
         /\ \A c \in Calls : c \notin stale => Shell!PruneStale[c] = sessions[c]
  BY NoneType DEF Shell!PruneStale, Shell!TypeOK

LEMMA DoneCall ==
  ASSUME Shell!TypeOK, NEW c \in Calls, Shell!Done(c)
  PROVE  /\ call' \in [Calls -> CallType] /\ wrote' \in [Calls -> [Files -> Shell!Times \cup {Shell!Never}]]
         /\ call'[c].at = "done" /\ call'[c].report = {} /\ call'[c].taken = 0 /\ call'[c].wm = Shell!Never
         /\ \A f \in Files : wrote'[c][f] = Shell!Never
         /\ \A d \in Calls : d # c => call'[d] = call[d] /\ wrote'[d] = wrote[d]
  <1> DEFINE new == [Shell!Idle EXCEPT !.at = "done"]
  <1>1. new \in CallType
    BY NoneType DEF CallType, Steps
  <1>2. new.at = "done" /\ new.report = {} /\ new.taken = 0 /\ new.wm = Shell!Never
    BY DEF Shell!Idle
  <1>3. call' = [call EXCEPT ![c] = new]
    BY DEF Shell!Done
  <1> HIDE DEF new
  <1>4. call' \in [Calls -> CallType] /\ call'[c] = new /\ \A d \in Calls : d # c => call'[d] = call[d]
    BY <1>1, <1>3, CallsType
  <1>5. /\ wrote' \in [Calls -> [Files -> Shell!Times \cup {Shell!Never}]]
        /\ \A f \in Files : wrote'[c][f] = Shell!Never
        /\ \A d \in Calls : d # c => wrote'[d] = wrote[d]
    BY DEF Shell!Done, Shell!TypeOK
  <1> QED BY <1>2, <1>4, <1>5

LEMMA TypeNext == Shell!TypeOK /\ QueueInv /\ [Shell!Next]_(Shell!vars) => Shell!TypeOK' /\ QueueInv'
  <1> SUFFICES ASSUME Shell!TypeOK, QueueInv, [Shell!Next]_(Shell!vars) PROVE Shell!TypeOK' /\ QueueInv'
    OBVIOUS
  <1>0. call \in [Calls -> CallType]
    BY CallsType
  <1>q. queue' = queue => QueueInv'
    BY DEF QueueInv
  <1>c. ASSUME call' \in [Calls -> CallType], sessions' \in [Calls -> Shell!Snapshots],
               stale' \subseteq {c \in Calls : sessions'[c] # Shell!None},
               now' = now, mtime' = mtime, index' = index, worktree' = worktree,
               perFile' = perFile, queue' = queue, uncaptured' = uncaptured,
               wrote' \in [Calls -> [Files -> Shell!Times \cup {Shell!Never}]],
               lost' \subseteq Calls, orphans' \subseteq Calls
        PROVE  Shell!TypeOK' /\ QueueInv'
    BY <1>c, <1>q, TypeCalls DEF Shell!TypeOK
  <1>s. /\ sessions \in [Calls -> Shell!Snapshots] /\ stale \subseteq {c \in Calls : sessions[c] # Shell!None}
        /\ wrote \in [Calls -> [Files -> Shell!Times \cup {Shell!Never}]]
        /\ lost \subseteq Calls /\ orphans \subseteq Calls
    BY DEF Shell!TypeOK, Shell!Active
  <1>1. ASSUME NEW c \in Calls, Shell!PreQuery(c) PROVE Shell!TypeOK' /\ QueueInv'
    <2>1. call' \in [Calls -> CallType]
      <3>1. CASE call' = [call EXCEPT ![c].at = "asked", ![c].wm = worktree,
                                      ![c].late = (worktree = Shell!Never)]
        <4>0. PICK l \in BOOLEAN : l = (worktree = Shell!Never)
          OBVIOUS
        <4> DEFINE new == [call[c] EXCEPT !.at = "asked", !.wm = worktree, !.late = l]
        <4>1. new \in CallType
          BY ZenonT(30), <1>0 DEF CallType, Steps, Shell!TypeOK
        <4>2. call' = [call EXCEPT ![c] = new]
          BY <3>1, <4>0
        <4> HIDE DEF new
        <4> QED BY <1>0, <4>1, <4>2
      <3>2. CASE call' = [call EXCEPT ![c].at = "asked", ![c].wm = index]
        <4> DEFINE new == [call[c] EXCEPT !.at = "asked", !.wm = index]
        <4>1. new \in CallType
          BY ZenonT(30), <1>0 DEF CallType, Steps, Shell!TypeOK
        <4>2. call' = [call EXCEPT ![c] = new]
          BY <3>2
        <4> HIDE DEF new
        <4> QED BY <1>0, <4>1, <4>2
      <3> QED BY <1>1, <3>1, <3>2 DEF Shell!PreQuery
    <2> QED BY <1>1, <1>c, <1>s, <2>1 DEF Shell!PreQuery, Shell!daemon
  <1>2. ASSUME NEW c \in Calls, Shell!PreSnapshot(c) PROVE Shell!TypeOK' /\ QueueInv'
    <2> DEFINE wm == IF call[c].late THEN index ELSE call[c].wm
    <2>1. wm \in Shell!Times \cup {Shell!Never} /\ call[c].late \in BOOLEAN
      BY <1>0 DEF CallType, Shell!TypeOK
    <2>2. Shell!Snapshot(wm, call[c].late) \in Shell!Snapshots
      BY <2>1, SnapshotOf
    <2>3. call' \in [Calls -> CallType]
      <3>1. PICK s \in Shell!Snapshots :
              call' = [call EXCEPT ![c].at = "snapped", ![c].wm = Shell!Never, ![c].late = FALSE,
                                   ![c].snapshot = s, ![c].taken = now]
        BY <1>2, <2>2 DEF Shell!PreSnapshot
      <3> DEFINE new == [call[c] EXCEPT !.at = "snapped", !.wm = Shell!Never, !.late = FALSE,
                                        !.snapshot = s, !.taken = now]
      <3>2. new \in CallType
        BY ZenonT(30), <1>0 DEF CallType, Steps, Shell!TypeOK
      <3>3. call' = [call EXCEPT ![c] = new]
        BY <3>1
      <3> HIDE DEF new
      <3> QED BY <1>0, <3>2, <3>3
    <2> QED BY <1>2, <1>c, <1>s, <2>3 DEF Shell!PreSnapshot, Shell!daemon, Shell!history
  <1>3. ASSUME NEW c \in Calls, Shell!PreStart(c) PROVE Shell!TypeOK' /\ QueueInv'
    <2>1. call' \in [Calls -> CallType]
      BY ZenonT(30), <1>0, <1>3, NoneType DEF Shell!PreStart, CallType, Steps
    <2>2. sessions' \in [Calls -> Shell!Snapshots] /\ stale' = {}
      BY <1>0, <1>3, PruneType DEF Shell!PreStart, CallType
    <2>3. \E fs \in SUBSET Files : Shell!Send("Human", fs)
      <3>1. DOMAIN call[c].snapshot.entries \in SUBSET Files
        BY <1>0 DEF CallType, Shell!Snapshots
      <3> QED BY <1>3, <3>1 DEF Shell!PreStart
    <2>4. lost' \subseteq Calls
      BY <1>3, <1>s DEF Shell!PreStart
    <2>5. /\ QueueInv' /\ Len(queue') <= MaxQueue /\ uncaptured' \subseteq Files
          /\ \A i \in DOMAIN queue' : /\ queue'[i].kind \in {"Human", "AiAgent"}
                                      /\ queue'[i].files \in (SUBSET Files) \ {{}}
      BY <2>3, SendType
    <2>6. /\ now' = now /\ mtime' = mtime /\ index' = index /\ worktree' = worktree
          /\ perFile' = perFile /\ wrote' = wrote /\ orphans' = orphans
      BY <1>3 DEF Shell!PreStart
    <2> QED BY <1>s, <2>1, <2>2, <2>4, <2>5, <2>6, TypeCalls
  <1>4. ASSUME NEW c \in Calls, Shell!PreFail(c) PROVE Shell!TypeOK' /\ QueueInv'
    <2>1. call' \in [Calls -> CallType] /\ lost' \subseteq Calls
      <3> DEFINE new == [call[c] EXCEPT !.at = "running", !.wm = Shell!Never, !.late = FALSE,
                                        !.snapshot = Shell!None]
      <3>1. new \in CallType
        BY <1>0, NoneType DEF CallType, Steps
      <3>2. call' = [call EXCEPT ![c] = new]
        BY <1>4 DEF Shell!PreFail
      <3> HIDE DEF new
      <3>3. call' \in [Calls -> CallType]
        BY <1>0, <3>1, <3>2
      <3> QED BY <1>4, <1>s, <3>3 DEF Shell!PreFail
    <2> QED BY <1>4, <1>c, <1>s, <2>1 DEF Shell!PreFail, Shell!daemon
  <1>5. ASSUME NEW c \in Calls, Shell!PostQuery(c) PROVE Shell!TypeOK' /\ QueueInv'
    <2>1. call' \in [Calls -> CallType] /\ lost' \subseteq Calls
      <3> DEFINE found == [call[c] EXCEPT !.at = "fetched", !.snapshot = sessions[c]]
                 gone == [call[c] EXCEPT !.at = "ending"]
      <3>1. found \in CallType /\ gone \in CallType
        BY <1>0, <1>s DEF CallType, Steps
      <3>2. call' = [call EXCEPT ![c] = found] \/ call' = [call EXCEPT ![c] = gone]
        BY <1>5 DEF Shell!PostQuery
      <3> HIDE DEF found, gone
      <3>3. call' \in [Calls -> CallType]
        BY <1>0, <3>1, <3>2
      <3> QED BY <1>5, <1>s, <3>3 DEF Shell!PostQuery
    <2> QED BY <1>5, <1>c, <1>s, <2>1 DEF Shell!PostQuery, Shell!daemon
  <1>6. ASSUME NEW c \in Calls, Shell!PostSnapshot(c) PROVE Shell!TypeOK' /\ QueueInv'
    <2>1. PICK wm \in Shell!Times \cup {Shell!Never} :
            call' = [call EXCEPT ![c].at = "ending", ![c].snapshot = Shell!None,
                                 ![c].report = Shell!Diff(call[c].snapshot, Shell!Snapshot(wm, FALSE))]
      <3>1. call[c].snapshot.wm \in Shell!Times \cup {Shell!Never} /\ index \in Shell!Times \cup {Shell!Never}
        BY <1>0 DEF CallType, Shell!Snapshots, Shell!TypeOK
      <3> QED BY <1>6, <3>1 DEF Shell!PostSnapshot
    <2>2. Shell!Diff(call[c].snapshot, Shell!Snapshot(wm, FALSE)) \in SUBSET Files
      BY SnapshotOf DEF Shell!Diff
    <2>3. call' \in [Calls -> CallType]
      BY ZenonT(30), <1>0, <2>1, <2>2, NoneType DEF CallType, Steps
    <2>4. lost' \subseteq Calls
      BY <1>6, <1>s DEF Shell!PostSnapshot
    <2> QED BY <1>6, <1>c, <1>s, <2>3, <2>4 DEF Shell!PostSnapshot, Shell!daemon
  <1>7. ASSUME NEW c \in Calls, Shell!PostFail(c) PROVE Shell!TypeOK' /\ QueueInv'
    <2>1. call' \in [Calls -> CallType] /\ lost' \subseteq Calls
      BY <1>0, <1>7, <1>s, NoneType DEF Shell!PostFail, CallType, Steps
    <2> QED BY <1>7, <1>c, <1>s, <2>1 DEF Shell!PostFail, Shell!daemon
  <1>8. ASSUME NEW c \in Calls, Shell!PostEnd(c) PROVE Shell!TypeOK' /\ QueueInv'
    <2>1. /\ call' \in [Calls -> CallType]
          /\ wrote' \in [Calls -> [Files -> Shell!Times \cup {Shell!Never}]]
      BY <1>8, DoneCall DEF Shell!PostEnd
    <2>2. /\ sessions' \in [Calls -> Shell!Snapshots]
          /\ stale' \subseteq {d \in Calls : sessions'[d] # Shell!None} /\ orphans' \subseteq Calls
      BY <1>8, <1>s, NoneType DEF Shell!PostEnd
    <2>3. /\ QueueInv' /\ Len(queue') <= MaxQueue /\ uncaptured' \subseteq Files
          /\ \A i \in DOMAIN queue' : /\ queue'[i].kind \in {"Human", "AiAgent"}
                                      /\ queue'[i].files \in (SUBSET Files) \ {{}}
      <3>1. call[c].report \in SUBSET Files
        BY <1>0 DEF CallType
      <3> QED BY <1>8, <3>1, SendType DEF Shell!PostEnd
    <2> QED BY <1>8, <1>s, <2>1, <2>2, <2>3, TypeCalls DEF Shell!PostEnd
  <1>9. ASSUME NEW c \in Calls, Shell!Interrupt(c) PROVE Shell!TypeOK' /\ QueueInv'
    <2>1. /\ call' \in [Calls -> CallType]
          /\ wrote' \in [Calls -> [Files -> Shell!Times \cup {Shell!Never}]]
      BY <1>9, DoneCall DEF Shell!Interrupt
    <2>2. orphans' \subseteq Calls
      BY <1>9, <1>s DEF Shell!Interrupt
    <2> QED BY <1>9, <1>c, <1>s, <2>1, <2>2 DEF Shell!Interrupt, Shell!daemon
  <1>10. ASSUME NEW c \in Calls, Shell!GoStale(c) PROVE Shell!TypeOK' /\ QueueInv'
    BY <1>0, <1>10, <1>c, <1>s DEF Shell!GoStale, Shell!Active, Shell!history
  <1>t. Shell!Tick => now' \in Shell!Times
    BY TimesAreNat DEF Shell!Tick, Shell!TypeOK
  <1>11. ASSUME NEW c \in Calls, NEW f \in Files, Shell!Write(c, f) PROVE Shell!TypeOK' /\ QueueInv'
    <2>1. now' \in Shell!Times
      BY <1>11, <1>t DEF Shell!Write
    <2>2. mtime' \in [Files -> Shell!Times] /\ wrote' \in [Calls -> [Files -> Shell!Times \cup {Shell!Never}]]
      BY <1>11, <1>s, <2>1 DEF Shell!Write, Shell!TypeOK
    <2> QED BY <1>11, <1>q, <2>1, <2>2 DEF Shell!Write, Shell!daemon, Shell!TypeOK, Shell!Active
  <1>12. ASSUME NEW f \in Files, Shell!Edit(f) PROVE Shell!TypeOK' /\ QueueInv'
    <2>1. now' \in Shell!Times
      BY <1>12, <1>t DEF Shell!Edit
    <2>2. mtime' \in [Files -> Shell!Times]
      BY <1>12, <2>1 DEF Shell!Edit, Shell!TypeOK
    <2> QED BY <1>12, <1>q, <2>1, <2>2 DEF Shell!Edit, Shell!daemon, Shell!TypeOK, Shell!Active
  <1>13. ASSUME NEW f \in Files, Shell!FileEdit(f) PROVE Shell!TypeOK' /\ QueueInv'
    <2>1. /\ QueueInv' /\ Len(queue') <= MaxQueue /\ uncaptured' \subseteq Files
          /\ \A i \in DOMAIN queue' : /\ queue'[i].kind \in {"Human", "AiAgent"}
                                      /\ queue'[i].files \in (SUBSET Files) \ {{}}
      BY <1>13, SendType DEF Shell!FileEdit
    <2> QED BY <1>0, <1>13, <1>s, <2>1, TypeCalls DEF Shell!FileEdit
  <1>14. ASSUME Shell!WriteIndex \/ Shell!Wait PROVE Shell!TypeOK' /\ QueueInv'
    <2>1. now' \in Shell!Times
      BY <1>14, <1>t DEF Shell!WriteIndex, Shell!Wait
    <2> QED BY <1>14, <1>q, <2>1 DEF Shell!WriteIndex, Shell!Wait, Shell!daemon, Shell!history,
                                     Shell!TypeOK, Shell!Active
  <1>15. ASSUME Shell!StartElsewhere PROVE Shell!TypeOK' /\ QueueInv'
    <2>1. sessions' \in [Calls -> Shell!Snapshots] /\ stale' = {} /\ lost' \subseteq Calls
      BY <1>15, <1>s, PruneType DEF Shell!StartElsewhere
    <2> QED BY <1>0, <1>15, <1>c, <1>s, <2>1 DEF Shell!StartElsewhere
  <1>16. ASSUME Shell!Apply PROVE Shell!TypeOK' /\ QueueInv'
    <2>1. queue' = Tail(queue) /\ queue # <<>>
      BY <1>16 DEF Shell!Apply
    <2>2. queue' \in Seq(Checkpoints) /\ Len(queue') = Len(queue) - 1
      BY <2>1 DEF QueueInv
    <2>3. PICK n \in Nat : n = Len(queue)
      BY DEF QueueInv
    <2>4. Len(queue') <= MaxQueue
      BY <2>2, <2>3, ShellAssumption DEF Shell!TypeOK, Shell!BoundsAssumption
    <2>5. \A i \in DOMAIN queue' : /\ queue'[i].kind \in {"Human", "AiAgent"}
                                   /\ queue'[i].files \in (SUBSET Files) \ {{}}
      <3>1. \A i \in DOMAIN queue' : queue'[i] \in Checkpoints
        BY <2>2
      <3> QED BY <3>1 DEF Checkpoints
    <2>6. /\ worktree' \in Shell!Times \cup {Shell!Never} /\ perFile' \in BOOLEAN
          /\ UNCHANGED <<now, mtime, index, sessions, stale, call, Shell!history>>
      BY <1>16 DEF Shell!Apply, Shell!TypeOK
    <2>7. QueueInv'
      BY <2>2 DEF QueueInv
    <2> QED BY <2>4, <2>5, <2>6, <2>7 DEF Shell!TypeOK, Shell!Active, Shell!history
  <1>17. ASSUME Shell!Restart PROVE Shell!TypeOK' /\ QueueInv'
    <2>1. /\ sessions' = [c \in Calls |-> Shell!None] /\ stale' = {} /\ queue' = <<>>
          /\ worktree' = Shell!Never /\ perFile' = FALSE /\ lost' \subseteq Calls
          /\ UNCHANGED <<now, mtime, index, call, uncaptured, wrote, orphans>>
      BY <1>17, <1>s DEF Shell!Restart
    <2>2. QueueInv' /\ Len(queue') <= MaxQueue /\ DOMAIN queue' = {}
      BY <2>1, ShellAssumption DEF QueueInv, Shell!BoundsAssumption
    <2>3. sessions' \in [Calls -> Shell!Snapshots]
      BY <2>1, NoneType
    <2> QED BY <2>1, <2>2, <2>3 DEF Shell!TypeOK, Shell!Active
  <1>18. ASSUME UNCHANGED Shell!vars PROVE Shell!TypeOK' /\ QueueInv'
    BY <1>18, <1>q DEF Shell!vars, Shell!history, Shell!TypeOK, Shell!Active
  <1> QED
    BY <1>1, <1>2, <1>3, <1>4, <1>5, <1>6, <1>7, <1>8, <1>9, <1>10, <1>11, <1>12, <1>13,
       <1>14, <1>15, <1>16, <1>17, <1>18
       DEF Shell!Next

----------------------------------------------------------------------------
(* One call *)

LEMMA Numbers ==
  ASSUME Shell!TypeOK, NEW c \in Calls
  PROVE  /\ now \in Nat /\ index \in Int /\ worktree \in Int /\ Grace \in Nat
         /\ call[c].taken \in Nat /\ call[c].wm \in Int
         /\ \A f \in Files : mtime[f] \in Nat /\ wrote[c][f] \in Int
         /\ call[c].report \subseteq Files
         /\ call[c].snapshot \in Shell!Snapshots /\ sessions[c] \in Shell!Snapshots
         /\ \A s \in Shell!Snapshots : /\ s.wm \in Int /\ DOMAIN s.entries \subseteq Files
                                 /\ \A f \in DOMAIN s.entries : s.entries[f] \in Nat
  <1>1. Shell!Times \cup {Shell!Never} \subseteq Int /\ Shell!Times \subseteq Nat
    BY TimesAreNat
  <1>2. call[c] \in CallType
    BY CallsType
  <1>3. \A s \in Shell!Snapshots : /\ s.wm \in Int /\ DOMAIN s.entries \subseteq Files
                             /\ \A f \in DOMAIN s.entries : s.entries[f] \in Nat
    BY <1>1 DEF Shell!Snapshots
  <1>4. /\ now \in Nat /\ index \in Int /\ worktree \in Int
        /\ \A f \in Files : mtime[f] \in Nat /\ wrote[c][f] \in Int
        /\ sessions[c] \in Shell!Snapshots
    BY <1>1 DEF Shell!TypeOK
  <1>5. /\ call[c].taken \in Nat /\ call[c].wm \in Int /\ call[c].report \subseteq Files
        /\ call[c].snapshot \in Shell!Snapshots
    BY <1>1, <1>2 DEF CallType
  <1> QED BY <1>3, <1>4, <1>5, TimesAreNat

\* Files change only by being written now.
Passes ==
  /\ now' \in Nat /\ now' >= now
  /\ \A f \in Files : \/ mtime'[f] = mtime[f]
                      \/ mtime'[f] \in Nat /\ mtime'[f] > now

LEMMA FreshStays ==
  ASSUME Shell!TypeOK, PastInv, Passes, NEW c \in Calls, Timely(c),
         call'[c].taken = call[c].taken, NEW s \in Shell!Snapshots, Fresh(s, c)
  PROVE  /\ s.wm <= call'[c].taken
         /\ \A f \in Files : mtime'[f] <= call'[c].taken =>
              IF f \in DOMAIN s.entries THEN s.entries[f] = mtime'[f]
              ELSE s.wm # Shell!Never /\ mtime'[f] <= s.wm + Grace
         /\ \A f \in DOMAIN s.entries : s.entries[f] <= call'[c].taken
  <1>1. ASSUME NEW f \in Files, mtime'[f] <= call'[c].taken PROVE mtime'[f] = mtime[f]
    <2>1. call[c].taken <= now /\ now \in Nat /\ call[c].taken \in Nat
      BY Numbers DEF Timely
    <2> QED BY <1>1, <2>1 DEF Passes
  <1> QED BY <1>1 DEF Fresh, Shell!Covered

\* A call is left alone: its session goes only when that counts as a fault.
LEMMA CallStays ==
  ASSUME Shell!TypeOK, PastInv, Passes, NEW c \in Calls, CallInv(c),
         call'[c] = call[c], wrote'[c] = wrote[c],
         \/ sessions'[c] = sessions[c]
         \/ sessions'[c] = Shell!None /\ c \in lost',
         c \in lost => c \in lost', c \in orphans' <=> c \in orphans
  PROVE  CallInv(c)'
  <1>n. /\ now \in Nat /\ call[c].taken \in Nat /\ call[c].wm \in Int
        /\ call[c].taken <= now /\ call[c].wm <= now
        /\ \A f \in Files : mtime[f] \in Nat /\ wrote[c][f] \in Int /\ wrote[c][f] <= mtime[f]
                            /\ mtime[f] <= now
        /\ call[c].report \subseteq Files /\ call[c].snapshot \in Shell!Snapshots /\ sessions[c] \in Shell!Snapshots
    BY Numbers DEF CallInv, Timely, PastInv
  <1>m. \A f \in Files : mtime'[f] \in Nat /\ mtime'[f] >= mtime[f]
    BY <1>n DEF Passes
  <1>1. Timely(c)'
    <2>1. call[c].wm <= now' /\ call[c].taken <= now'
      BY <1>n DEF Passes
    <2>2. \A f \in Files : wrote[c][f] <= mtime'[f]
      BY <1>n, <1>m
    <2> QED BY <2>1, <2>2 DEF Timely
  <1>2. Compares(c)'
    <2>1. \A s \in Shell!Snapshots : Fresh(s, c) => Fresh(s, c)'
      BY FreshStays DEF CallInv, Fresh, Shell!Covered, Shell!Never
    <2> QED BY <1>n, <2>1 DEF CallInv, Compares, Shell!At, Shell!Active, Shell!None
  <1>3. Keeps(c)' /\ Proceeds(c)'
    BY DEF CallInv, Keeps, Proceeds, Shell!At, Shell!Active, Shell!None
  <1>4. Reports(c)'
    <2>1. \A f \in call[c].report : mtime'[f] > call[c].taken
      BY <1>n, <1>m DEF CallInv, Reports
    <2> QED BY <2>1 DEF CallInv, Reports, Shell!At
  <1> QED BY <1>1, <1>2, <1>3, <1>4 DEF CallInv

\* A step of a call: what it leaves alone, and that nothing is written.
LEMMA ActsPreQuery ==
  ASSUME Shell!TypeOK, PastInv, NEW c \in Calls, CallInv(c), Shell!PreQuery(c)
  PROVE  CallInv(c)'
  <1>0. call[c] \in CallType /\ call \in [Calls -> CallType]
    BY CallsType
  <1>1. /\ Shell!At(c, "off") /\ call'[c].at = "asked" /\ call'[c].wm \in {worktree, index}
        /\ call'[c].taken = call[c].taken /\ call'[c].report = call[c].report
        /\ UNCHANGED <<now, mtime, sessions, wrote, orphans>>
    BY <1>0 DEF Shell!PreQuery, CallType, Shell!daemon
  <1>2. Timely(c)'
    BY <1>1 DEF CallInv, Timely, PastInv
  <1> QED BY <1>1, <1>2 DEF CallInv, Compares, Keeps, Proceeds, Reports, Shell!At,
                            Shell!Active, Shell!None

LEMMA ActsPreSnapshot ==
  ASSUME Shell!TypeOK, PastInv, NEW c \in Calls, CallInv(c), Shell!PreSnapshot(c)
  PROVE  CallInv(c)'
  <1>0. call[c] \in CallType /\ call \in [Calls -> CallType]
    BY CallsType
  <1> DEFINE wm == IF call[c].late THEN index ELSE call[c].wm
  <1>1. /\ Shell!At(c, "asked") /\ call'[c].at = "snapped" /\ call'[c].wm = Shell!Never
        /\ call'[c].taken = now /\ call'[c].report = call[c].report
        /\ call'[c].snapshot = Shell!Snapshot(wm, call[c].late)
        /\ UNCHANGED <<now, mtime, sessions, wrote, orphans, lost>>
    BY <1>0 DEF Shell!PreSnapshot, CallType, Shell!daemon, Shell!history
  <1>2. wm \in Shell!Times \cup {Shell!Never} /\ call[c].late \in BOOLEAN /\ wm <= now
    BY <1>0 DEF CallType, Shell!TypeOK, CallInv, Timely, PastInv
  <1>n. now \in Nat /\ \A f \in Files : mtime[f] \in Nat /\ mtime[f] <= now
    BY Numbers DEF PastInv
  <1> HIDE DEF wm
  <1>3. /\ call'[c].snapshot.wm = wm /\ DOMAIN call'[c].snapshot.entries = {f \in Files : ~Shell!Covered(f, wm)}
        /\ \A f \in Files : ~Shell!Covered(f, wm) => call'[c].snapshot.entries[f] = mtime[f]
        /\ Files # {} => call'[c].snapshot # Shell!None
    BY <1>1, <1>2, SnapshotOf
  <1>4. Timely(c)'
    BY <1>1, <1>n DEF CallInv, Timely, Shell!Never
  <1>5. Fresh(call[c].snapshot, c)'
    BY <1>1, <1>2, <1>3, <1>n DEF Fresh, Shell!Covered, Shell!Never
  <1> QED BY <1>1, <1>3, <1>4, <1>5 DEF CallInv, Compares, Keeps, Proceeds, Reports, Shell!At,
                                        Shell!Active, Shell!None

LEMMA ActsPreStart ==
  ASSUME Shell!TypeOK, PastInv, NEW c \in Calls, CallInv(c), Shell!PreStart(c)
  PROVE  CallInv(c)'
  <1>0. call[c] \in CallType /\ call \in [Calls -> CallType]
    BY CallsType
  <1>1. /\ Shell!At(c, "snapped") /\ call'[c].at = "running" /\ call'[c].wm = call[c].wm
        /\ call'[c].taken = call[c].taken /\ call'[c].report = call[c].report
        /\ lost' = lost \cup stale
        /\ UNCHANGED <<now, mtime, wrote, orphans>>
    BY <1>0 DEF Shell!PreStart, CallType
  <1>2. sessions'[c] = call[c].snapshot
    BY DEF Shell!PreStart, Shell!PruneStale
  <1>3. Timely(c)'
    BY <1>1 DEF CallInv, Timely
  <1>4. Fresh(call[c].snapshot, c) => Fresh(sessions[c], c)'
    BY <1>1, <1>2 DEF Fresh, Shell!Covered, Shell!Never
  <1> QED BY <1>1, <1>2, <1>3, <1>4
          DEF CallInv, Compares, Keeps, Proceeds, Reports, Shell!At, Shell!Active, Shell!None

LEMMA ActsPreFail ==
  ASSUME Shell!TypeOK, PastInv, NEW c \in Calls, CallInv(c), Shell!PreFail(c)
  PROVE  CallInv(c)'
  <1>0. call[c] \in CallType /\ call \in [Calls -> CallType]
    BY CallsType
  <1>1. /\ call[c].at \in {"asked", "snapped"} /\ call'[c].at = "running" /\ call'[c].wm = Shell!Never
        /\ call'[c].taken = call[c].taken /\ call'[c].report = call[c].report
        /\ c \in lost' /\ UNCHANGED <<now, mtime, sessions, wrote, orphans>>
    BY <1>0 DEF Shell!PreFail, CallType, Shell!daemon
  <1>2. Timely(c)' /\ ~Shell!Active(c)
    <2>1. ~Shell!Active(c)
      BY <1>1 DEF CallInv, Proceeds, Shell!At
    <2>2. Shell!Never <= now
      BY Numbers DEF Shell!Never
    <2> QED BY <1>1, <2>1, <2>2 DEF CallInv, Timely, Shell!Never
  <1> QED BY <1>1, <1>2 DEF CallInv, Compares, Keeps, Proceeds, Reports, Shell!At,
                            Shell!Active, Shell!None

LEMMA ActsWrite ==
  ASSUME Shell!TypeOK, PastInv, Passes, NEW c \in Calls, CallInv(c),
         NEW g \in Files, Shell!Write(c, g)
  PROVE  CallInv(c)'
  <1>1. /\ Shell!At(c, "running") /\ call' = call /\ sessions' = sessions /\ lost' = lost
        /\ orphans' = orphans /\ mtime'[g] = now' /\ wrote'[c][g] = now'
        /\ \A f \in Files : f # g => wrote'[c][f] = wrote[c][f]
    BY DEF Shell!Write, Shell!daemon, Shell!TypeOK
  <1>n. /\ now \in Nat /\ call[c].taken \in Nat /\ call[c].wm \in Int
        /\ call[c].taken <= now /\ call[c].wm <= now
        /\ \A f \in Files : mtime[f] \in Nat /\ wrote[c][f] \in Int /\ wrote[c][f] <= mtime[f]
                            /\ mtime[f] <= now
        /\ sessions[c] \in Shell!Snapshots
    BY Numbers DEF CallInv, Timely, PastInv
  <1>2. Timely(c)'
    <2>1. call[c].wm <= now' /\ call[c].taken <= now'
      BY <1>n DEF Passes
    <2>2. \A f \in Files : wrote'[c][f] <= mtime'[f]
      BY <1>1, <1>n DEF Passes
    <2> QED BY <1>1, <2>1, <2>2 DEF Timely
  <1>3. Fresh(sessions[c], c) => Fresh(sessions[c], c)'
    BY <1>1, <1>n, FreshStays DEF CallInv, Fresh, Shell!Covered, Shell!Never
  <1> QED BY <1>1, <1>2, <1>3 DEF CallInv, Compares, Keeps, Proceeds, Reports, Shell!At,
                                  Shell!Active, Shell!None

LEMMA ActsPostQuery ==
  ASSUME Shell!TypeOK, PastInv, NEW c \in Calls, CallInv(c), Shell!PostQuery(c)
  PROVE  CallInv(c)'
  <1>0. call[c] \in CallType /\ call \in [Calls -> CallType]
    BY CallsType
  <1>1. /\ Shell!At(c, "running") /\ call'[c].wm = call[c].wm
        /\ call'[c].taken = call[c].taken /\ call'[c].report = call[c].report
        /\ \/ call'[c].at = "fetched" /\ call'[c].snapshot = sessions[c] /\ Shell!Active(c)
           \/ call'[c].at = "ending" /\ (Shell!Active(c) => c \in lost')
        /\ lost \subseteq lost'
        /\ UNCHANGED <<now, mtime, sessions, wrote, orphans>>
    BY <1>0 DEF Shell!PostQuery, CallType, Shell!daemon
  <1>2. Timely(c)'
    BY <1>1 DEF CallInv, Timely
  <1>3. Shell!Active(c) => Fresh(sessions[c], c)
    BY <1>1 DEF CallInv, Compares
  <1>4. call[c].report = {}
    BY <1>1 DEF CallInv, Proceeds, Shell!At
  <1>5. CASE call'[c].at = "fetched" /\ call'[c].snapshot = sessions[c] /\ Shell!Active(c)
    <2>1. Fresh(call[c].snapshot, c)'
      BY <1>1, <1>3, <1>5 DEF Fresh, Shell!Covered, Shell!Never
    <2> QED BY <1>1, <1>2, <1>4, <1>5, <2>1
            DEF CallInv, Compares, Keeps, Proceeds, Reports, Shell!At, Shell!Active, Shell!None
  <1>6. CASE call'[c].at = "ending" /\ (Shell!Active(c) => c \in lost')
    <2>1. c \in lost' \/ Files = {}
      BY <1>1, <1>6 DEF CallInv, Keeps
    <2> QED BY <1>1, <1>2, <1>4, <1>6, <2>1
            DEF CallInv, Compares, Keeps, Proceeds, Reports, Shell!At, Shell!Active, Shell!None
  <1> QED BY <1>1, <1>5, <1>6

LEMMA ActsPostSnapshot ==
  ASSUME Shell!TypeOK, PastInv, NEW c \in Calls, CallInv(c), Shell!PostSnapshot(c)
  PROVE  CallInv(c)'
  <1>0. call[c] \in CallType /\ call \in [Calls -> CallType]
    BY CallsType
  <1> DEFINE pre == call[c].snapshot
             anew == pre.wm = Shell!Never /\ pre.late
             wm == IF anew THEN index ELSE pre.wm
             fs == Shell!Diff(pre, Shell!Snapshot(wm, FALSE))
  <1>1. /\ Shell!At(c, "fetched") /\ call'[c].at = "ending" /\ call'[c].wm = call[c].wm
        /\ call'[c].taken = call[c].taken /\ call'[c].report = fs
        /\ lost' = IF anew /\ index # Shell!Never THEN lost \cup {c} ELSE lost
        /\ UNCHANGED <<now, mtime, sessions, wrote, orphans>>
    BY <1>0 DEF Shell!PostSnapshot, CallType, Shell!daemon
  <1>2. Timely(c)' /\ Fresh(pre, c)
    BY <1>1 DEF CallInv, Timely, Compares, Shell!At
  <1>n. /\ call[c].taken \in Nat /\ Grace \in Nat /\ pre.wm \in Int
        /\ \A f \in Files : mtime[f] \in Nat /\ wrote[c][f] \in Int /\ wrote[c][f] <= mtime[f]
        /\ DOMAIN pre.entries \subseteq Files
        /\ \A f \in DOMAIN pre.entries : pre.entries[f] \in Nat
    BY Numbers DEF CallInv, Timely
  <1>3. wm \in Shell!Times \cup {Shell!Never}
    BY <1>0 DEF CallType, Shell!Snapshots, Shell!TypeOK
  <1>4. \A f \in Files : f \in fs <=>
          ~Shell!Covered(f, wm) /\ (f \in DOMAIN pre.entries => pre.entries[f] # mtime[f])
    BY ZenonT(30), <1>3, SnapshotOf DEF Shell!Diff
  <1>5. fs \subseteq Files
    BY <1>3, SnapshotOf DEF Shell!Diff
  <1>a. anew => pre.wm = Shell!Never
    OBVIOUS
  <1>b. ~anew => wm = pre.wm
    OBVIOUS
  <1>c. anew /\ c \notin lost' => wm = Shell!Never
    BY <1>1
  <1>6. \A f \in fs : mtime[f] > call[c].taken
    <2> TAKE f \in fs
    <2>0. f \in Files /\ mtime[f] \in Nat
      BY <1>5, <1>n
    <2> SUFFICES ASSUME mtime[f] <= call[c].taken PROVE FALSE
      BY <2>0, <1>n
    <2>1. IF f \in DOMAIN pre.entries THEN pre.entries[f] = mtime[f] ELSE Shell!Covered(f, pre.wm)
      BY <1>2, <1>5 DEF Fresh
    <2>2. f \notin DOMAIN pre.entries /\ Shell!Covered(f, pre.wm) /\ ~Shell!Covered(f, wm)
      BY <1>4, <1>5, <2>1
    <2> QED BY <1>a, <1>b, <2>2 DEF Shell!Covered
  <1>7. ASSUME c \notin lost', NEW f \in Files, wrote[c][f] > call[c].taken + Grace
        PROVE  f \in fs
    <2>1. mtime[f] > call[c].taken + Grace
      BY <1>7, <1>n
    <2>2. f \in DOMAIN pre.entries => pre.entries[f] # mtime[f]
      <3>1. f \in DOMAIN pre.entries => pre.entries[f] <= call[c].taken
        BY <1>2 DEF Fresh
      <3> QED BY <1>n, <2>1, <3>1
    <2>3. ~Shell!Covered(f, wm)
      <3>1. CASE anew
        BY <1>7, <1>c, <3>1 DEF Shell!Covered
      <3>2. CASE ~anew
        <4>1. pre.wm <= call[c].taken /\ wm = pre.wm
          BY <1>2, <1>b, <3>2 DEF Fresh
        <4>2. ~(mtime[f] <= pre.wm + Grace)
          BY <1>n, <2>1, <4>1
        <4> QED BY <4>1, <4>2 DEF Shell!Covered
      <3> QED BY <3>1, <3>2
    <2> QED BY <1>4, <2>2, <2>3
  <1> HIDE DEF pre, anew, wm, fs
  <1>8. Reports(c)'
    BY <1>1, <1>6, <1>7 DEF Reports, Shell!At
  <1> QED BY <1>1, <1>2, <1>8 DEF CallInv, Compares, Keeps, Proceeds, Shell!At, Shell!Active,
                                  Shell!None

LEMMA ActsPostFail ==
  ASSUME Shell!TypeOK, PastInv, NEW c \in Calls, CallInv(c), Shell!PostFail(c)
  PROVE  CallInv(c)'
  <1>0. call[c] \in CallType /\ call \in [Calls -> CallType]
    BY CallsType
  <1>1. /\ Shell!At(c, "fetched") /\ call'[c].at = "ending" /\ call'[c].wm = call[c].wm
        /\ call'[c].taken = call[c].taken /\ call'[c].report = call[c].report
        /\ c \in lost' /\ UNCHANGED <<now, mtime, sessions, wrote, orphans>>
    BY <1>0 DEF Shell!PostFail, CallType, Shell!daemon
  <1>2. Timely(c)'
    BY <1>1 DEF CallInv, Timely
  <1> QED BY <1>1, <1>2 DEF CallInv, Compares, Keeps, Proceeds, Reports, Shell!At,
                            Shell!Active, Shell!None

\* The end of a call, with the daemon told or not.
LEMMA ActsDone ==
  ASSUME Shell!TypeOK, PastInv, NEW c \in Calls, CallInv(c), Shell!Done(c),
         now' = now, mtime' = mtime, sessions'[c] = Shell!None \/ c \in orphans'
  PROVE  CallInv(c)'
  <1>1. /\ call'[c].at = "done" /\ call'[c].report = {} /\ call'[c].taken = 0 /\ call'[c].wm = Shell!Never
        /\ \A f \in Files : wrote'[c][f] = Shell!Never
    BY DoneCall
  <1>2. Timely(c)'
    BY <1>1, Numbers DEF Timely, Shell!Never
  <1> QED BY <1>1, <1>2 DEF CallInv, Compares, Keeps, Proceeds, Reports, Shell!At,
                            Shell!Active, Shell!None

----------------------------------------------------------------------------
(* All calls *)

LEMMA PastNext ==
  ASSUME Shell!TypeOK, PastInv, [Shell!Next]_(Shell!vars)
  PROVE  PastInv' /\ Passes
  <1>n. now \in Nat /\ index \in Int /\ worktree \in Int /\ \A f \in Files : mtime[f] \in Nat
    <2>1. Shell!Times \cup {Shell!Never} \subseteq Int /\ Shell!Times \subseteq Nat
      BY TimesAreNat
    <2> QED BY <2>1 DEF Shell!TypeOK
  <1>s. ASSUME UNCHANGED <<now, mtime, index>>, worktree' \in {worktree, now, Shell!Never}
        PROVE  PastInv' /\ Passes
    BY <1>n, <1>s DEF PastInv, Passes, Shell!Never
  <1>t. ASSUME Shell!Tick, index' \in {index, now'}, worktree' = worktree,
               \A f \in Files : mtime'[f] \in {mtime[f], now'}
        PROVE  PastInv' /\ Passes
    <2>1. now' = now + 1 /\ now' \in Nat
      BY <1>n, <1>t DEF Shell!Tick
    <2>2. index' <= now' /\ worktree' <= now'
      BY <1>n, <1>t, <2>1 DEF PastInv
    <2>3. \A f \in Files : mtime'[f] <= now'
      BY <1>n, <1>t, <2>1 DEF PastInv
    <2>4. Passes
      BY <1>n, <1>t, <2>1 DEF Passes
    <2> QED BY <2>2, <2>3, <2>4 DEF PastInv
  <1>1. ASSUME NEW c \in Calls,
               \/ Shell!PreQuery(c) \/ Shell!PreSnapshot(c) \/ Shell!PreStart(c) \/ Shell!PreFail(c)
               \/ Shell!PostQuery(c) \/ Shell!PostSnapshot(c) \/ Shell!PostFail(c) \/ Shell!PostEnd(c)
               \/ Shell!Interrupt(c) \/ Shell!GoStale(c)
        PROVE  PastInv' /\ Passes
    <2>1. UNCHANGED <<now, mtime, index, worktree>>
      BY <1>1 DEF Shell!PreQuery, Shell!PreSnapshot, Shell!PreStart, Shell!PreFail,
                  Shell!PostQuery, Shell!PostSnapshot, Shell!PostFail,
                  Shell!PostEnd, Shell!Interrupt, Shell!GoStale, Shell!daemon
    <2> QED BY <1>s, <2>1
  <1>2. ASSUME NEW c \in Calls, NEW f \in Files, Shell!Write(c, f) PROVE PastInv' /\ Passes
    <2>1. Shell!Tick /\ index' = index /\ worktree' = worktree /\ mtime' = [mtime EXCEPT ![f] = now']
      BY <1>2 DEF Shell!Write, Shell!daemon
    <2>2. \A g \in Files : mtime'[g] \in {mtime[g], now'}
      BY <2>1 DEF Shell!TypeOK
    <2> QED BY <1>t, <2>1, <2>2
  <1>3. ASSUME NEW f \in Files, Shell!Edit(f) PROVE PastInv' /\ Passes
    <2>1. Shell!Tick /\ index' = index /\ worktree' = worktree /\ mtime' = [mtime EXCEPT ![f] = now']
      BY <1>3 DEF Shell!Edit, Shell!daemon
    <2>2. \A g \in Files : mtime'[g] \in {mtime[g], now'}
      BY <2>1 DEF Shell!TypeOK
    <2> QED BY <1>t, <2>1, <2>2
  <1>4. ASSUME Shell!WriteIndex \/ Shell!Wait PROVE PastInv' /\ Passes
    BY <1>4, <1>t DEF Shell!WriteIndex, Shell!Wait, Shell!daemon
  <1>5. ASSUME \/ \E f \in Files : Shell!FileEdit(f)
               \/ Shell!StartElsewhere \/ Shell!Apply \/ Shell!Restart \/ UNCHANGED Shell!vars
        PROVE  PastInv' /\ Passes
    <2>1. UNCHANGED <<now, mtime, index>> /\ worktree' \in {worktree, now, Shell!Never}
      BY <1>5 DEF Shell!FileEdit, Shell!StartElsewhere, Shell!Apply, Shell!Restart, Shell!vars
    <2> QED BY <1>s, <2>1
  <1> QED BY <1>1, <1>2, <1>3, <1>4, <1>5 DEF Shell!Next

\* A step of one call leaves the others alone, but for sessions it prunes.
LEMMA OthersStay ==
  ASSUME Shell!TypeOK, PastInv, Passes, \A c \in Calls : CallInv(c),
         NEW c \in Calls, CallInv(c)',
         \A d \in Calls : d # c =>
           /\ call'[d] = call[d] /\ wrote'[d] = wrote[d]
           /\ sessions'[d] = sessions[d] \/ (sessions'[d] = Shell!None /\ d \in lost')
           /\ d \in lost => d \in lost'
           /\ d \in orphans' <=> d \in orphans
  PROVE  \A d \in Calls : CallInv(d)'
  BY CallStays

LEMMA AllStay ==
  ASSUME Shell!TypeOK, PastInv, Passes, \A c \in Calls : CallInv(c),
         call' = call, wrote' = wrote, orphans' = orphans,
         \A d \in Calls :
           /\ sessions'[d] = sessions[d] \/ (sessions'[d] = Shell!None /\ d \in lost')
           /\ d \in lost => d \in lost'
  PROVE  \A d \in Calls : CallInv(d)'
  BY CallStays

LEMMA ShellNext == ShellInv /\ [Shell!Next]_(Shell!vars) => ShellInv'
  <1> SUFFICES ASSUME Shell!TypeOK, QueueInv, PastInv, \A c \in Calls : CallInv(c),
                      [Shell!Next]_(Shell!vars)
               PROVE  \A c \in Calls : CallInv(c)'
    BY TypeNext, PastNext DEF ShellInv
  <1>0. Passes /\ call \in [Calls -> CallType]
    BY PastNext, CallsType
  <1>1. ASSUME NEW c \in Calls,
               \/ Shell!PreQuery(c) \/ Shell!PreSnapshot(c) \/ Shell!PreFail(c)
               \/ Shell!PostQuery(c) \/ Shell!PostSnapshot(c) \/ Shell!PostFail(c)
        PROVE  \A d \in Calls : CallInv(d)'
    <2>1. CallInv(c)'
      BY <1>1, ActsPreQuery, ActsPreSnapshot, ActsPreFail, ActsPostQuery, ActsPostSnapshot,
         ActsPostFail
    <2>2. \A d \in Calls : d # c => call'[d] = call[d]
      BY <1>0, <1>1 DEF Shell!PreQuery, Shell!PreSnapshot, Shell!PreFail, Shell!PostQuery,
                        Shell!PostSnapshot, Shell!PostFail
    <2>3. /\ wrote' = wrote /\ sessions' = sessions /\ orphans' = orphans
          /\ lost \subseteq lost'
      BY <1>1 DEF Shell!PreQuery, Shell!PreSnapshot, Shell!PreFail, Shell!PostQuery,
                  Shell!PostSnapshot, Shell!PostFail, Shell!daemon, Shell!history
    <2> QED BY <1>0, <2>1, <2>2, <2>3, OthersStay
  <1>2. ASSUME NEW c \in Calls, Shell!PreStart(c) PROVE \A d \in Calls : CallInv(d)'
    <2>1. CallInv(c)'
      BY <1>2, ActsPreStart
    <2>2. \A d \in Calls : d # c => call'[d] = call[d]
      BY <1>0, <1>2 DEF Shell!PreStart
    <2>3. /\ wrote' = wrote /\ orphans' = orphans /\ lost' = lost \cup stale
          /\ \A d \in Calls : d # c => sessions'[d] = IF d \in stale THEN Shell!None ELSE sessions[d]
      BY <1>2 DEF Shell!PreStart, Shell!PruneStale
    <2> QED BY <1>0, <2>1, <2>2, <2>3, OthersStay
  <1>3. ASSUME NEW c \in Calls, NEW f \in Files, Shell!Write(c, f) PROVE \A d \in Calls : CallInv(d)'
    <2>1. CallInv(c)'
      BY <1>0, <1>3, ActsWrite
    <2>2. \A d \in Calls : d # c => wrote'[d] = wrote[d]
      BY <1>3 DEF Shell!Write, Shell!TypeOK
    <2>3. call' = call /\ sessions' = sessions /\ orphans' = orphans /\ lost' = lost
      BY <1>3 DEF Shell!Write, Shell!daemon
    <2> QED BY <1>0, <2>1, <2>2, <2>3, OthersStay
  <1>4. ASSUME NEW c \in Calls, Shell!PostEnd(c) \/ Shell!Interrupt(c) PROVE \A d \in Calls : CallInv(d)'
    <2>1. /\ Shell!Done(c) /\ now' = now /\ mtime' = mtime /\ lost' = lost
          /\ \/ sessions' = [sessions EXCEPT ![c] = Shell!None] /\ orphans' = orphans
             \/ sessions' = sessions /\ orphans' = orphans \cup {c}
      BY <1>4 DEF Shell!PostEnd, Shell!Interrupt, Shell!daemon
    <2>2. /\ sessions'[c] = Shell!None \/ c \in orphans'
          /\ \A d \in Calls : d # c => sessions'[d] = sessions[d] /\ (d \in orphans' <=> d \in orphans)
      BY <2>1 DEF Shell!TypeOK
    <2>3. CallInv(c)'
      BY <2>1, <2>2, ActsDone
    <2>4. \A d \in Calls : d # c => call'[d] = call[d] /\ wrote'[d] = wrote[d]
      BY <2>1, DoneCall
    <2> QED BY <1>0, <2>1, <2>2, <2>3, <2>4, OthersStay
  <1>5. ASSUME \/ \E c \in Calls : Shell!GoStale(c)
               \/ \E f \in Files : Shell!Edit(f) \/ Shell!FileEdit(f)
               \/ Shell!WriteIndex \/ Shell!Wait \/ Shell!Apply \/ UNCHANGED Shell!vars
        PROVE  \A d \in Calls : CallInv(d)'
    <2>1. UNCHANGED <<call, sessions, wrote, lost, orphans>>
      BY <1>5 DEF Shell!GoStale, Shell!Edit, Shell!FileEdit, Shell!WriteIndex, Shell!Wait,
                  Shell!Apply, Shell!vars, Shell!daemon, Shell!history
    <2> QED BY <1>0, <2>1, AllStay
  <1>6. ASSUME Shell!StartElsewhere PROVE \A d \in Calls : CallInv(d)'
    <2>1. /\ UNCHANGED <<call, wrote, orphans>> /\ lost' = lost \cup stale
          /\ \A d \in Calls : sessions'[d] = IF d \in stale THEN Shell!None ELSE sessions[d]
      BY <1>6 DEF Shell!StartElsewhere, Shell!PruneStale
    <2> QED BY <1>0, <2>1, AllStay
  <1>7. ASSUME Shell!Restart PROVE \A d \in Calls : CallInv(d)'
    <2>1. /\ UNCHANGED <<call, wrote, orphans>> /\ lost' = lost \cup {d \in Calls : Shell!Active(d)}
          /\ \A d \in Calls : sessions'[d] = Shell!None
      BY <1>7 DEF Shell!Restart
    <2>2. \A d \in Calls : sessions'[d] = sessions[d] \/ (sessions'[d] = Shell!None /\ d \in lost')
      BY <2>1 DEF Shell!Active
    <2> QED BY <1>0, <2>1, <2>2, AllStay
  <1> QED BY <1>1, <1>2, <1>3, <1>4, <1>5, <1>6, <1>7 DEF Shell!Next

LEMMA ShellInit == Shell!Init => ShellInv
  <1> SUFFICES ASSUME Shell!Init PROVE ShellInv
    OBVIOUS
  <1>1. call \in [Calls -> CallType] /\ sessions \in [Calls -> Shell!Snapshots]
    BY NoneType DEF Shell!Init
  <1>2. Shell!TypeOK
    <2>1. /\ 0 \in Shell!Times /\ MaxQueue \in Nat
      BY TimesAreNat, ShellAssumption DEF Shell!BoundsAssumption
    <2>2. /\ now \in Shell!Times /\ {index, worktree} \subseteq Shell!Times \cup {Shell!Never}
          /\ perFile \in BOOLEAN /\ uncaptured \subseteq Files
          /\ stale \subseteq {c \in Calls : Shell!Active(c)}
          /\ lost \subseteq Calls /\ orphans \subseteq Calls
      BY <2>1 DEF Shell!Init
    <2>3. mtime \in [Files -> Shell!Times] /\ wrote \in [Calls -> [Files -> Shell!Times \cup {Shell!Never}]]
      BY <2>1 DEF Shell!Init
    <2>4. Len(queue) = 0 /\ DOMAIN queue = {}
      BY DEF Shell!Init
    <2>5. Len(queue) <= MaxQueue
      BY <2>1, <2>4
    <2> QED BY <1>1, <2>2, <2>3, <2>4, <2>5 DEF Shell!TypeOK, CallType, Steps
  <1>3. QueueInv /\ PastInv
    BY DEF Shell!Init, QueueInv, PastInv, Shell!Never
  <1>4. ASSUME NEW c \in Calls PROVE CallInv(c)
    <2>1. /\ call[c].at = "off" /\ call[c].wm = Shell!Never /\ call[c].taken = 0 /\ call[c].report = {}
          /\ ~Shell!Active(c) /\ c \notin orphans /\ now = 0
          /\ \A f \in Files : mtime[f] = 0 /\ wrote[c][f] = Shell!Never
      BY DEF Shell!Init, Shell!Idle, Shell!Active
    <2> QED BY <2>1 DEF CallInv, Timely, Compares, Keeps, Proceeds, Reports, Shell!At, Shell!Never
  <1> QED BY <1>2, <1>3, <1>4 DEF ShellInv

\* What a shell command of an agent wrote is reported, unless a hook or the session
\* met a fault or it was written within the grace window; what is reported was
\* written while the command ran; and a session is there only as long as its
\* command.
THEOREM ShellEditsAreTheCommands == EditsSpec => []ShellEditsReported
  <1>1. ShellInv => ShellEditsReported
    BY DEF ShellEditsReported, Shell!ShellEditsReported, Shell!SessionHasCommand,
           Shell!ReportedWasWritten, Shell!ToolEditsReported, ShellInv, CallInv, Proceeds, Reports
  <1>2. EditsInit => ShellInv
    BY ShellInit DEF EditsInit
  <1>3. ShellInv /\ [EditsNext]_<<side, vars, shellVars>> => ShellInv'
    <2>1. [EditsNext]_<<side, vars, shellVars>> => [Shell!Next]_(Shell!vars)
      BY DEF EditsNext, shellVars, Shell!vars
    <2> QED BY <2>1, ShellNext
  <1> QED BY <1>1, <1>2, <1>3, PTL DEF EditsSpec
=============================================================================
