------------------------- MODULE CommitReplayProofs -------------------------
(***************************************************************************)
(* Proofs about the notes of commits, for every set of agents, every first *)
(* version of the file and every number of lines, deletions, commits and   *)
(* requests the daemon is behind.                                          *)
(***************************************************************************)
EXTENDS CommitReplay, FiniteSetTheorems, SequenceTheorems, TLAPS

(* Sequences *)

LEMMA InsertFacts ==
  ASSUME NEW S, NEW s \in Seq(S), NEW p \in 1 .. Len(s) + 1, NEW e \in S
  PROVE  /\ InsertAt(s, p, e) \in Seq(S)
         /\ Len(InsertAt(s, p, e)) = Len(s) + 1
         /\ \A i \in 1 .. Len(s) + 1 :
              InsertAt(s, p, e)[i] = IF i < p THEN s[i] ELSE IF i = p THEN e ELSE s[i - 1]
  <1> DEFINE a == SubSeq(s, 1, p - 1)
             b == SubSeq(s, p, Len(s))
  <1>1. /\ a \in Seq(S) /\ Len(a) = p - 1
        /\ \A i \in 1 .. p - 1 : a[i] = s[i]
    BY SubSeqProperties, LenProperties
  <1>2. /\ b \in Seq(S) /\ Len(b) = Len(s) - p + 1
        /\ \A i \in 1 .. Len(s) - p + 1 : b[i] = s[p + i - 1]
    BY SubSeqProperties, LenProperties
  <1> DEFINE c == a \o <<e>>
  <1>3. <<e>> \in Seq(S) /\ Len(<<e>>) = 1 /\ <<e>>[1] = e
    OBVIOUS
  <1>4. /\ c \in Seq(S) /\ Len(c) = p
        /\ \A i \in 1 .. p : c[i] = IF i < p THEN s[i] ELSE e
    <2> HIDE DEF a
    <2> QED
      BY <1>1, <1>3, ConcatProperties, LenProperties
  <1>5. InsertAt(s, p, e) = c \o b
    BY DEF InsertAt
  <1> HIDE DEF a, b, c
  <1>6. /\ c \o b \in Seq(S) /\ Len(c \o b) = Len(c) + Len(b)
        /\ \A i \in 1 .. Len(c) + Len(b) : (c \o b)[i] = IF i <= Len(c) THEN c[i] ELSE b[i - Len(c)]
    BY <1>2, <1>4, ConcatProperties
  <1>7. Len(s) \in Nat
    BY LenProperties
  <1>8. ASSUME NEW i \in 1 .. Len(s) + 1
        PROVE  (c \o b)[i] = IF i < p THEN s[i] ELSE IF i = p THEN e ELSE s[i - 1]
    <2>0. i \in Int /\ p \in Int /\ 1 <= i /\ i <= Len(s) + 1 /\ Len(c) = p
      BY <1>4, <1>7
    <2>1. (c \o b)[i] = IF i <= p THEN c[i] ELSE b[i - p]
      <3>1. i \in 1 .. Len(c) + Len(b) /\ Len(c) = p
        BY <1>2, <1>4, <1>7
      <3> QED
        BY <1>6, <3>1
    <2>2. CASE i < p
      <3>1. c[i] = s[i]
        BY <1>4, <2>0, <2>2
      <3> QED
        BY <2>0, <2>1, <2>2, <3>1
    <2>3. CASE i = p
      <3>1. c[i] = e
        BY <1>4, <2>0, <2>3
      <3> QED
        BY <2>0, <2>1, <2>3, <3>1
    <2>4. CASE i > p
      <3>1. i - p \in 1 .. Len(s) - p + 1 /\ p + (i - p) - 1 = i - 1
        BY <1>7, <2>0, <2>4
      <3>2. b[i - p] = s[i - 1]
        BY <1>2, <3>1
      <3>3. (c \o b)[i] = b[i - p] /\ ~(i < p) /\ i # p
        BY <2>0, <2>1, <2>4
      <3> QED
        BY <3>2, <3>3
    <2>5. i < p \/ i = p \/ i > p
      BY <2>0
    <2> QED
      BY <2>2, <2>3, <2>4, <2>5
  <1> QED
    BY <1>2, <1>4, <1>5, <1>6, <1>7, <1>8

LEMMA RemoveFacts ==
  ASSUME NEW S, NEW s \in Seq(S), NEW p \in 1 .. Len(s)
  PROVE  /\ RemoveAt(s, p) \in Seq(S)
         /\ Len(RemoveAt(s, p)) = Len(s) - 1
         /\ \A i \in 1 .. Len(s) - 1 :
              RemoveAt(s, p)[i] = IF i < p THEN s[i] ELSE s[i + 1]
  <1> DEFINE a == SubSeq(s, 1, p - 1)
             b == SubSeq(s, p + 1, Len(s))
  <1>1. /\ a \in Seq(S) /\ Len(a) = p - 1
        /\ \A i \in 1 .. p - 1 : a[i] = s[i]
    BY SubSeqProperties, LenProperties
  <1>2. /\ b \in Seq(S) /\ Len(b) = Len(s) - p
        /\ \A i \in 1 .. Len(s) - p : b[i] = s[p + i]
    BY SubSeqProperties, LenProperties
  <1>3. RemoveAt(s, p) = a \o b
    BY DEF RemoveAt
  <1> HIDE DEF a, b
  <1>4. /\ a \o b \in Seq(S) /\ Len(a \o b) = Len(a) + Len(b)
        /\ \A i \in 1 .. Len(a) + Len(b) : (a \o b)[i] = IF i <= Len(a) THEN a[i] ELSE b[i - Len(a)]
    BY <1>1, <1>2, ConcatProperties
  <1>5. Len(s) \in Nat
    BY LenProperties
  <1> QED
    BY <1>1, <1>2, <1>3, <1>4, <1>5

LEMMA ReplaceFacts ==
  ASSUME NEW S, NEW s \in Seq(S), NEW p \in 1 .. Len(s), NEW e \in S
  PROVE  /\ [s EXCEPT ![p] = e] \in Seq(S)
         /\ Len([s EXCEPT ![p] = e]) = Len(s)
         /\ \A i \in 1 .. Len(s) : [s EXCEPT ![p] = e][i] = IF i = p THEN e ELSE s[i]
  BY ExceptSeq

LEMMA TailFacts ==
  ASSUME NEW S, NEW s \in Seq(S), s # <<>>
  PROVE  /\ 1 \in DOMAIN s /\ Head(s) = s[1] /\ Head(s) \in S
         /\ Tail(s) \in Seq(S) /\ Len(Tail(s)) = Len(s) - 1
         /\ \A i \in DOMAIN Tail(s) : i + 1 \in DOMAIN s /\ Tail(s)[i] = s[i + 1]
         /\ \A i \in DOMAIN s : i # 1 => i - 1 \in DOMAIN Tail(s) /\ Tail(s)[i - 1] = s[i]
  <1>1. Len(s) \in Nat \ {0} /\ DOMAIN s = 1 .. Len(s)
    BY EmptySeq, LenProperties
  <1>2. Tail(s) \in Seq(S) /\ Len(Tail(s)) = Len(s) - 1 /\ Head(s) \in S
        /\ \A i \in 1 .. Len(Tail(s)) : Tail(s)[i] = s[i + 1]
    BY HeadTailProperties
  <1>3. DOMAIN Tail(s) = 1 .. Len(s) - 1
    BY <1>2, LenProperties
  <1>4. Head(s) = s[1]
    OBVIOUS
  <1> QED
    BY <1>1, <1>2, <1>3, <1>4

LEMMA AppendFacts ==
  ASSUME NEW S, NEW s \in Seq(S), NEW e \in S
  PROVE  /\ Append(s, e) \in Seq(S) /\ Len(Append(s, e)) = Len(s) + 1
         /\ DOMAIN s = 1 .. Len(s) /\ Len(s) \in Nat
         /\ DOMAIN Append(s, e) = 1 .. Len(s) + 1
         /\ \A i \in DOMAIN s : Append(s, e)[i] = s[i]
         /\ Append(s, e)[Len(s) + 1] = e
  BY AppendProperties, LenProperties

LEMMA NonEmptyFacts ==
  ASSUME NEW S, NEW s \in Seq(S), s # <<>>
  PROVE  1 \in DOMAIN s /\ s[1] \in S /\ s[1] \in ToSet(s)
  <1>1. Len(s) \in Nat \ {0} /\ DOMAIN s = 1 .. Len(s) /\ s \in [1 .. Len(s) -> S]
    BY EmptySeq, LenProperties
  <1> QED
    BY <1>1 DEF ToSet

LEMMA OneFacts ==
  ASSUME NEW S, NEW e \in S
  PROVE  <<e>> \in Seq(S) /\ <<e>> # <<>> /\ <<e>>[1] = e /\ ToSet(<<e>>) = {e}
  BY DEF ToSet

(* Versions of the file *)

Once(s) == \A i, j \in DOMAIN s : s[i] = s[j] => i = j

\* The versions of the file made of the first n lines written.
Version(s, n) == s \in Seq(1 .. n) /\ Len(s) <= n /\ Once(s)

\* What two versions share is in the same order.
SameOrder(s, t) ==
  \A i, j \in DOMAIN s : \A k, m \in DOMAIN t :
    s[i] = t[k] => (s[j] = t[m] => (i < j <=> k < m))

\* The lines of s that are in the set are lines of t, in the order of t.
Within(s, t, lines) ==
  \A i, j \in DOMAIN s : s[i] \in lines =>
    (s[j] \in lines => \E u, v \in DOMAIN t : t[u] = s[i] /\ t[v] = s[j] /\ (i < j <=> u < v))

LEMMA VersionFacts ==
  ASSUME NEW n \in Nat, NEW s, Version(s, n)
  PROVE  /\ s \in Seq(Nat) /\ Len(s) \in 0 .. n /\ DOMAIN s = 1 .. Len(s)
         /\ s \in [1 .. Len(s) -> 1 .. n]
         /\ \A i \in DOMAIN s : s[i] \in 1 .. n
         /\ \A i \in DOMAIN s : s[i] \in ToSet(s)
         /\ \A l \in ToSet(s) : \E i \in DOMAIN s : s[i] = l
         /\ ToSet(s) \subseteq 1 .. n
         /\ Once(s)
  <1>1. s \in Seq(1 .. n) /\ Len(s) <= n /\ Once(s)
    BY DEF Version
  <1>2. Len(s) \in Nat /\ DOMAIN s = 1 .. Len(s) /\ s \in [1 .. Len(s) -> 1 .. n]
    BY <1>1, LenProperties
  <1>3. s \in Seq(Nat)
    <2>1. 1 .. n \subseteq Nat
      OBVIOUS
    <2> QED
      BY <1>1, <2>1, SeqMonotonic
  <1> QED
    BY <1>1, <1>2, <1>3 DEF ToSet

LEMMA VersionGrows ==
  ASSUME NEW n \in Nat, NEW m \in Nat, n <= m, NEW s, Version(s, n)
  PROVE  Version(s, m)
  <1>1. 1 .. n \subseteq 1 .. m
    OBVIOUS
  <1>2. s \in Seq(1 .. n) /\ Len(s) <= n /\ Once(s)
    BY DEF Version
  <1>3. s \in Seq(1 .. m)
    BY <1>1, <1>2, SeqMonotonic
  <1>4. Len(s) \in Nat
    BY <1>2, LenProperties
  <1> QED
    BY <1>2, <1>3, <1>4 DEF Version

LEMMA OrderWithin ==
  ASSUME NEW s, NEW t, NEW r, NEW lines,
         Within(s, t, lines), SameOrder(r, t), ToSet(r) \subseteq lines
  PROVE  SameOrder(r, s)
  <1> SUFFICES ASSUME NEW i \in DOMAIN r, NEW j \in DOMAIN r, NEW k \in DOMAIN s, NEW m \in DOMAIN s,
                      r[i] = s[k], r[j] = s[m]
               PROVE  i < j <=> k < m
    BY DEF SameOrder
  <1>1. s[k] \in lines /\ s[m] \in lines
    BY DEF ToSet
  <1>2. PICK u \in DOMAIN t, v \in DOMAIN t : t[u] = s[k] /\ t[v] = s[m] /\ (k < m <=> u < v)
    BY <1>1 DEF Within
  <1> QED
    BY <1>2 DEF SameOrder

LEMMA OrderOfItself ==
  ASSUME NEW n \in Nat, NEW s, Version(s, n)
  PROVE  SameOrder(s, s)
  BY DEF SameOrder, Version, Once

\* Every line written into a version, or taken from it, leaves the order.
LEMMA InsertVersion ==
  ASSUME NEW n \in Nat, NEW s, Version(s, n), NEW p \in 1 .. Len(s) + 1
  PROVE  LET t == InsertAt(s, p, n + 1)
         IN  /\ Version(t, n + 1) /\ n + 1 \in ToSet(t)
             /\ \A l \in ToSet(t) : l \in ToSet(s) \/ l = n + 1
             /\ Within(t, s, 1 .. n)
  <1> DEFINE t == InsertAt(s, p, n + 1)
  <1>1. /\ s \in Seq(1 .. n) /\ Len(s) \in 0 .. n /\ DOMAIN s = 1 .. Len(s)
        /\ (\A i \in DOMAIN s : s[i] \in 1 .. n) /\ Once(s)
    BY VersionFacts DEF Version
  <1>2. s \in Seq(1 .. n + 1)
    <2>1. 1 .. n \subseteq 1 .. n + 1
      OBVIOUS
    <2> QED
      BY <1>1, <2>1, SeqMonotonic
  <1>3. /\ t \in Seq(1 .. n + 1) /\ Len(t) = Len(s) + 1
        /\ \A i \in 1 .. Len(s) + 1 : t[i] = IF i < p THEN s[i] ELSE IF i = p THEN n + 1 ELSE s[i - 1]
    <2>1. n + 1 \in 1 .. n + 1
      OBVIOUS
    <2> QED
      BY <1>2, <2>1, InsertFacts
  <1> HIDE DEF t
  <1>4. DOMAIN t = 1 .. Len(s) + 1
    BY <1>3, LenProperties
  <1> DEFINE from(i) == IF i < p THEN i ELSE i - 1
  <1>5. /\ \A i \in DOMAIN t : i # p => from(i) \in DOMAIN s /\ t[i] = s[from(i)] /\ t[i] \in 1 .. n
        /\ p \in DOMAIN t /\ t[p] = n + 1
        /\ \A i, j \in DOMAIN t : i # p => (j # p => (i < j <=> from(i) < from(j)))
        /\ \A i, j \in DOMAIN t : i # p => (j # p => (from(i) = from(j) => i = j))
    <2>1. p \in Int /\ \A i \in DOMAIN t : i \in Int
      BY <1>1, <1>4
    <2>2. ASSUME NEW i \in DOMAIN t, i # p
          PROVE  from(i) \in DOMAIN s /\ t[i] = s[from(i)] /\ t[i] \in 1 .. n
      <3>1. CASE i < p
        <4>1. i \in DOMAIN s /\ from(i) = i
          BY <1>1, <1>4, <2>1, <3>1
        <4> QED
          BY <1>1, <1>3, <1>4, <3>1, <4>1
      <3>2. CASE i > p
        <4>1. i - 1 \in DOMAIN s /\ from(i) = i - 1
          BY <1>1, <1>4, <2>1, <3>2
        <4>2. t[i] = s[i - 1]
          BY <1>3, <1>4, <2>1, <3>2
        <4> QED
          BY <1>1, <4>1, <4>2
      <3> QED
        BY <2>1, <2>2, <3>1, <3>2
    <2>3. p \in DOMAIN t /\ t[p] = n + 1
      BY <1>1, <1>3, <1>4
    <2>4. \A i, j \in DOMAIN t : i # p => (j # p => (i < j <=> from(i) < from(j)))
      BY <2>1
    <2>5. \A i, j \in DOMAIN t : i # p => (j # p => (from(i) = from(j) => i = j))
      BY <2>1
    <2> HIDE DEF from
    <2> QED
      BY <2>2, <2>3, <2>4, <2>5
  <1> HIDE DEF from
  <1>6. n + 1 \notin 1 .. n
    OBVIOUS
  <1>7. Once(t)
    BY <1>1, <1>5, <1>6 DEF Once
  <1>8. Within(t, s, 1 .. n)
    BY <1>5, <1>6 DEF Within
  <1>9. n + 1 \in ToSet(t) /\ \A l \in ToSet(t) : l \in ToSet(s) \/ l = n + 1
    BY <1>5 DEF ToSet
  <1>10. Version(t, n + 1)
    BY <1>1, <1>3, <1>7 DEF Version
  <1> QED
    BY <1>8, <1>9, <1>10 DEF t

LEMMA ReplaceVersion ==
  ASSUME NEW n \in Nat, NEW s, Version(s, n), NEW p \in 1 .. Len(s)
  PROVE  LET t == [s EXCEPT ![p] = n + 1]
         IN  /\ Version(t, n + 1) /\ n + 1 \in ToSet(t)
             /\ \A l \in ToSet(t) : l \in ToSet(s) \/ l = n + 1
             /\ Within(t, s, 1 .. n)
  <1> DEFINE t == [s EXCEPT ![p] = n + 1]
  <1>1. /\ s \in Seq(1 .. n) /\ Len(s) \in 0 .. n /\ DOMAIN s = 1 .. Len(s)
        /\ (\A i \in DOMAIN s : s[i] \in 1 .. n) /\ Once(s)
    BY VersionFacts DEF Version
  <1>2. s \in Seq(1 .. n + 1)
    <2>1. 1 .. n \subseteq 1 .. n + 1
      OBVIOUS
    <2> QED
      BY <1>1, <2>1, SeqMonotonic
  <1>3. /\ t \in Seq(1 .. n + 1) /\ Len(t) = Len(s)
        /\ \A i \in 1 .. Len(s) : t[i] = IF i = p THEN n + 1 ELSE s[i]
    <2>1. n + 1 \in 1 .. n + 1
      OBVIOUS
    <2> QED
      BY <1>2, <2>1, ReplaceFacts
  <1> HIDE DEF t
  <1>4. DOMAIN t = 1 .. Len(s)
    BY <1>3, LenProperties
  <1>5. /\ \A i \in DOMAIN t : i # p => i \in DOMAIN s /\ t[i] = s[i] /\ t[i] \in 1 .. n
        /\ p \in DOMAIN t /\ t[p] = n + 1
    BY <1>1, <1>3, <1>4
  <1>6. n + 1 \notin 1 .. n
    OBVIOUS
  <1>7. Once(t)
    BY <1>1, <1>5, <1>6 DEF Once
  <1>8. Within(t, s, 1 .. n)
    BY <1>5, <1>6 DEF Within
  <1>9. n + 1 \in ToSet(t) /\ \A l \in ToSet(t) : l \in ToSet(s) \/ l = n + 1
    BY <1>5 DEF ToSet
  <1>10. Version(t, n + 1)
    BY <1>1, <1>3, <1>7 DEF Version
  <1> QED
    BY <1>8, <1>9, <1>10 DEF t

LEMMA RemoveVersion ==
  ASSUME NEW n \in Nat, NEW s, Version(s, n), NEW p \in 1 .. Len(s)
  PROVE  LET t == RemoveAt(s, p)
         IN  /\ Version(t, n) /\ ToSet(t) \subseteq ToSet(s)
             /\ \A l \in ToSet(s) : l \in ToSet(t) \/ l = s[p]
             /\ Within(t, s, 1 .. n) /\ SameOrder(t, s)
  <1> DEFINE t == RemoveAt(s, p)
  <1>1. /\ s \in Seq(1 .. n) /\ Len(s) \in 0 .. n /\ DOMAIN s = 1 .. Len(s)
        /\ (\A i \in DOMAIN s : s[i] \in 1 .. n) /\ Once(s)
    BY VersionFacts DEF Version
  <1>3. /\ t \in Seq(1 .. n) /\ Len(t) = Len(s) - 1
        /\ \A i \in 1 .. Len(s) - 1 : t[i] = IF i < p THEN s[i] ELSE s[i + 1]
    BY <1>1, RemoveFacts
  <1> HIDE DEF t
  <1>4. DOMAIN t = 1 .. Len(s) - 1
    BY <1>3, LenProperties
  <1> DEFINE from(i) == IF i < p THEN i ELSE i + 1
  <1>5. /\ \A i \in DOMAIN t : from(i) \in DOMAIN s /\ t[i] = s[from(i)]
        /\ \A i, j \in DOMAIN t : i < j <=> from(i) < from(j)
        /\ \A i, j \in DOMAIN t : from(i) = from(j) => i = j
        /\ \A k \in DOMAIN s : k # p => \E i \in DOMAIN t : from(i) = k
    <2>1. ASSUME NEW k \in DOMAIN s, k # p
          PROVE  \E i \in DOMAIN t : from(i) = k
      <3>1. CASE k < p
        BY <1>1, <1>4, <3>1
      <3>2. CASE k > p
        <4>1. k - 1 \in DOMAIN t /\ from(k - 1) = k
          BY <1>1, <1>4, <3>2
        <4> QED
          BY <4>1
      <3> QED
        BY <1>1, <2>1, <3>1, <3>2
    <2>2. p \in Int /\ \A i \in DOMAIN t : i \in Int
      BY <1>1, <1>4
    <2>3. ASSUME NEW i \in DOMAIN t
          PROVE  from(i) \in DOMAIN s /\ t[i] = s[from(i)]
      <3>1. CASE i < p
        <4>1. i \in DOMAIN s /\ from(i) = i
          BY <1>1, <1>4, <2>2, <3>1
        <4>2. t[i] = s[i]
          BY <1>3, <1>4, <2>2, <3>1
        <4> QED
          BY <4>1, <4>2
      <3>2. CASE ~(i < p)
        <4>1. i + 1 \in DOMAIN s /\ from(i) = i + 1
          BY <1>1, <1>4, <2>2, <3>2
        <4>2. t[i] = s[i + 1]
          BY <1>3, <1>4, <2>2, <3>2
        <4> QED
          BY <4>1, <4>2
      <3> QED
        BY <3>1, <3>2
    <2>4. \A i, j \in DOMAIN t : i < j <=> from(i) < from(j)
      BY <2>2
    <2>5. \A i, j \in DOMAIN t : from(i) = from(j) => i = j
      BY <2>2
    <2> HIDE DEF from
    <2> QED
      BY <2>1, <2>3, <2>4, <2>5
  <1> HIDE DEF from
  <1>7. Once(t)
    BY <1>1, <1>5 DEF Once
  <1>8. Within(t, s, 1 .. n)
    BY <1>5 DEF Within
  <1>9. SameOrder(t, s)
    BY <1>1, <1>5 DEF SameOrder, Once
  <1>10. ToSet(t) \subseteq ToSet(s) /\ \A l \in ToSet(s) : l \in ToSet(t) \/ l = s[p]
    BY <1>5 DEF ToSet
  <1>11. Version(t, n)
    BY <1>1, <1>3, <1>7 DEF Version
  <1> QED
    BY <1>8, <1>9, <1>10, <1>11 DEF t

\* In a worktree that holds the commit, line numbers less the unstaged lines
\* above are the commit's.
LEMMA CommitNumber ==
  ASSUME NEW N \in Nat, NEW C, NEW F, Version(C, N), Version(F, N),
         ToSet(C) \subseteq ToSet(F), SameOrder(C, F),
         NEW n \in DOMAIN F, NEW p \in DOMAIN C, F[n] = C[p]
  PROVE  InCommit(n, Added(C, F)) = p
  <1> DEFINE kept == {m \in 1 .. n : F[m] \in ToSet(C)}
             fresh == {m \in Added(C, F) : m < n}
             f == [q \in 1 .. p |-> CHOOSE m \in DOMAIN F : F[m] = C[q]]
  <1>1. /\ DOMAIN F = 1 .. Len(F) /\ Len(F) \in Nat /\ DOMAIN C = 1 .. Len(C) /\ Len(C) \in Nat
        /\ Once(F) /\ Once(C)
        /\ \A l \in ToSet(C) : \E i \in DOMAIN C : C[i] = l
        /\ \A i \in DOMAIN C : C[i] \in ToSet(C)
        /\ \A l \in ToSet(F) : \E i \in DOMAIN F : F[i] = l
        /\ n \in Nat /\ p \in Nat
    BY VersionFacts
  <1>2. fresh = (1 .. n) \ kept
    <2>1. \A m \in 1 .. n : m \in DOMAIN F
      BY <1>1
    <2>2. F[n] \in ToSet(C)
      BY <1>1
    <2>3. \A m : m \in fresh <=> m \in DOMAIN F /\ F[m] \notin ToSet(C) /\ m < n
      BY DEF Added, Lines
    <2>4. \A m \in DOMAIN F : m < n <=> m \in 1 .. n /\ m # n
      BY <1>1
    <2> HIDE DEF fresh
    <2> QED
      BY <2>1, <2>2, <2>3, <2>4
  <1>3. IsFiniteSet(1 .. n) /\ Cardinality(1 .. n) = n
    BY <1>1, FS_Interval
  <1>4. \A q \in 1 .. p : q \in DOMAIN C /\ f[q] \in DOMAIN F /\ F[f[q]] = C[q]
    BY <1>1
  <1> HIDE DEF f
  <1>5. \A q \in 1 .. p : f[q] \in kept
    <2> TAKE q \in 1 .. p
    <2>1. q \in DOMAIN C /\ f[q] \in DOMAIN F /\ F[f[q]] = C[q]
      BY <1>4
    <2>2. p < q <=> n < f[q]
      BY <2>1 DEF SameOrder
    <2>3. f[q] \in 1 .. n
      BY <1>1, <2>1, <2>2
    <2>4. F[f[q]] \in ToSet(C)
      BY <1>1, <2>1
    <2> QED
      BY <2>3, <2>4
  <1>6. \A m \in kept : \E q \in 1 .. p : f[q] = m
    <2> TAKE m \in kept
    <2>1. m \in DOMAIN F /\ m <= n /\ F[m] \in ToSet(C) /\ m \in Nat
      BY <1>1
    <2>2. PICK q \in DOMAIN C : C[q] = F[m]
      BY <1>1, <2>1
    <2>3. p < q <=> n < m
      BY <2>1, <2>2 DEF SameOrder
    <2>4. q \in 1 .. p
      BY <1>1, <2>1, <2>2, <2>3
    <2>5. f[q] = m
      BY <1>1, <1>4, <2>1, <2>2, <2>4 DEF Once
    <2> QED
      BY <2>4, <2>5
  <1>7. \A q, u \in 1 .. p : f[q] = f[u] => q = u
    <2> SUFFICES ASSUME NEW q \in 1 .. p, NEW u \in 1 .. p, f[q] = f[u]
                 PROVE  q = u
      OBVIOUS
    <2>1. F[f[q]] = C[q] /\ F[f[u]] = C[u] /\ q \in DOMAIN C /\ u \in DOMAIN C
      BY <1>1, <1>4
    <2> QED
      BY <1>1, <2>1 DEF Once
  <1>8. f \in Bijection(1 .. p, kept)
    <2>1. f \in [1 .. p -> kept]
      BY <1>5 DEF f
    <2> HIDE DEF kept
    <2> QED
      BY <1>6, <1>7, <2>1 DEF Bijection, Injection, Surjection, IsInjective
  <1>9. IsFiniteSet(1 .. p) /\ Cardinality(1 .. p) = p
    BY <1>1, FS_Interval
  <1>10. IsFiniteSet(kept) /\ Cardinality(kept) = p
    <2> HIDE DEF kept
    <2>1. ExistsBijection(1 .. p, kept)
      BY <1>8 DEF ExistsBijection
    <2> QED
      BY <1>9, <2>1, FS_Bijection
  <1>11. Cardinality(fresh) = n - p
    <2>1. (1 .. n) \cap kept = kept
      OBVIOUS
    <2> HIDE DEF kept, fresh
    <2>2. Cardinality((1 .. n) \ kept) = Cardinality(1 .. n) - Cardinality((1 .. n) \cap kept)
      BY <1>3, FS_Difference
    <2>3. Cardinality(fresh) = Cardinality(1 .. n) - Cardinality(kept)
      BY <1>2, <2>1, <2>2
    <2> QED
      BY <1>3, <1>10, <2>3
  <1> HIDE DEF fresh
  <1>12. InCommit(n, Added(C, F)) = n - Cardinality(fresh)
    BY DEF InCommit, fresh
  <1> QED
    BY <1>1, <1>11, <1>12

(* Working logs *)

Names == UNION {[D -> Agents] : D \in SUBSET Nat}

NamedContent == [content : Seq(Nat), names : Names]

WorkingLog == [initial : Seq(NamedContent), entry : Seq(NamedContent)]

\* A version with names for lines of it, each of them the author unless the line
\* is free of that.
Well(x, authors, free) ==
  /\ Version(x.content, Len(authors))
  /\ DOMAIN x.names \subseteq ToSet(x.content)
  /\ \A l \in DOMAIN x.names : x.names[l] \in Agents /\ (x.names[l] = authors[l] \/ l \in free)

LogWell(l, authors, free) ==
  /\ l \in WorkingLog
  /\ \A x \in ToSet(l.initial) \cup ToSet(l.entry) : Well(x, authors, free)

Authors == Seq(Agents \cup {Human})

LEMMA NamesFacts ==
  /\ \A D \in SUBSET Nat : \A f \in [D -> Agents] : f \in Names
  /\ Nobody \in Names /\ DOMAIN Nobody = {}
  <1>1. \A D \in SUBSET Nat : \A f \in [D -> Agents] : f \in Names
    BY DEF Names
  <1>2. Nobody \in [{} -> Agents] /\ DOMAIN Nobody = {}
    BY DEF Nobody
  <1> QED
    BY <1>1, <1>2

LEMMA WellFacts ==
  ASSUME NEW a \in Authors, NEW free, NEW x, Well(x, a, free)
  PROVE  /\ x.content \in Seq(Nat) /\ ToSet(x.content) \subseteq Nat
         /\ ToSet(x.content) \subseteq DOMAIN a
         /\ DOMAIN x.names \subseteq ToSet(x.content)
  <1>1. Len(a) \in Nat /\ DOMAIN a = 1 .. Len(a)
    BY LenProperties DEF Authors
  <1>2. Version(x.content, Len(a)) /\ DOMAIN x.names \subseteq ToSet(x.content)
    BY DEF Well
  <1> QED
    BY <1>1, <1>2, VersionFacts

LEMMA PreviousFacts ==
  ASSUME NEW a \in Authors, NEW free, NEW l, LogWell(l, a, free), NEW c \in DOMAIN trees, Version(trees[c], Len(a))
  PROVE  /\ Previous(l, c) \in NamedContent /\ Well(Previous(l, c), a, free)
         /\ DOMAIN Previous(l, c).names = {} \/ l.entry # <<>> \/ l.initial # <<>>
  <1>1. l.initial \in Seq(NamedContent) /\ l.entry \in Seq(NamedContent)
    BY DEF LogWell, WorkingLog
  <1>2. \A x \in ToSet(l.initial) \cup ToSet(l.entry) : Well(x, a, free)
    BY DEF LogWell
  <1>3. CASE l.entry # <<>>
    <2>1. Previous(l, c) = l.entry[1]
      BY <1>3 DEF Previous
    <2> QED
      BY <1>1, <1>2, <1>3, <2>1, NonEmptyFacts
  <1>4. CASE l.entry = <<>> /\ l.initial # <<>>
    <2>1. Previous(l, c) = l.initial[1]
      BY <1>4 DEF Previous
    <2> QED
      BY <1>1, <1>2, <1>4, <2>1, NonEmptyFacts
  <1>5. CASE l.entry = <<>> /\ l.initial = <<>>
    <2>1. Previous(l, c) = [content |-> trees[c], names |-> Nobody]
      BY <1>5 DEF Previous, Named
    <2>2. trees[c] \in Seq(Nat)
      <3>1. Len(a) \in Nat
        BY LenProperties DEF Authors
      <3> QED
        BY <3>1, VersionFacts
    <2> QED
      BY <2>1, <2>2, NamesFacts DEF NamedContent, Well
  <1> QED
    BY <1>3, <1>4, <1>5

LEMMA KnownFacts ==
  ASSUME NEW a \in Authors, NEW free, NEW l, LogWell(l, a, free), NEW c \in DOMAIN trees, Version(trees[c], Len(a))
  PROVE  /\ Known(l) = <<>> => DOMAIN Previous(l, c).names = {}
         /\ Known(l) # <<>> => Known(l)[1] = Previous(l, c) /\ DOMAIN Previous(l, c).names # {}
  <1>1. CASE l.entry # <<>>
    BY <1>1 DEF Previous, Known
  <1>2. CASE l.entry = <<>> /\ l.initial # <<>>
    BY <1>2 DEF Previous, Known
  <1>3. CASE l.entry = <<>> /\ l.initial = <<>>
    BY <1>3, NamesFacts DEF Previous, Known, Named
  <1> QED
    BY <1>1, <1>2, <1>3

\* What a checkpoint leaves in a log: the lines it found named and that are
\* still there, and with an agent for an author those that are new.
LEMMA AfterFacts ==
  ASSUME NEW a \in Authors, NEW free, NEW l, LogWell(l, a, free), NEW c \in DOMAIN trees, Version(trees[c], Len(a)),
         NEW author \in Agents \cup {Human}, NEW content, Version(content, Len(a)),
         NEW before, before = Previous(l, c),
         author # Human => \A x \in ToSet(content) \ ToSet(before.content) : a[x] = author \/ x \in free,
         NEW after, after = After(l, c, author, content)
  PROVE  /\ LogWell(after, a, free)
         /\ Previous(after, c).content = content
         /\ \A x : x \in DOMAIN Previous(after, c).names <=>
              /\ x \in ToSet(content)
              /\ x \in DOMAIN before.names \/ (author # Human /\ x \notin ToSet(before.content))
  <1>1. before \in NamedContent /\ Well(before, a, free) /\ DOMAIN before.names \subseteq ToSet(before.content)
    BY PreviousFacts, WellFacts
  <1>2. Len(a) \in Nat /\ ToSet(content) \subseteq Nat /\ content \in Seq(Nat)
    <2>1. Len(a) \in Nat
      BY LenProperties DEF Authors
    <2> QED
      BY <2>1, VersionFacts
  <1>3. CASE content = before.content /\ (l.entry # <<>> \/ l.initial = <<>>)
    <2>1. after = l
      BY <1>3 DEF After
    <2> QED
      BY <1>1, <1>3, <2>1
  <1>4. CASE ~(content = before.content /\ (l.entry # <<>> \/ l.initial = <<>>))
    <2> DEFINE e == Entry(l, c, author, content)
               fresh == IF author = Human THEN {} ELSE ToSet(content) \ ToSet(before.content)
               names == [x \in fresh \cup ((DOMAIN before.names) \cap ToSet(content)) |->
                           IF x \in fresh THEN author ELSE before.names[x]]
    <2>1. e = [content |-> content, names |-> names]
      BY DEF Entry, Named, Over, Only
    <2> HIDE DEF e
    <2>2. after = [l EXCEPT !.entry = <<e>>]
      BY <1>4 DEF After, e
    <2>3. /\ DOMAIN names = fresh \cup ((DOMAIN before.names) \cap ToSet(content))
          /\ \A x \in DOMAIN names : names[x] = IF x \in fresh THEN author ELSE before.names[x]
      OBVIOUS
    <2>4. fresh \subseteq ToSet(content)
          /\ \A x \in fresh : author \in Agents /\ (a[x] = author \/ x \in free)
      OBVIOUS
    <2> HIDE DEF names
    <2>5. \A x \in DOMAIN names : names[x] \in Agents /\ (names[x] = a[x] \/ x \in free)
      BY <1>1, <2>3, <2>4 DEF Well
    <2>6. names \in Names
      <3>1. names \in [DOMAIN names -> Agents]
        BY <2>5 DEF names
      <3>2. DOMAIN names \in SUBSET Nat
        BY <1>2, <2>3, <2>4
      <3> QED
        BY <3>1, <3>2, NamesFacts
    <2>7. e \in NamedContent /\ e.content = content /\ e.names = names
      BY <1>2, <2>1, <2>6 DEF NamedContent
    <2>8. Well(e, a, free)
      BY <2>3, <2>4, <2>5, <2>7 DEF Well
    <2>9. <<e>> \in Seq(NamedContent) /\ <<e>> # <<>> /\ <<e>>[1] = e /\ ToSet(<<e>>) = {e}
      BY <2>7, OneFacts
    <2>10. after \in WorkingLog /\ after.entry = <<e>> /\ after.initial = l.initial
      BY <2>2, <2>9 DEF LogWell, WorkingLog
    <2>11. LogWell(after, a, free)
      BY <2>8, <2>9, <2>10 DEF LogWell
    <2>12. Previous(after, c) = e
      BY <2>9, <2>10 DEF Previous
    <2> QED
      BY <2>3, <2>7, <2>11, <2>12
  <1> QED
    BY <1>3, <1>4

(* What the daemon reads at a commit *)

\* The line numbers of the final state that are named, each with its author,
\* are those of the known lines.
NumbersOf(named, final, known, free) ==
  /\ \A n : n \in DOMAIN named <=> n \in DOMAIN final /\ final[n] \in known
  /\ \A n \in DOMAIN named : named[n] \in Agents /\ (named[n] = by[final[n]] \/ final[n] \in free)

\* The agents named for line numbers of the final state.
Numbered(b, final) ==
  IF Known(Synced(b, final)) = <<>> THEN Nobody ELSE ByNumber(Known(Synced(b, final))[1])

\* Names for lines of the final state, right but for the free ones, and if it is
\* not the commit's all that are known.
NamesLeft(left, b, final, known, free) ==
  /\ left \in Names /\ DOMAIN left \subseteq ToSet(final)
  /\ \A l \in DOMAIN left : left[l] \in Agents /\ (left[l] = by[l] \/ l \in free)
  /\ final # trees[b + 1] => \A l \in ToSet(final) : l \in known => l \in DOMAIN left

\* The line numbers of the final state that are named are those of the lines
\* that the log named before.
LEMMA NamedLines ==
  ASSUME by \in Authors, NEW free, NEW b \in DOMAIN trees, Version(trees[b], Len(by)),
         LogWell(log[b], by, free), NEW final, Version(final, Len(by))
  PROVE  NumbersOf(Numbered(b, final), final, DOMAIN Previous(log[b], b).names, free)
  <1> DEFINE named == Numbered(b, final)
  <1> SUFFICES /\ \A n : n \in DOMAIN named <=> n \in DOMAIN final /\ final[n] \in DOMAIN Previous(log[b], b).names
               /\ \A n \in DOMAIN named : named[n] \in Agents /\ (named[n] = by[final[n]] \/ final[n] \in free)
    BY DEF NumbersOf
  <1> DEFINE synced == Synced(b, final)
             before == Previous(log[b], b)
             now == Previous(synced, b)
  <1>1. before \in NamedContent /\ Well(before, by, free) /\ DOMAIN before.names \subseteq ToSet(before.content)
    BY PreviousFacts, WellFacts
  <1>2. /\ LogWell(synced, by, free)
        /\ now.content = final
        /\ \A x : x \in DOMAIN now.names <=> x \in ToSet(final) /\ x \in DOMAIN before.names
    <2>1. CASE Tracked(b) /\ before.content = final
      <3>1. synced = log[b]
        BY <2>1 DEF Synced
      <3> HIDE DEF synced
      <3> QED
        BY <1>1, <2>1, <3>1
    <2>2. CASE ~(Tracked(b) /\ before.content = final)
      <3>1. synced = After(log[b], b, Human, final)
        BY <2>2 DEF Synced
      <3> HIDE DEF synced, before
      <3>2. before = Previous(log[b], b)
        BY DEF before
      <3> QED
        BY <3>1, <3>2, AfterFacts
    <2> QED
      BY <2>1, <2>2
  <1>3. Well(now, by, free)
    BY <1>2, PreviousFacts
  <1>4. \A n : n \in DOMAIN final => final[n] \in ToSet(final)
    BY DEF ToSet
  <1>5. named = IF Known(synced) = <<>> THEN Nobody ELSE ByNumber(Known(synced)[1])
    BY DEF Numbered
  <1> HIDE DEF synced, named
  <1>6. CASE Known(synced) = <<>>
    <2>1. DOMAIN now.names = {}
      BY <1>2, <1>6, KnownFacts
    <2>2. DOMAIN named = {}
      BY <1>5, <1>6, NamesFacts
    <2> QED
      BY <1>2, <1>4, <2>1, <2>2
  <1>7. CASE Known(synced) # <<>>
    <2>1. named = ByNumber(now)
      BY <1>2, <1>5, <1>7, KnownFacts
    <2>2. /\ DOMAIN named = {n \in DOMAIN final : final[n] \in DOMAIN now.names}
          /\ \A n \in DOMAIN named : named[n] = now.names[final[n]]
      BY <1>2, <2>1 DEF ByNumber, Lines
    <2>3. \A n \in DOMAIN named : named[n] \in Agents /\ (named[n] = by[final[n]] \/ final[n] \in free)
      BY <1>2, <1>3, <2>2 DEF Well
    <2> HIDE DEF now
    <2> QED
      BY <1>2, <1>4, <2>2, <2>3
  <1> QED
    BY <1>6, <1>7

\* What is left for the next commit's log names authors, and if the snapshot
\* is not the commit all that the log knew of it.
LEMMA CarriedNames ==
  ASSUME by \in Authors, NEW free, NEW b \in DOMAIN trees, Version(trees[b], Len(by)),
         LogWell(log[b], by, free), NEW final, Version(final, Len(by)),
         NEW named, NumbersOf(named, final, DOMAIN Previous(log[b], b).names, free)
  PROVE  NamesLeft(Carried(b, final, Left(b + 1, final, named)), b, final, DOMAIN Previous(log[b], b).names, free)
  <1>0. PICK left : left = Carried(b, final, Left(b + 1, final, named))
    OBVIOUS
  <1> SUFFICES
        /\ left \in Names /\ DOMAIN left \subseteq ToSet(final)
        /\ \A l \in DOMAIN left : left[l] \in Agents /\ (left[l] = by[l] \/ l \in free)
        /\ final # trees[b + 1] =>
             \A l \in ToSet(final) : l \in DOMAIN Previous(log[b], b).names => l \in DOMAIN left
    BY <1>0 DEF NamesLeft
  <1> USE DEF NumbersOf
  <1> DEFINE before == Previous(log[b], b)
             unstaged == Unstaged(b + 1, final)
             later == (DOMAIN named) \cap unstaged
             own == Left(b + 1, final, named)
  <1>1. before \in NamedContent /\ Well(before, by, free) /\ DOMAIN before.names \subseteq ToSet(before.content)
    BY PreviousFacts, WellFacts
  <1>2. ToSet(final) \subseteq Nat /\ \A n \in DOMAIN final : final[n] \in ToSet(final)
    <2>1. Len(by) \in Nat
      BY LenProperties DEF Authors
    <2> QED
      BY <2>1, VersionFacts
  <1>3. own = [l \in {final[n] : n \in later} |-> named[CHOOSE n \in later : final[n] = l]]
    BY DEF Left
  <1>4. /\ DOMAIN own = {final[n] : n \in later}
        /\ \A l \in DOMAIN own : own[l] \in Agents /\ (own[l] = by[l] \/ l \in free)
    <2> HIDE DEF own, later
    <2>1. DOMAIN own = {final[n] : n \in later}
      BY <1>3
    <2>2. ASSUME NEW l \in DOMAIN own
          PROVE  own[l] \in Agents /\ (own[l] = by[l] \/ l \in free)
      <3>1. own[l] = named[CHOOSE n \in later : final[n] = l]
        BY <1>3, <2>2
      <3>2. \E n \in later : final[n] = l
        BY <2>1, <2>2
      <3>3. PICK m : m = (CHOOSE n \in later : final[n] = l)
        OBVIOUS
      <3>4. m \in later /\ final[m] = l
        BY <3>2, <3>3
      <3>5. m \in DOMAIN named
        BY <3>4 DEF later
      <3> QED
        BY <3>1, <3>3, <3>4, <3>5
    <2> QED
      BY <2>1, <2>2
  <1>5. DOMAIN own \subseteq ToSet(final)
    BY <1>2, <1>4
  <1>6. left = IF final = trees[b + 1] \/ Known(log[b]) = <<>> THEN own
               ELSE Over(Only(Known(log[b])[1].names, ToSet(final)), own)
    BY <1>0 DEF Carried
  <1> HIDE DEF own
  <1>7. own \in Names
    <2>1. own \in [DOMAIN own -> Agents]
      BY <1>4, <1>3
    <2>2. DOMAIN own \in SUBSET Nat
      BY <1>2, <1>5
    <2> QED
      BY <2>1, <2>2, NamesFacts
  <1>8. CASE final = trees[b + 1] \/ Known(log[b]) = <<>>
    <2>1. left = own
      BY <1>6, <1>8
    <2>2. Known(log[b]) = <<>> => DOMAIN before.names = {}
      BY KnownFacts
    <2> HIDE DEF before
    <2>3. final # trees[b + 1] => DOMAIN before.names = {}
      BY <1>8, <2>2
    <2> QED
      BY <1>4, <1>5, <1>7, <2>1, <2>3 DEF before
  <1>9. CASE ~(final = trees[b + 1] \/ Known(log[b]) = <<>>)
    <2>1. Known(log[b])[1] = before
      BY <1>9, KnownFacts
    <2> DEFINE kept == (DOMAIN before.names) \cap ToSet(final)
    <2>2. left = [l \in kept \cup (DOMAIN own) |-> IF l \in kept THEN before.names[l] ELSE own[l]]
      <3> HIDE DEF before
      <3>1. left = Over(Only(before.names, ToSet(final)), own)
        BY <1>6, <1>9, <2>1
      <3> QED
        BY <3>1 DEF Over, Only
    <2>3. \A l \in kept : before.names[l] \in Agents /\ (before.names[l] = by[l] \/ l \in free)
      BY <1>1 DEF Well
    <2>4. DOMAIN left = kept \cup (DOMAIN own) /\ DOMAIN left \subseteq ToSet(final)
      BY <1>5, <2>2
    <2>5. \A l \in DOMAIN left : left[l] \in Agents /\ (left[l] = by[l] \/ l \in free)
      <3> HIDE DEF before, kept
      <3> QED
        BY <1>4, <2>2, <2>3, <2>4
    <2>6. left \in Names
      <3>1. left \in [DOMAIN left -> Agents]
        BY <2>2, <2>5
      <3>2. DOMAIN left \in SUBSET Nat
        BY <1>2, <2>4
      <3> QED
        BY <3>1, <3>2, NamesFacts
    <2> QED
      BY <2>4, <2>5, <2>6
  <1> QED
    BY <1>8, <1>9

\* The claims of a note are for lines the commit added; if the worktree still
\* held the commit, each names its author, and all that the log knew are made.
LEMMA ClaimedLines ==
  ASSUME by \in Authors, NEW free, NEW c, c \in DOMAIN trees, Version(trees[c], Len(by)),
         NEW final, Version(final, Len(by)),
         NEW known, NEW named, NumbersOf(named, final, known, free),
         NEW claims, claims = Claims(c, final, named)
  PROVE  /\ \A x \in claims : x \in Nat \X Agents /\ x[1] \in Committed(c)
         /\ ToSet(trees[c]) \subseteq ToSet(final) /\ SameOrder(trees[c], final) =>
              /\ \A x \in claims : by[trees[c][x[1]]] = x[2] \/ trees[c][x[1]] \in free
              /\ \A n \in Committed(c) : trees[c][n] \in known \ free => <<n, by[trees[c][n]]>> \in claims
  <1> DEFINE C == trees[c]
             unstaged == Unstaged(c, final)
  <1>1. Len(by) \in Nat
    BY LenProperties DEF Authors
  <1>2. /\ DOMAIN C \subseteq Nat /\ DOMAIN final \subseteq Nat
        /\ (\A i \in DOMAIN C : C[i] \in ToSet(C))
        /\ (\A l \in ToSet(C) : \E i \in DOMAIN C : C[i] = l)
        /\ \A l \in ToSet(final) : \E n \in DOMAIN final : final[n] = l
    BY <1>1, VersionFacts
  <1>9. /\ \A n : n \in DOMAIN named <=> n \in DOMAIN final /\ final[n] \in known
        /\ \A n \in DOMAIN named : named[n] \in Agents /\ (named[n] = by[final[n]] \/ final[n] \in free)
    BY DEF NumbersOf
  <1>3. Committed(c) \subseteq DOMAIN C
    BY DEF Committed, Lines
  <1>4. \A x : x \in claims <=>
          \E n \in DOMAIN named : /\ n \notin unstaged /\ InCommit(n, unstaged) \in Committed(c)
                                  /\ x = <<InCommit(n, unstaged), named[n]>>
    BY DEF Claims
  <1> HIDE DEF unstaged
  <1>5. \A x \in claims : x \in Nat \X Agents /\ x[1] \in Committed(c)
    <2> TAKE x \in claims
    <2>1. PICK n \in DOMAIN named : InCommit(n, unstaged) \in Committed(c) /\ x = <<InCommit(n, unstaged), named[n]>>
      BY <1>4
    <2> QED
      BY <1>9, <1>2, <1>3, <2>1
  <1>6. ASSUME ToSet(C) \subseteq ToSet(final), SameOrder(C, final)
        PROVE  /\ \A x \in claims : by[C[x[1]]] = x[2] \/ C[x[1]] \in free
               /\ \A n \in Committed(c) : C[n] \in known \ free => <<n, by[C[n]]>> \in claims
    <2>1. unstaged = Added(C, final)
      <3>1. Insertions(C, final) = Added(C, final)
        <4> SUFFICES ASSUME NEW n \in Added(C, final), NEW i \in DOMAIN C
                     PROVE  \E m \in DOMAIN final, j \in DOMAIN C :
                              /\ final[m] = C[j]
                              /\ (m < n /\ i <= j) \/ (n < m /\ j <= i)
          BY DEF Insertions, Lines
        <4>1. PICK m \in DOMAIN final : final[m] = C[i]
          BY <1>2, <1>6
        <4>2. final[n] \notin ToSet(C) /\ n \in DOMAIN final
          BY DEF Added, Lines
        <4>3. m # n
          BY <1>2, <4>1, <4>2
        <4>4. m \in Int /\ n \in Int /\ i \in Int
          BY <1>2, <4>2
        <4> QED
          BY <4>1, <4>3, <4>4
      <3> QED
        BY <3>1 DEF unstaged, Unstaged
    <2>2. \A n \in DOMAIN final : n \notin unstaged <=> final[n] \in ToSet(C)
      BY <2>1 DEF Added, Lines
    <2>3. \A n \in DOMAIN final : \A p \in DOMAIN C : final[n] = C[p] => InCommit(n, unstaged) = p
      BY <1>1, <1>6, <2>1, CommitNumber
    <2>4. \A x \in claims : by[C[x[1]]] = x[2] \/ C[x[1]] \in free
      <3> TAKE x \in claims
      <3>1. PICK n \in DOMAIN named : n \notin unstaged /\ x = <<InCommit(n, unstaged), named[n]>>
        BY <1>4
      <3>2. n \in DOMAIN final /\ (named[n] = by[final[n]] \/ final[n] \in free) /\ final[n] \in ToSet(C)
        BY <1>9, <2>2, <3>1
      <3>3. PICK p \in DOMAIN C : C[p] = final[n]
        BY <1>2, <3>2
      <3> QED
        BY <2>3, <3>1, <3>2, <3>3
    <2>5. ASSUME NEW p \in Committed(c), C[p] \in known \ free
          PROVE  <<p, by[C[p]]>> \in claims
      <3>1. p \in DOMAIN C /\ C[p] \in ToSet(final)
        BY <1>2, <1>3, <1>6
      <3>2. PICK n \in DOMAIN final : final[n] = C[p]
        BY <1>2, <3>1
      <3>3. n \in DOMAIN named /\ named[n] = by[C[p]]
        BY <1>9, <2>5, <3>2
      <3>4. n \notin unstaged /\ InCommit(n, unstaged) = p
        BY <1>2, <2>2, <2>3, <3>1, <3>2
      <3> QED
        BY <1>4, <3>3, <3>4
    <2> QED
      BY <2>4, <2>5
  <1> QED
    BY <1>5, <1>6

----------------------------------------------------------------------------
(* The inductive invariant: whose lines are named *)

Hook ==
  [at : {"idle", "pre_head", "pre_read", "editing", "post_head", "post_read"}, base : Nat,
   content : Seq(Nat), lines : SUBSET Nat]

Element ==
  [is : {"request", "unseen", "checked", "commit"}, author : Agents \cup {Human}, base : Nat,
   contents : Seq(Seq(Nat)), lines : SUBSET Nat]

Note == [claims : SUBSET (Nat \X Agents), gaps : SUBSET (Nat \X Agents), final : Seq(Nat)]

Shape ==
  /\ by \in Authors /\ Len(by) <= MaxLines
  /\ trees \in Seq(Seq(Nat)) /\ Len(trees) <= MaxCommits
  /\ modified \in 0 .. Len(trees) /\ deletes \in 0 .. MaxDeletes /\ edits \in 0 .. MaxEdits
  /\ edit \in [Agents -> Hook]
  /\ queue \in Seq(Element)
  /\ log \in [1 .. MaxCommits -> WorkingLog]
  /\ notes \in Seq(Note)
  /\ doubtful \subseteq DOMAIN by /\ missed \subseteq DOMAIN by

\* Every version there is, is made of lines written so far, none twice.
Versions ==
  /\ Version(work, Len(by)) /\ Version(index, Len(by))
  /\ \A c \in DOMAIN trees : Version(trees[c], Len(by))
  /\ \A k \in DOMAIN queue :
       /\ \A s \in DOMAIN queue[k].contents : Version(queue[k].contents[s], Len(by))
       /\ queue[k].lines \subseteq DOMAIN by
  /\ \A a \in Agents : Version(edit[a].content, Len(by)) /\ edit[a].lines \subseteq DOMAIN by

\* The commit whose working log is in use, and what the log says of the file.
Seen == Len(notes) + 1

View == Previous(log[Seen], Seen)

\* Lines for which a log may name somebody else: any that is not read again, and
\* those of the commit itself.
Free(c) == IF c < Seen THEN Nat ELSE doubtful \cup ToSet(trees[Seen])

Logs ==
  \A c \in 1 .. MaxCommits : LogWell(log[c], by, Free(c)) /\ (Seen < c => log[c] = EmptyLog)

Asks(k) == queue[k].is = "request"

\* Every commit without a note is in the queue, in order, and a checkpoint for a
\* commit is asked for before the next commit or after it.
Queued ==
  /\ Seen \in DOMAIN trees
  /\ \A a \in Agents : edit[a].base \in DOMAIN trees
  /\ \A k \in DOMAIN queue :
       /\ queue[k].base \in DOMAIN trees
       /\ Asks(k) => Len(queue[k].contents) = 1
       /\ queue[k].is \in {"unseen", "checked"} => queue[k].contents = <<>>
       /\ queue[k].is = "commit" => Len(queue[k].contents) <= 1
       /\ ~Asks(k) => Seen <= queue[k].base /\ queue[k].base + 1 \in DOMAIN trees
  /\ \A i, j \in DOMAIN queue : i < j /\ ~Asks(j) =>
       /\ queue[i].base <= queue[j].base
       /\ ~Asks(i) => queue[i].base < queue[j].base
  /\ \A c \in DOMAIN trees : Seen <= c /\ c < Len(trees) =>
       \E j \in DOMAIN queue : ~Asks(j) /\ queue[j].base = c

\* Whatever the worktree was read for, it had the commit's lines in its order.
Ordered ==
  /\ SameOrder(index, work)
  /\ \A c \in DOMAIN trees : SameOrder(trees[c], work)
  /\ \A k \in DOMAIN queue : ~Asks(k) /\ queue[k].contents # <<>> =>
       SameOrder(trees[queue[k].base + 1], queue[k].contents[1])

\* A line that is in a commit and later still is in every version between.
Convex ==
  /\ \A c \in DOMAIN trees : \A l \in ToSet(trees[c]) : l \in ToSet(work) => l \in ToSet(index)
  /\ \A c, d \in DOMAIN trees : c <= d =>
       \A l \in ToSet(trees[c]) : l \in ToSet(work) \/ l \in ToSet(index) => l \in ToSet(trees[d])
  /\ \A k \in DOMAIN queue : ~Asks(k) /\ queue[k].contents # <<>> =>
       \A l \in ToSet(trees[queue[k].base]) :
         l \in ToSet(queue[k].contents[1]) => l \in ToSet(trees[queue[k].base + 1])

\* All there is is in doubt while edits overlap, and what is written between a
\* hook's reading and its asking is as well.
Hooks ==
  /\ \A a, b \in Agents : a # b /\ Open(a) /\ Open(b) => DOMAIN by \subseteq doubtful
  /\ \A a \in Agents : edit[a].at \in {"idle", "pre_head", "pre_read"} => edit[a].lines = {}
  /\ \A a \in Agents : edit[a].at \in {"pre_read", "post_read"} =>
       \A l \in ToSet(work) : l \in ToSet(edit[a].content) \/ l \in doubtful

\* A request for the log that will be in use when its turn comes.
Live(k) ==
  /\ Seen <= queue[k].base
  /\ \A j \in DOMAIN queue : j < k /\ ~Asks(j) => queue[j].base < queue[k].base

\* The log will know of the line when the k-th element's turn comes.
Prior(k, l) ==
  IF k = 1 THEN l \in ToSet(View.content)
  ELSE Asks(k - 1) /\ Live(k - 1) /\ l \in ToSet(queue[k - 1].contents[1])

\* An agent's checkpoint finds what others wrote known, committed or in doubt.
Kept ==
  \A k \in DOMAIN queue : Asks(k) /\ Live(k) /\ queue[k].author # Human =>
    \A l \in ToSet(queue[k].contents[1]) :
      by[l] = queue[k].author \/ l \in doubtful \/ l \in ToSet(trees[queue[k].base]) \/ Prior(k, l)

\* So will the one that an agent at work asks for.
Other(a, l) == by[l] # a /\ l \notin doubtful /\ l \notin ToSet(trees[HEAD])

Around ==
  \A a \in Agents : Open(a) =>
    /\ \A l \in ToSet(work) : Other(a, l) =>
         IF edit[a].at \in {"pre_head", "pre_read"} THEN edit[a].base = HEAD ELSE Prior(Len(queue) + 1, l)
    /\ edit[a].at = "post_read" /\ edit[a].base = HEAD =>
         \A l \in ToSet(edit[a].content) : Other(a, l) => Prior(Len(queue) + 1, l)

\* Claims are for lines that the commit added; if all of it was in the content
\* they name the authors.
NoteRight(k) ==
  /\ k + 1 \in DOMAIN trees
  /\ \A x \in notes[k].claims : x \in Nat \X Agents /\ x[1] \in Committed(k + 1)
  /\ Intact(k) => \A x \in notes[k].claims :
       by[trees[k + 1][x[1]]] = x[2] \/ trees[k + 1][x[1]] \in doubtful

Sound ==
  /\ Shape /\ Versions /\ Logs /\ Queued /\ Ordered /\ Convex /\ Hooks /\ Kept /\ Around
  /\ \A k \in DOMAIN notes : NoteRight(k)

\* Facts of the shape that most steps need.
LEMMA ShapeFacts ==
  ASSUME Shape
  PROVE  /\ by \in Authors /\ Len(by) \in Nat /\ DOMAIN by = 1 .. Len(by)
         /\ \A l \in DOMAIN by : by[l] \in Agents \cup {Human}
         /\ Len(trees) \in Nat /\ DOMAIN trees = 1 .. Len(trees) /\ DOMAIN trees \subseteq 1 .. MaxCommits
         /\ \A c \in DOMAIN trees : trees[c] \in Seq(Nat)
         /\ queue \in Seq(Element) /\ Len(queue) \in Nat /\ DOMAIN queue = 1 .. Len(queue)
         /\ \A k \in DOMAIN queue : queue[k] \in Element /\ queue[k].base \in Nat
         /\ \A a \in Agents : edit[a] \in Hook /\ edit[a].base \in Nat
         /\ notes \in Seq(Note) /\ Len(notes) \in Nat /\ DOMAIN notes = 1 .. Len(notes)
         /\ \A k \in DOMAIN notes : notes[k] \in Note
         /\ MaxLines \in Nat /\ MaxDeletes \in Nat /\ MaxEdits \in Nat /\ MaxCommits \in Nat \ {0}
         /\ Human \notin Agents /\ Seen \in Nat \ {0}
  <1>1. /\ Len(by) \in Nat /\ DOMAIN by = 1 .. Len(by) /\ by \in [1 .. Len(by) -> Agents \cup {Human}]
    BY LenProperties DEF Shape, Authors
  <1>2. Len(trees) \in Nat /\ DOMAIN trees = 1 .. Len(trees) /\ trees \in [1 .. Len(trees) -> Seq(Nat)]
    BY LenProperties DEF Shape
  <1>3. Len(queue) \in Nat /\ DOMAIN queue = 1 .. Len(queue) /\ queue \in [1 .. Len(queue) -> Element]
    BY LenProperties DEF Shape
  <1>4. Len(notes) \in Nat /\ DOMAIN notes = 1 .. Len(notes) /\ notes \in [1 .. Len(notes) -> Note]
    BY LenProperties DEF Shape
  <1>5. (\A r \in Element : r.base \in Nat) /\ \A r \in Hook : r.base \in Nat
    BY DEF Element, Hook
  <1>6. \A a \in Agents : edit[a] \in Hook
    BY DEF Shape
  <1>7. MaxLines \in Nat /\ MaxDeletes \in Nat /\ MaxEdits \in Nat /\ MaxCommits \in Nat \ {0} /\ Human \notin Agents
    BY CommitAssumption DEF CommitAssumption
  <1>8. Len(trees) <= MaxCommits /\ by \in Authors /\ queue \in Seq(Element) /\ notes \in Seq(Note)
    BY DEF Shape
  <1> QED
    BY <1>1, <1>2, <1>3, <1>4, <1>5, <1>6, <1>7, <1>8 DEF Seen

\* What the versions are made of.
LEMMA LineFacts ==
  ASSUME Shape, Versions
  PROVE  /\ \A s : Version(s, Len(by)) => s \in Seq(Nat) /\ ToSet(s) \subseteq DOMAIN by
         /\ ToSet(work) \subseteq DOMAIN by /\ ToSet(index) \subseteq DOMAIN by
         /\ \A c \in DOMAIN trees : ToSet(trees[c]) \subseteq DOMAIN by
         /\ \A k \in DOMAIN queue : \A s \in DOMAIN queue[k].contents : ToSet(queue[k].contents[s]) \subseteq DOMAIN by
         /\ \A a \in Agents : ToSet(edit[a].content) \subseteq DOMAIN by
  <1>1. \A s : Version(s, Len(by)) => s \in Seq(Nat) /\ ToSet(s) \subseteq DOMAIN by
    BY ShapeFacts, VersionFacts
  <1> QED
    BY <1>1 DEF Versions

LEMMA QueueFacts ==
  ASSUME Shape, Queued, NEW k \in DOMAIN queue
  PROVE  /\ queue[k].is \in {"request", "unseen", "checked", "commit"}
         /\ queue[k].author \in Agents \cup {Human}
         /\ Asks(k) => DOMAIN queue[k].contents = {1} /\ queue[k].contents # <<>>
         /\ queue[k].contents = <<>> \/ DOMAIN queue[k].contents = {1}
         /\ DOMAIN <<>> = {}
  <1>1. queue[k] \in Element
    BY ShapeFacts
  <1>2. /\ queue[k].contents \in Seq(Seq(Nat)) /\ queue[k].is \in {"request", "unseen", "checked", "commit"}
        /\ queue[k].author \in Agents \cup {Human}
    BY <1>1 DEF Element
  <1>3. PICK n \in Nat : n = Len(queue[k].contents) /\ DOMAIN queue[k].contents = 1 .. n
    BY <1>2, LenProperties
  <1>4. n = 0 <=> queue[k].contents = <<>>
    BY <1>2, <1>3, EmptySeq
  <1>5. /\ Asks(k) => n = 1
        /\ queue[k].is \in {"unseen", "checked"} => n = 0
        /\ queue[k].is = "commit" => n <= 1
    BY <1>3, <1>4 DEF Queued
  <1>6. 1 .. 1 = {1} /\ DOMAIN <<>> = {}
    OBVIOUS
  <1>7. n = 0 \/ n = 1
    BY <1>2, <1>5 DEF Asks
  <1> QED
    BY <1>2, <1>3, <1>4, <1>5, <1>6, <1>7

\* The daemon is at the log in use, or at a request for one that it is done with.
LEMMA HeadFacts ==
  ASSUME Shape, Queued, queue # <<>>
  PROVE  /\ 1 \in DOMAIN queue /\ Head(queue) = queue[1]
         /\ queue[1].base <= Seen
         /\ ~Asks(1) => queue[1].base = Seen
         /\ Live(1) <=> queue[1].base = Seen
  <1> USE ShapeFacts
  <1>1. 1 \in DOMAIN queue /\ Head(queue) = queue[1]
    <2>1. queue \in Seq(Element)
      OBVIOUS
    <2> HIDE ShapeFacts
    <2> QED
      BY <2>1, TailFacts
  <1>2. queue[1].base \in DOMAIN trees /\ queue[1].base \in Nat /\ Seen \in DOMAIN trees
    BY <1>1 DEF Queued
  <1>3. queue[1].base <= Seen
    <2>1. CASE Seen = Len(trees)
      BY <1>2, <2>1
    <2>2. CASE Seen < Len(trees)
      <3>1. PICK j \in DOMAIN queue : ~Asks(j) /\ queue[j].base = Seen
        BY <1>2, <2>2 DEF Queued
      <3>2. CASE j = 1
        BY <3>1, <3>2
      <3>3. CASE 1 < j
        BY <1>1, <3>1, <3>3 DEF Queued
      <3> QED
        BY <3>1, <3>2, <3>3
    <2> QED
      BY <1>2, <2>1, <2>2
  <1>4. ~Asks(1) => queue[1].base = Seen
    <2>1. ~Asks(1) => Seen <= queue[1].base
      BY <1>1 DEF Queued
    <2> QED
      BY <1>2, <1>3, <2>1
  <1>5. Live(1) <=> Seen <= queue[1].base
    BY <1>1 DEF Live
  <1> QED
    BY <1>1, <1>2, <1>3, <1>4, <1>5

\* A note stays right when lines and commits are added and more is in doubt.
LEMMA NoteKept ==
  ASSUME Shape, Versions, NEW k \in Nat \ {0}, NoteRight(k),
         notes'[k] = notes[k], doubtful \subseteq doubtful',
         \A l \in DOMAIN by : by'[l] = by[l],
         \A c \in DOMAIN trees : c \in DOMAIN trees' /\ trees'[c] = trees[c]
  PROVE  NoteRight(k)'
  <1>1. k + 1 \in DOMAIN trees /\ k \in DOMAIN trees /\ (k + 1) - 1 = k
    BY ShapeFacts DEF NoteRight
  <1>2. trees'[k + 1] = trees[k + 1] /\ trees'[k] = trees[k] /\ k + 1 \in DOMAIN trees'
    BY <1>1
  <1>3. Committed(k + 1)' = Committed(k + 1) /\ (Intact(k)' <=> Intact(k))
    BY <1>1, <1>2 DEF Committed, Lines, Intact
  <1>4. \A n \in Committed(k + 1) : trees[k + 1][n] \in DOMAIN by
    <2>1. ToSet(trees[k + 1]) \subseteq DOMAIN by
      BY <1>1, LineFacts
    <2>2. \A i \in DOMAIN trees[k + 1] : trees[k + 1][i] \in DOMAIN by
      BY <2>1 DEF ToSet
    <2> QED
      BY <2>2 DEF Committed, Lines
  <1>5. \A n \in Committed(k + 1) : by'[trees'[k + 1][n]] = by[trees[k + 1][n]]
    BY <1>2, <1>4
  <1>6. \A x \in notes[k].claims : x \in Nat \X Agents /\ x[1] \in Committed(k + 1)
    BY DEF NoteRight
  <1>7. Intact(k) => \A x \in notes[k].claims : by[trees[k + 1][x[1]]] = x[2] \/ trees[k + 1][x[1]] \in doubtful
    BY DEF NoteRight
  <1>8. Intact(k) => \A x \in notes'[k].claims : by'[trees'[k + 1][x[1]]] = x[2] \/ trees'[k + 1][x[1]] \in doubtful'
    BY <1>2, <1>5, <1>6, <1>7
  <1> QED
    BY <1>2, <1>3, <1>6, <1>8 DEF NoteRight

LEMMA LogGrows ==
  ASSUME NEW a \in Authors, NEW b \in Authors, Len(a) <= Len(b),
         \A l \in DOMAIN a : b[l] = a[l],
         NEW free, NEW more, free \subseteq more,
         NEW l, LogWell(l, a, free)
  PROVE  LogWell(l, b, more)
  <1>1. Len(a) \in Nat /\ Len(b) \in Nat /\ DOMAIN a = 1 .. Len(a)
    BY LenProperties DEF Authors
  <1>2. ASSUME NEW x, Well(x, a, free)
        PROVE  Well(x, b, more)
    <2>1. Version(x.content, Len(b))
      BY <1>1, <1>2, VersionGrows DEF Well
    <2>2. DOMAIN x.names \subseteq DOMAIN a
      BY <1>2, WellFacts
    <2> QED
      BY <1>2, <2>1, <2>2 DEF Well
  <1> QED
    BY <1>2 DEF LogWell

\* What a step of the people, the agents and the hooks leaves of the logs and of
\* the notes.
Untouched ==
  /\ log' = log /\ notes' = notes
  /\ by' \in Authors /\ Len(by) <= Len(by')
  /\ \A l \in DOMAIN by : l \in DOMAIN by' /\ by'[l] = by[l]
  /\ doubtful \subseteq doubtful'
  /\ \A c \in DOMAIN trees : c \in DOMAIN trees' /\ trees'[c] = trees[c]

LEMMA UntouchedKeeps ==
  ASSUME Sound, Untouched
  PROVE  /\ Seen' = Seen /\ View' = View
         /\ Logs' /\ (\A k \in DOMAIN notes : NoteRight(k))'
  <1>1. Shape /\ Versions /\ Logs /\ Queued /\ \A k \in DOMAIN notes : NoteRight(k)
    BY DEF Sound
  <1>2. /\ log' = log /\ notes' = notes /\ by' \in Authors /\ Len(by) <= Len(by') /\ doubtful \subseteq doubtful'
        /\ \A l \in DOMAIN by : l \in DOMAIN by' /\ by'[l] = by[l]
        /\ \A c \in DOMAIN trees : c \in DOMAIN trees' /\ trees'[c] = trees[c]
    BY DEF Untouched
  <1>3. Seen' = Seen /\ Seen \in DOMAIN trees
    BY <1>1, <1>2 DEF Seen, Queued
  <1>4. View' = View
    BY <1>2, <1>3 DEF View, Previous
  <1>5. Logs'
    <2> SUFFICES ASSUME NEW c \in 1 .. MaxCommits
                 PROVE  LogWell(log[c], by', Free(c)') /\ (Seen < c => log[c] = EmptyLog)
      BY <1>2, <1>3 DEF Logs
    <2>1. Free(c) \subseteq Free(c)'
      BY <1>2, <1>3 DEF Free
    <2>2. LogWell(log[c], by, Free(c)) /\ (Seen < c => log[c] = EmptyLog)
      BY <1>1 DEF Logs
    <2>3. by \in Authors
      BY <1>1 DEF Shape
    <2> QED
      BY <1>2, <2>1, <2>2, <2>3, LogGrows
  <1>6. (\A k \in DOMAIN notes : NoteRight(k))'
    <2> SUFFICES ASSUME NEW k \in DOMAIN notes
                 PROVE  NoteRight(k)'
      BY <1>2
    <2>1. k \in Nat \ {0}
      BY <1>1, ShapeFacts
    <2> QED
      BY <1>1, <1>2, <2>1, NoteKept
  <1> QED
    BY <1>3, <1>4, <1>5, <1>6

(* Writing *)

\* What the author's writing does to the worktree.
Written(author) ==
  /\ by' \in Authors /\ Len(by) <= Len(by') /\ Len(by') <= MaxLines
  /\ Len(by') \in Nat /\ DOMAIN by' = 1 .. Len(by')
  /\ \A l \in DOMAIN by : l \in DOMAIN by' /\ by'[l] = by[l]
  /\ \A l \in DOMAIN by' : l \in DOMAIN by \/ (by'[l] = author /\ l \in ToSet(work'))
  /\ doubtful \subseteq doubtful' /\ doubtful' \subseteq DOMAIN by'
  /\ \A b \in Agents : Open(b) /\ b # author => DOMAIN by' \subseteq doubtful' \cup DOMAIN by
  /\ Version(work', Len(by')) /\ ToSet(work') \subseteq DOMAIN by'
  /\ \A l \in ToSet(work') : l \in ToSet(work) \/ l \notin DOMAIN by
  /\ Within(work', work, DOMAIN by)
  /\ deletes' \in 0 .. MaxDeletes

LEMMA WriteStep ==
  ASSUME Shape, Versions, NEW author \in Agents \cup {Human}, NEW p \in 1 .. Len(work) + 1,
         Write(author, p)
  PROVE  Written(author)
  <1>1. /\ Len(by) \in Nat /\ DOMAIN by = 1 .. Len(by) /\ MaxLines \in Nat /\ MaxDeletes \in Nat
        /\ deletes \in 0 .. MaxDeletes /\ by \in Authors /\ Len(by) <= MaxLines
        /\ doubtful \subseteq DOMAIN by
    BY ShapeFacts DEF Shape
  <1>2. Version(work, Len(by)) /\ Len(work) \in Nat
    <2>1. Version(work, Len(by))
      BY DEF Versions
    <2> QED
      BY <1>1, <2>1, VersionFacts
  <1>3. ASSUME Adds(author)
        PROVE  /\ by' \in Authors /\ Len(by') = Len(by) + 1 /\ DOMAIN by' = 1 .. Len(by) + 1
               /\ (\A l \in DOMAIN by : by'[l] = by[l]) /\ by'[Len(by) + 1] = author
               /\ Len(by') <= MaxLines
               /\ doubtful \subseteq doubtful' /\ doubtful' \subseteq DOMAIN by'
               /\ \A b \in Agents : Open(b) /\ b # author => DOMAIN by' \subseteq doubtful' \cup DOMAIN by
    <2>1. Fresh <= MaxLines /\ by' = Append(by, author)
      BY <1>3 DEF Adds
    <2>2. /\ by' \in Authors /\ Len(by') = Len(by) + 1 /\ DOMAIN by' = 1 .. Len(by) + 1
          /\ (\A l \in DOMAIN by : by'[l] = by[l]) /\ by'[Len(by) + 1] = author
          /\ Len(by') <= MaxLines
      BY <1>1, <2>1, AppendFacts DEF Authors, Fresh
    <2>3. doubtful' = IF \E a \in Agents \ {author} : Open(a) THEN doubtful \cup {Len(by) + 1} ELSE doubtful
      BY <1>3 DEF Adds, Fresh
    <2>4. DOMAIN by' = (DOMAIN by) \cup {Len(by) + 1}
      BY <1>1, <2>2
    <2> QED
      BY <1>1, <2>2, <2>3, <2>4
  <1>4. CASE work' = InsertAt(work, p, Fresh) /\ Adds(author) /\ deletes' = deletes
    <2>1. /\ Version(work', Len(by) + 1) /\ Len(by) + 1 \in ToSet(work')
          /\ \A l \in ToSet(work') : l \in ToSet(work) \/ l = Len(by) + 1
          /\ Within(work', work, 1 .. Len(by))
      BY <1>1, <1>2, <1>4, InsertVersion DEF Fresh
    <2>2. ToSet(work') \subseteq 1 .. Len(by) + 1
      <3>1. Len(by) + 1 \in Nat
        BY <1>1
      <3> QED
        BY <2>1, <3>1, VersionFacts
    <2>3. /\ Len(by) + 1 \notin DOMAIN by
          /\ \A l \in DOMAIN by' : l \in DOMAIN by \/ l = Len(by) + 1
          /\ \A l \in DOMAIN by : l \in DOMAIN by'
          /\ Len(by) <= Len(by') /\ Len(by') \in Nat
      BY <1>1, <1>3, <1>4
    <2> QED
      BY <1>1, <1>3, <1>4, <2>1, <2>2, <2>3 DEF Written
  <1>5. CASE /\ p <= Len(work) /\ deletes < MaxDeletes
             /\ work' = [work EXCEPT ![p] = Fresh] /\ Adds(author) /\ deletes' = deletes + 1
    <2>1. /\ Version(work', Len(by) + 1) /\ Len(by) + 1 \in ToSet(work')
          /\ \A l \in ToSet(work') : l \in ToSet(work) \/ l = Len(by) + 1
          /\ Within(work', work, 1 .. Len(by))
      <3>1. p \in 1 .. Len(work)
        BY <1>2, <1>5
      <3> QED
        BY <1>1, <1>2, <1>5, <3>1, ReplaceVersion DEF Fresh
    <2>2. ToSet(work') \subseteq 1 .. Len(by) + 1
      <3>1. Len(by) + 1 \in Nat
        BY <1>1
      <3> QED
        BY <2>1, <3>1, VersionFacts
    <2>3. deletes' \in 0 .. MaxDeletes
      BY <1>1, <1>5
    <2>4. /\ Len(by) + 1 \notin DOMAIN by
          /\ \A l \in DOMAIN by' : l \in DOMAIN by \/ l = Len(by) + 1
          /\ \A l \in DOMAIN by : l \in DOMAIN by'
          /\ Len(by) <= Len(by') /\ Len(by') \in Nat
      BY <1>1, <1>3, <1>5
    <2> QED
      BY <1>1, <1>3, <1>5, <2>1, <2>2, <2>3, <2>4 DEF Written
  <1>6. CASE /\ p <= Len(work) /\ deletes < MaxDeletes /\ work' = RemoveAt(work, p) /\ deletes' = deletes + 1
             /\ by' = by /\ doubtful' = doubtful
    <2>1. /\ Version(work', Len(by)) /\ ToSet(work') \subseteq ToSet(work)
          /\ Within(work', work, 1 .. Len(by))
      <3>1. p \in 1 .. Len(work)
        BY <1>2, <1>6
      <3> QED
        BY <1>1, <1>2, <1>6, <3>1, RemoveVersion
    <2>2. ToSet(work') \subseteq 1 .. Len(by)
      BY <1>1, <2>1, VersionFacts
    <2>3. deletes' \in 0 .. MaxDeletes
      BY <1>1, <1>6
    <2> QED
      BY <1>1, <1>6, <2>1, <2>2, <2>3 DEF Written
  <1> QED
    BY <1>4, <1>5, <1>6 DEF Write, Deletes

\* Writing keeps what is known of the lines there were; a new line is in doubt
\* if somebody else's edit is open.
LEMMA WritingKeeps ==
  ASSUME Sound, NEW author \in Agents \cup {Human}, Written(author),
         author \in Agents => edit[author].at = "editing",
         modified' = Len(trees), UNCHANGED <<index, trees, edits, queue, log, notes, missed>>,
         edit' \in [Agents -> Hook],
         \A a \in Agents :
           /\ edit'[a].at = edit[a].at /\ edit'[a].base = edit[a].base /\ edit'[a].content = edit[a].content
           /\ edit'[a].lines = edit[a].lines \/ (a = author /\ edit'[a].lines \subseteq DOMAIN by')
  PROVE  Sound'
  <1> USE ShapeFacts
  <1>1. /\ Shape /\ Versions /\ Logs /\ Queued /\ Ordered /\ Convex /\ Hooks /\ Kept /\ Around
        /\ \A k \in DOMAIN notes : NoteRight(k)
    BY DEF Sound
  <1>2. /\ index' = index /\ trees' = trees /\ edits' = edits /\ queue' = queue /\ log' = log
        /\ notes' = notes /\ missed' = missed /\ modified' = Len(trees)
    OBVIOUS
  <1>3. /\ by' \in Authors /\ Len(by) <= Len(by') /\ Len(by) \in Nat /\ Len(by') \in Nat
        /\ \A l \in DOMAIN by : l \in DOMAIN by' /\ by'[l] = by[l]
        /\ \A l \in DOMAIN by' : l \in DOMAIN by \/ (by'[l] = author /\ l \in ToSet(work'))
        /\ \A l \in DOMAIN by : l \in ToSet(work') => l \in ToSet(work)
        /\ ToSet(work') \subseteq DOMAIN by'
        /\ doubtful \subseteq doubtful' /\ doubtful' \subseteq DOMAIN by'
        /\ \A b \in Agents : Open(b) /\ b # author => DOMAIN by' \subseteq doubtful' \cup DOMAIN by
    BY <1>1 DEF Written
  <1>4. Untouched
    BY <1>2, <1>3 DEF Untouched
  <1>5. Seen' = Seen /\ View' = View /\ Logs' /\ (\A k \in DOMAIN notes : NoteRight(k))'
    BY <1>4, UntouchedKeeps
  <1>6. /\ \A s : Version(s, Len(by)) => Version(s, Len(by'))
        /\ ToSet(work) \subseteq DOMAIN by /\ ToSet(index) \subseteq DOMAIN by
        /\ \A c \in DOMAIN trees : ToSet(trees[c]) \subseteq DOMAIN by
        /\ \A k \in DOMAIN queue : \A s \in DOMAIN queue[k].contents : ToSet(queue[k].contents[s]) \subseteq DOMAIN by
        /\ \A a \in Agents : ToSet(edit[a].content) \subseteq DOMAIN by
    BY <1>1, <1>3, VersionGrows, LineFacts
  <1>7. /\ \A k : Asks(k)' <=> Asks(k)
        /\ \A k : Live(k)' <=> Live(k)
        /\ \A k, l : Prior(k, l)' <=> Prior(k, l)
        /\ \A a \in Agents : Open(a)' <=> Open(a)
    BY <1>2, <1>5 DEF Asks, Live, Prior, Open
  <1>11. Shape'
    <2>1. Len(by') <= MaxLines /\ deletes' \in 0 .. MaxDeletes /\ missed \subseteq DOMAIN by'
      BY <1>1, <1>3 DEF Written, Shape
    <2> QED
      BY <1>1, <1>2, <1>3, <2>1 DEF Shape
  <1>12. Versions'
    <2>1. Version(work', Len(by'))
      BY DEF Written
    <2>2. \A k \in DOMAIN queue : queue[k].lines \subseteq DOMAIN by'
      BY <1>1, <1>3 DEF Versions
    <2>3. \A a \in Agents : edit'[a].lines \subseteq DOMAIN by'
      BY <1>1, <1>3 DEF Versions
    <2> QED
      BY <1>1, <1>2, <1>6, <2>1, <2>2, <2>3 DEF Versions
  <1>14. Queued'
    BY <1>1, <1>2, <1>5, <1>7 DEF Queued
  <1>15. Ordered'
    <2>1. SameOrder(index, work') /\ \A c \in DOMAIN trees : SameOrder(trees[c], work')
      BY <1>1, <1>6, OrderWithin DEF Ordered, Written
    <2> HIDE ShapeFacts
    <2> QED
      BY <1>1, <1>2, <1>7, <2>1 DEF Ordered
  <1>16. Convex'
    <2>1. \A c \in DOMAIN trees : \A l \in ToSet(trees[c]) : l \in ToSet(work') => l \in ToSet(work)
      BY <1>3, <1>6
    <2> HIDE ShapeFacts
    <2> QED
      BY <1>1, <1>2, <1>7, <2>1 DEF Convex
  <1>17. Hooks'
    <2>1. ASSUME NEW a \in Agents, NEW b \in Agents, a # b, Open(a), Open(b)
          PROVE  DOMAIN by' \subseteq doubtful'
      BY <1>1, <1>3, <2>1 DEF Hooks
    <2>2. ASSUME NEW a \in Agents, edit[a].at \in {"idle", "pre_head", "pre_read"}
          PROVE  edit'[a].lines = {}
      BY <1>1, <2>2 DEF Hooks
    <2>3. ASSUME NEW a \in Agents, edit[a].at \in {"pre_read", "post_read"}, NEW l \in ToSet(work')
          PROVE  l \in ToSet(edit[a].content) \/ l \in doubtful'
      <3>1. Open(a) /\ a # author
        BY <2>3 DEF Open
      <3>2. CASE l \in DOMAIN by
        BY <1>1, <1>3, <2>3, <3>2 DEF Hooks
      <3> QED
        BY <1>3, <3>1, <3>2
    <2> QED
      BY <1>7, <2>1, <2>2, <2>3 DEF Hooks
  <1>18. Kept'
    <2> SUFFICES ASSUME NEW k \in DOMAIN queue, Asks(k), Live(k), queue[k].author # Human,
                        NEW l \in ToSet(queue[k].contents[1])
                 PROVE  by'[l] = queue[k].author \/ l \in doubtful' \/ l \in ToSet(trees[queue[k].base]) \/ Prior(k, l)
      BY <1>2, <1>7 DEF Kept
    <2>1. l \in DOMAIN by
      BY <1>1, <1>6, QueueFacts
    <2> QED
      BY <1>1, <1>3, <2>1 DEF Kept
  <1>19. Around'
    <2> SUFFICES ASSUME NEW a \in Agents, Open(a)
                 PROVE  /\ \A l \in ToSet(work') : Other(a, l)' =>
                             IF edit[a].at \in {"pre_head", "pre_read"} THEN edit[a].base = HEAD
                             ELSE Prior(Len(queue) + 1, l)
                        /\ edit[a].at = "post_read" /\ edit[a].base = HEAD =>
                             \A l \in ToSet(edit[a].content) : Other(a, l)' => Prior(Len(queue) + 1, l)
      BY <1>2, <1>7 DEF Around, HEAD
    <2>1. \A l \in DOMAIN by : Other(a, l)' => Other(a, l)
      BY <1>2, <1>3 DEF Other, HEAD
    <2>2. \A l \in DOMAIN by' : l \in DOMAIN by \/ ~Other(a, l)'
      BY <1>3 DEF Other
    <2>3. ASSUME NEW l \in ToSet(work'), Other(a, l)'
          PROVE  IF edit[a].at \in {"pre_head", "pre_read"} THEN edit[a].base = HEAD ELSE Prior(Len(queue) + 1, l)
      <3>1. l \in ToSet(work) /\ Other(a, l)
        BY <1>3, <2>1, <2>2, <2>3
      <3> QED
        BY <1>1, <3>1 DEF Around
    <2>4. ASSUME edit[a].at = "post_read", edit[a].base = HEAD, NEW l \in ToSet(edit[a].content), Other(a, l)'
          PROVE  Prior(Len(queue) + 1, l)
      <3>1. Other(a, l)
        BY <1>6, <2>1, <2>4
      <3> QED
        BY <1>1, <2>4, <3>1 DEF Around
    <2> QED
      BY <2>3, <2>4
  <1> QED
    BY <1>5, <1>11, <1>12, <1>14, <1>15, <1>16, <1>17, <1>18, <1>19 DEF Sound

LEMMA HumanWritesIsSound ==
  ASSUME Sound, HumanWrites
  PROVE  Sound'
  <1>1. Shape /\ Versions
    BY DEF Sound
  <1>2. PICK p \in 1 .. Len(work) + 1 : Write(Human, p)
    BY DEF HumanWrites
  <1>3. /\ UNCHANGED <<index, trees, edits, queue, log, notes, missed>> /\ edit' = edit
        /\ modified' = Len(trees)
    BY <1>2 DEF HumanWrites, hooks, Write
  <1>4. Written(Human)
    BY <1>1, <1>2, WriteStep
  <1>5. edit' \in [Agents -> Hook] /\ Human \notin Agents
    BY <1>1, <1>3, ShapeFacts DEF Shape
  <1> QED
    BY <1>3, <1>4, <1>5, WritingKeeps

LEMMA AgentWritesIsSound ==
  ASSUME Sound, NEW a \in Agents, AgentWrites(a)
  PROVE  Sound'
  <1>1. Shape /\ Versions
    BY DEF Sound
  <1>2. PICK p \in 1 .. Len(work) + 1 : Write(a, p)
    BY DEF AgentWrites
  <1>3. /\ UNCHANGED <<index, trees, edits, queue, log, notes, missed>>
        /\ modified' = Len(trees) /\ edit[a].at = "editing"
    BY <1>2 DEF AgentWrites, Write
  <1>4. Written(a)
    BY <1>1, <1>2, WriteStep
  <1> DEFINE lines == edit[a].lines \cup (DOMAIN by' \ DOMAIN by)
  <1>5. edit' = [edit EXCEPT ![a].lines = lines]
    BY DEF AgentWrites
  <1>6. lines \subseteq DOMAIN by' /\ DOMAIN by' \subseteq Nat
    BY <1>1, <1>4, ShapeFacts DEF Written, Versions
  <1> HIDE DEF lines
  <1>7. edit \in [Agents -> Hook]
    BY <1>1 DEF Shape
  <1>8. [edit[a] EXCEPT !.lines = lines] \in Hook
    BY <1>6, <1>7 DEF Hook
  <1>9. /\ edit' \in [Agents -> Hook]
        /\ \A b \in Agents :
             /\ edit'[b].at = edit[b].at /\ edit'[b].base = edit[b].base /\ edit'[b].content = edit[b].content
             /\ edit'[b].lines = edit[b].lines \/ (b = a /\ edit'[b].lines \subseteq DOMAIN by')
    <2>1. edit' \in [Agents -> Hook] /\ \A b \in Agents : edit'[b] = IF b = a THEN [edit[a] EXCEPT !.lines = lines] ELSE edit[b]
      BY <1>5, <1>7, <1>8
    <2>2. /\ edit'[a].at = edit[a].at /\ edit'[a].base = edit[a].base /\ edit'[a].content = edit[a].content
          /\ edit'[a].lines = lines
      <3>1. edit[a] \in Hook
        BY <1>7
      <3> QED
        BY <2>1, <3>1 DEF Hook
    <2> QED
      BY <1>6, <2>1, <2>2
  <1> QED
    BY <1>3, <1>4, <1>9, WritingKeeps

(* Hooks *)

\* A step that only moves one agent on at its hooks.
LEMMA HookKeeps ==
  ASSUME Sound, UNCHANGED <<files, queue, log, notes, missed>>,
         NEW a \in Agents, NEW e \in Hook, edit' = [edit EXCEPT ![a] = e],
         e.base \in DOMAIN trees, Version(e.content, Len(by)), e.lines \subseteq DOMAIN by,
         edits' \in 0 .. MaxEdits, doubtful \subseteq doubtful', doubtful' \subseteq DOMAIN by,
         e.at \in {"idle", "pre_head", "pre_read"} => e.lines = {},
         e.at \in {"pre_read", "post_read"} => \A l \in ToSet(work) : l \in ToSet(e.content) \/ l \in doubtful',
         e.at # "idle",
         \A b \in Agents : b # a /\ Open(b) => Open(a) \/ DOMAIN by \subseteq doubtful',
         \A l \in ToSet(work) : Other(a, l)' =>
           IF e.at \in {"pre_head", "pre_read"} THEN e.base = HEAD ELSE Prior(Len(queue) + 1, l),
         e.at = "post_read" /\ e.base = HEAD => \A l \in ToSet(e.content) : Other(a, l)' => Prior(Len(queue) + 1, l)
  PROVE  Sound'
  <1> USE ShapeFacts
  <1>1. /\ Shape /\ Versions /\ Logs /\ Queued /\ Ordered /\ Convex /\ Hooks /\ Kept /\ Around
        /\ \A k \in DOMAIN notes : NoteRight(k)
    BY DEF Sound
  <1>2. /\ work' = work /\ index' = index /\ trees' = trees /\ modified' = modified /\ deletes' = deletes
        /\ by' = by /\ queue' = queue /\ log' = log /\ notes' = notes /\ missed' = missed
    BY DEF files
  <1>3. Untouched
    BY <1>1, <1>2 DEF Untouched, Shape
  <1>4. Seen' = Seen /\ View' = View /\ Logs' /\ (\A k \in DOMAIN notes : NoteRight(k))'
    BY <1>3, UntouchedKeeps
  <1>5. /\ edit' \in [Agents -> Hook] /\ edit'[a] = e
        /\ \A b \in Agents : b # a => edit'[b] = edit[b]
    BY <1>1 DEF Shape
  <1>6. /\ \A k : Asks(k)' <=> Asks(k)
        /\ \A k : Live(k)' <=> Live(k)
        /\ \A k, l : Prior(k, l)' <=> Prior(k, l)
    BY <1>2, <1>4 DEF Asks, Live, Prior
  <1>7. Open(a)' /\ \A b \in Agents : b # a => (Open(b)' <=> Open(b))
    BY <1>5 DEF Open
  <1>11. Shape'
    BY <1>1, <1>2, <1>5 DEF Shape
  <1>12. Versions'
    <2>1. \A b \in Agents : Version(edit'[b].content, Len(by)) /\ edit'[b].lines \subseteq DOMAIN by
      BY <1>1, <1>5 DEF Versions
    <2> QED
      BY <1>1, <1>2, <2>1 DEF Versions
  <1>14. Queued'
    <2>1. \A b \in Agents : edit'[b].base \in DOMAIN trees
      BY <1>1, <1>5 DEF Queued
    <2> HIDE ShapeFacts
    <2> QED
      BY <1>1, <1>2, <1>4, <1>6, <2>1 DEF Queued
  <1>15. Ordered' /\ Convex'
    <2> HIDE ShapeFacts
    <2> QED
      BY <1>1, <1>2, <1>6 DEF Ordered, Convex
  <1>17. Hooks'
    <2>1. ASSUME NEW b \in Agents, NEW c \in Agents, b # c, Open(b)', Open(c)'
          PROVE  DOMAIN by \subseteq doubtful'
      <3>1. CASE b # a /\ c # a
        BY <1>1, <1>7, <2>1, <3>1 DEF Hooks
      <3>2. CASE b = a
        BY <1>1, <1>7, <2>1, <3>2 DEF Hooks
      <3>3. CASE c = a
        BY <1>1, <1>7, <2>1, <3>3 DEF Hooks
      <3> QED
        BY <3>1, <3>2, <3>3
    <2>2. \A b \in Agents : edit'[b].at \in {"idle", "pre_head", "pre_read"} => edit'[b].lines = {}
      BY <1>1, <1>5 DEF Hooks
    <2>3. \A b \in Agents : edit'[b].at \in {"pre_read", "post_read"} =>
            \A l \in ToSet(work) : l \in ToSet(edit'[b].content) \/ l \in doubtful'
      BY <1>1, <1>5 DEF Hooks
    <2> QED
      BY <1>2, <2>1, <2>2, <2>3 DEF Hooks
  <1>18. Kept'
    <2> HIDE ShapeFacts
    <2> QED
      BY <1>1, <1>2, <1>6 DEF Kept
  <1>19. Around'
    <2> SUFFICES ASSUME NEW b \in Agents, Open(b)'
                 PROVE  /\ \A l \in ToSet(work) : Other(b, l)' =>
                             IF edit'[b].at \in {"pre_head", "pre_read"} THEN edit'[b].base = HEAD
                             ELSE Prior(Len(queue) + 1, l)
                        /\ edit'[b].at = "post_read" /\ edit'[b].base = HEAD =>
                             \A l \in ToSet(edit'[b].content) : Other(b, l)' => Prior(Len(queue) + 1, l)
      BY <1>2, <1>6 DEF Around, HEAD
    <2>1. CASE b = a
      BY <1>5, <2>1
    <2>2. CASE b # a
      <3>1. \A l : Other(b, l)' => Other(b, l)
        BY <1>2 DEF Other, HEAD
      <3> QED
        BY <1>1, <1>5, <1>7, <2>2, <3>1 DEF Around
    <2> QED
      BY <2>1, <2>2
  <1> QED
    BY <1>4, <1>11, <1>12, <1>14, <1>15, <1>17, <1>18, <1>19 DEF Sound

LEMMA ReadHeadIsSound ==
  ASSUME Sound, NEW a \in Agents, ReadHead(a)
  PROVE  Sound'
  <1> USE ShapeFacts
  <1>1. Shape /\ Versions /\ Queued /\ Hooks /\ Around
    BY DEF Sound
  <1>2. /\ UNCHANGED <<files, queue, log, notes, missed>> /\ trees' = trees /\ by' = by
    BY DEF ReadHead, files
  <1>3. /\ edit \in [Agents -> Hook] /\ edit[a] \in Hook /\ doubtful \subseteq DOMAIN by
        /\ edits \in 0 .. MaxEdits /\ Len(trees) \in DOMAIN trees /\ Len(trees) \in Nat
        /\ Version(edit[a].content, Len(by)) /\ edit[a].lines \subseteq DOMAIN by
    <2>1. edit \in [Agents -> Hook] /\ doubtful \subseteq DOMAIN by /\ edits \in 0 .. MaxEdits
      BY <1>1 DEF Shape
    <2>2. Version(edit[a].content, Len(by)) /\ edit[a].lines \subseteq DOMAIN by
      BY <1>1 DEF Versions
    <2>3. Seen \in DOMAIN trees
      BY <1>1 DEF Queued
    <2>4. Len(trees) \in DOMAIN trees /\ Len(trees) \in Nat /\ edit[a] \in Hook
      BY <1>1, <2>3
    <2> QED
      BY <2>1, <2>2, <2>4
  <1>4. HEAD' = HEAD /\ HEAD = Len(trees) /\ HEAD \in Nat /\ HEAD \in DOMAIN trees
    BY <1>2, <1>3 DEF HEAD
  <1>5. CASE /\ edit[a].at = "idle" /\ edits < MaxEdits /\ edits' = edits + 1
             /\ edit' = [edit EXCEPT ![a] = [Idle EXCEPT !.at = "pre_head", !.base = HEAD]]
             /\ doubtful' = IF \E b \in Agents : Open(b) THEN DOMAIN by ELSE doubtful
    <2> DEFINE e == [Idle EXCEPT !.at = "pre_head", !.base = HEAD]
    <2>1. /\ e \in Hook /\ e.at = "pre_head" /\ e.base = HEAD /\ e.content = <<>> /\ e.lines = {}
      <3> HIDE ShapeFacts
      <3>1. Idle \in Hook /\ Idle.content = <<>> /\ Idle.lines = {}
        BY DEF Idle, Hook
      <3> QED
        BY <1>4, <3>1 DEF Hook
    <2>2. edit' = [edit EXCEPT ![a] = e]
      BY <1>5
    <2> HIDE DEF e
    <2>3. Version(<<>>, Len(by))
      BY <1>1 DEF Version, Once
    <2>4. edits' \in 0 .. MaxEdits /\ doubtful \subseteq doubtful' /\ doubtful' \subseteq DOMAIN by
      BY <1>1, <1>3, <1>5
    <2>5. \A b \in Agents : b # a /\ Open(b) => Open(a) \/ DOMAIN by \subseteq doubtful'
      BY <1>5
    <2> QED
      BY <1>2, <1>3, <1>4, <2>1, <2>2, <2>3, <2>4, <2>5, HookKeeps
  <1>6. CASE /\ edit[a].at = "editing" /\ edit' = [edit EXCEPT ![a].at = "post_head", ![a].base = HEAD]
             /\ UNCHANGED <<edits, doubtful>>
    <2> DEFINE e == [edit[a] EXCEPT !.at = "post_head", !.base = HEAD]
    <2>1. /\ e \in Hook /\ e.at = "post_head" /\ e.base = HEAD /\ e.content = edit[a].content
          /\ e.lines = edit[a].lines
      BY <1>3, <1>4 DEF Hook
    <2>2. edit' = [edit EXCEPT ![a] = e]
      BY <1>3, <1>6
    <2> HIDE DEF e
    <2>3. Open(a)
      BY <1>6 DEF Open
    <2>4. \A l : Other(a, l)' <=> Other(a, l)
      BY <1>2, <1>4, <1>6 DEF Other
    <2>5. \A l \in ToSet(work) : Other(a, l) => Prior(Len(queue) + 1, l)
      BY <1>1, <1>6, <2>3 DEF Around
    <2>6. /\ edits' \in 0 .. MaxEdits /\ doubtful \subseteq doubtful' /\ doubtful' \subseteq DOMAIN by
          /\ e.base \in DOMAIN trees /\ Version(e.content, Len(by)) /\ e.lines \subseteq DOMAIN by
      BY <1>3, <1>4, <1>6, <2>1
    <2> HIDE ShapeFacts
    <2> QED
      BY <1>2, <2>1, <2>2, <2>3, <2>4, <2>5, <2>6, HookKeeps
  <1> QED
    BY <1>5, <1>6 DEF ReadHead

LEMMA ReadFileIsSound ==
  ASSUME Sound, NEW a \in Agents, ReadFile(a)
  PROVE  Sound'
  <1> USE ShapeFacts
  <1>1. Shape /\ Versions /\ Queued /\ Hooks /\ Around
    BY DEF Sound
  <1>2. /\ UNCHANGED <<files, queue, log, notes, missed>> /\ trees' = trees /\ by' = by
        /\ edits' = edits /\ doubtful' = doubtful
    BY DEF ReadFile, files
  <1>3. /\ edit \in [Agents -> Hook] /\ edit[a] \in Hook /\ doubtful \subseteq DOMAIN by
        /\ edits \in 0 .. MaxEdits /\ edit[a].base \in DOMAIN trees
        /\ Version(work, Len(by)) /\ edit[a].lines \subseteq DOMAIN by /\ work \in Seq(Nat)
    BY <1>1, LineFacts DEF Shape, Versions, Queued
  <1>4. PICK at : /\ \/ edit[a].at = "pre_head" /\ at = "pre_read"
                     \/ edit[a].at = "post_head" /\ at = "post_read"
                  /\ edit' = [edit EXCEPT ![a].at = at, ![a].content = work]
    BY DEF ReadFile
  <1> DEFINE e == [edit[a] EXCEPT !.at = at, !.content = work]
  <1>5. /\ e \in Hook /\ e.at = at /\ e.base = edit[a].base /\ e.content = work /\ e.lines = edit[a].lines
    BY <1>3, <1>4 DEF Hook
  <1>6. edit' = [edit EXCEPT ![a] = e]
    BY <1>3, <1>4
  <1> HIDE DEF e
  <1>7. Open(a)
    BY <1>4 DEF Open
  <1>8. \A l : Other(a, l)' <=> Other(a, l)
    BY <1>2 DEF Other, HEAD
  <1>9. \A l \in ToSet(work) : Other(a, l) =>
          IF at = "pre_read" THEN edit[a].base = HEAD ELSE Prior(Len(queue) + 1, l)
    BY <1>1, <1>4, <1>7 DEF Around
  <1>10. at = "pre_read" => edit[a].lines = {}
    BY <1>1, <1>4 DEF Hooks
  <1> QED
    BY <1>2, <1>3, <1>4, <1>5, <1>6, <1>7, <1>8, <1>9, <1>10, HookKeeps


\* A step that puts a checkpoint request of an agent's hook into the queue.
LEMMA RequestKeeps ==
  ASSUME Sound, UNCHANGED <<files, edits, log, notes, doubtful, missed>>,
         NEW a \in Agents, NEW e \in Hook, edit' = [edit EXCEPT ![a] = e],
         e.base = 1, e.content = <<>>, e.lines = {},
         NEW r \in Element, queue' = Append(queue, r),
         r.is = "request", r.base = edit[a].base, r.contents = <<edit[a].content>>, r.lines = edit[a].lines,
         \/ edit[a].at = "pre_read" /\ e.at = "editing" /\ r.author = Human
         \/ edit[a].at = "post_read" /\ e.at = "idle" /\ r.author = a
  PROVE  Sound'
  <1> USE ShapeFacts
  <1>1. /\ Shape /\ Versions /\ Logs /\ Queued /\ Ordered /\ Convex /\ Hooks /\ Kept /\ Around
        /\ \A k \in DOMAIN notes : NoteRight(k)
    BY DEF Sound
  <1>2. /\ work' = work /\ index' = index /\ trees' = trees /\ modified' = modified /\ deletes' = deletes
        /\ by' = by /\ log' = log /\ notes' = notes /\ doubtful' = doubtful /\ missed' = missed /\ edits' = edits
    BY DEF files
  <1>3. Untouched
    BY <1>1, <1>2 DEF Untouched, Shape
  <1>4. Seen' = Seen /\ View' = View /\ Logs' /\ (\A k \in DOMAIN notes : NoteRight(k))'
    BY <1>3, UntouchedKeeps
  <1>5. /\ edit' \in [Agents -> Hook] /\ edit'[a] = e
        /\ \A b \in Agents : b # a => edit'[b] = edit[b]
    BY <1>1 DEF Shape
  <1>0. PICK n : n = Len(queue)
    OBVIOUS
  <1>6. /\ n \in Nat /\ DOMAIN queue = 1 .. n /\ queue' \in Seq(Element) /\ DOMAIN queue' = 1 .. n + 1
        /\ (\A k \in DOMAIN queue : queue'[k] = queue[k]) /\ queue'[n + 1] = r /\ Len(queue') = n + 1
    <2>1. queue \in Seq(Element)
      BY <1>1
    <2> HIDE ShapeFacts
    <2> QED
      BY <1>0, <2>1, AppendFacts
  <1>7. \A k \in DOMAIN queue' : k \in DOMAIN queue \/ k = n + 1
    BY <1>6
  <1>8. Seen \in DOMAIN trees /\ \A b \in Agents : edit[b].base \in DOMAIN trees
    BY <1>1 DEF Queued
  <1>9. /\ \A k \in DOMAIN queue : (Asks(k)' <=> Asks(k)) /\ (Live(k)' <=> Live(k))
        /\ Asks(n + 1)'
        /\ \A k \in DOMAIN queue' : \A l : Prior(k, l)' <=> Prior(k, l)
    <2>1. (\A k \in DOMAIN queue : Asks(k)' <=> Asks(k)) /\ Asks(n + 1)'
      <3> HIDE ShapeFacts
      <3>1. \A k : Asks(k)' <=> queue'[k].is = "request"
        BY DEF Asks
      <3>2. queue'[n + 1].is = "request"
        BY <1>6
      <3> QED
        BY <1>6, <3>1, <3>2 DEF Asks
    <2>2. ASSUME NEW k \in DOMAIN queue
          PROVE  Live(k)' <=> Live(k)
      <3>1. \A j \in DOMAIN queue' : j < k => j \in DOMAIN queue
        BY <1>6
      <3>2. \A j \in DOMAIN queue : j \in DOMAIN queue'
        BY <1>6
      <3> HIDE ShapeFacts
      <3> QED
        BY <1>4, <1>6, <2>1, <3>1, <3>2 DEF Live
    <2>3. ASSUME NEW k \in DOMAIN queue', NEW l
          PROVE  Prior(k, l)' <=> Prior(k, l)
      <3>1. k # 1 => k - 1 \in DOMAIN queue
        BY <1>6
      <3> HIDE ShapeFacts
      <3> QED
        BY <1>4, <1>6, <2>1, <2>2, <3>1 DEF Prior
    <2> QED
      BY <2>1, <2>2, <2>3
  <1>10. /\ \A k \in DOMAIN queue : ~Asks(k) => queue[k].base < Len(trees)
         /\ Live(n + 1)' <=> edit[a].base = HEAD
    <2>1. ASSUME NEW k \in DOMAIN queue, ~Asks(k)
          PROVE  queue[k].base < Len(trees)
      <3>1. queue[k].base + 1 \in DOMAIN trees
        BY <1>1, <2>1 DEF Queued
      <3> QED
        BY <1>1, <3>1
    <2>2. Live(n + 1)' <=> Seen <= edit[a].base /\ \A j \in DOMAIN queue : ~Asks(j) => queue[j].base < edit[a].base
      <3>1. (\A j \in DOMAIN queue : j < n + 1 /\ j \in DOMAIN queue') /\ ~(n + 1 < n + 1)
        BY <1>6
      <3>2. queue'[n + 1].base = edit[a].base
        BY <1>6
      <3>3. \A j \in DOMAIN queue' : j < n + 1 <=> j \in DOMAIN queue
        BY <1>6
      <3>4. \A j \in DOMAIN queue : j \in DOMAIN queue' /\ queue'[j].base = queue[j].base /\ (Asks(j)' <=> Asks(j))
        BY <1>6, <1>9
      <3> HIDE ShapeFacts
      <3> QED
        BY <1>4, <3>2, <3>3, <3>4 DEF Live
    <2>3. CASE edit[a].base = HEAD
      <3>1. Seen <= HEAD
        BY <1>1, <1>8 DEF HEAD
      <3> QED
        BY <2>1, <2>2, <2>3, <3>1 DEF HEAD
    <2>4. CASE edit[a].base # HEAD
      <3>1. edit[a].base \in Nat /\ edit[a].base < Len(trees)
        BY <1>1, <1>8, <2>4 DEF HEAD
      <3>2. ~(Seen <= edit[a].base) \/ \E j \in DOMAIN queue : ~Asks(j) /\ queue[j].base = edit[a].base
        BY <1>1, <1>8, <3>1 DEF Queued
      <3>3. ASSUME NEW j \in DOMAIN queue, queue[j].base = edit[a].base
            PROVE  ~(queue[j].base < edit[a].base)
        BY <3>1, <3>3
      <3>4. ~Live(n + 1)'
        <4> HIDE ShapeFacts
        <4> QED
          BY <2>2, <3>2, <3>3
      <3> HIDE ShapeFacts
      <3> QED
        BY <2>1, <2>4, <3>4
    <2> QED
      BY <2>1, <2>3, <2>4
  <1>11. Shape'
    BY <1>1, <1>2, <1>5, <1>6 DEF Shape
  <1>12. Versions'
    <2>1. Version(edit[a].content, Len(by)) /\ edit[a].lines \subseteq DOMAIN by
      BY <1>1 DEF Versions
    <2>2. \A b \in Agents : Version(edit'[b].content, Len(by)) /\ edit'[b].lines \subseteq DOMAIN by
      <3>1. Version(<<>>, Len(by))
        BY <1>1 DEF Version, Once
      <3> QED
        BY <1>1, <1>5, <3>1 DEF Versions
    <2>3. ASSUME NEW k \in DOMAIN queue'
          PROVE  /\ \A s \in DOMAIN queue'[k].contents : Version(queue'[k].contents[s], Len(by))
                 /\ queue'[k].lines \subseteq DOMAIN by
      <3>1. CASE k \in DOMAIN queue
        BY <1>1, <1>6, <3>1 DEF Versions
      <3>2. CASE k = n + 1
        <4>1. r.contents = <<edit[a].content>> /\ DOMAIN <<edit[a].content>> = {1} /\ <<edit[a].content>>[1] = edit[a].content
          OBVIOUS
        <4> QED
          BY <1>6, <2>1, <3>2, <4>1
      <3> QED
        BY <1>7, <3>1, <3>2
    <2> QED
      BY <1>1, <1>2, <2>2, <2>3 DEF Versions
  <1>13. r.contents[1] = edit[a].content /\ Len(r.contents) = 1 /\ 1 \in DOMAIN trees
    BY <1>1, <1>8
  <1>14. Queued'
    <2>1. \A b \in Agents : edit'[b].base \in DOMAIN trees
      BY <1>5, <1>8, <1>13
    <2>2. ASSUME NEW k \in DOMAIN queue'
          PROVE  /\ queue'[k].base \in DOMAIN trees
                 /\ Asks(k)' => Len(queue'[k].contents) = 1
                 /\ queue'[k].is \in {"unseen", "checked"} => queue'[k].contents = <<>>
                 /\ queue'[k].is = "commit" => Len(queue'[k].contents) <= 1
                 /\ ~Asks(k)' => Seen <= queue'[k].base /\ queue'[k].base + 1 \in DOMAIN trees
      <3>1. CASE k \in DOMAIN queue
        <4> HIDE ShapeFacts
        <4> QED
          BY <1>1, <1>6, <1>9, <3>1 DEF Queued
      <3>2. CASE k = n + 1
        <4>1. queue'[k] = r /\ Asks(k)'
          BY <1>6, <1>9, <3>2
        <4> HIDE ShapeFacts
        <4> QED
          BY <1>8, <1>13, <4>1
      <3> QED
        BY <1>7, <3>1, <3>2
    <2>3. ASSUME NEW i \in DOMAIN queue', NEW j \in DOMAIN queue', i < j, ~Asks(j)'
          PROVE  /\ queue'[i].base <= queue'[j].base
                 /\ ~Asks(i)' => queue'[i].base < queue'[j].base
      <3>1. j # n + 1
        <4> HIDE ShapeFacts
        <4> QED
          BY <1>9, <2>3
      <3>2. j \in DOMAIN queue /\ i \in DOMAIN queue
        BY <1>6, <2>3, <3>1
      <3> HIDE ShapeFacts
      <3> QED
        BY <1>1, <1>6, <1>9, <2>3, <3>2 DEF Queued
    <2>4. ASSUME NEW c \in DOMAIN trees, Seen <= c, c < Len(trees)
          PROVE  \E j \in DOMAIN queue' : ~Asks(j)' /\ queue'[j].base = c
      <3>1. PICK j \in DOMAIN queue : ~Asks(j) /\ queue[j].base = c
        BY <1>1, <2>4 DEF Queued
      <3>2. j \in DOMAIN queue'
        BY <1>6
      <3> QED
        BY <1>6, <1>9, <3>1, <3>2
    <2> HIDE ShapeFacts
    <2> QED
      BY <1>2, <1>4, <1>8, <2>1, <2>2, <2>3, <2>4 DEF Queued
  <1>15. Ordered' /\ Convex'
    <2> HIDE ShapeFacts
    <2>1. \A k \in DOMAIN queue' : ~Asks(k)' => k \in DOMAIN queue /\ queue'[k] = queue[k] /\ ~Asks(k)
      BY <1>6, <1>7, <1>9
    <2>2. Ordered'
      BY <1>1, <1>2, <2>1 DEF Ordered
    <2>3. Convex'
      BY <1>1, <1>2, <2>1 DEF Convex
    <2> QED
      BY <2>2, <2>3
  <1>16. Open(a) /\ \A b \in Agents : b # a => (Open(b)' <=> Open(b))
    BY <1>5 DEF Open
  <1>17. Hooks'
    <2>1. \A b, c \in Agents : b # c /\ Open(b)' /\ Open(c)' => DOMAIN by \subseteq doubtful
      <3> HIDE ShapeFacts
      <3> QED
        BY <1>1, <1>16 DEF Hooks
    <2>2. \A b \in Agents : edit'[b].at \in {"idle", "pre_head", "pre_read"} => edit'[b].lines = {}
      BY <1>1, <1>5 DEF Hooks
    <2>3. \A b \in Agents : edit'[b].at \in {"pre_read", "post_read"} =>
            \A l \in ToSet(work) : l \in ToSet(edit'[b].content) \/ l \in doubtful
      BY <1>1, <1>5 DEF Hooks
    <2> QED
      BY <1>2, <2>1, <2>2, <2>3 DEF Hooks
  <1>18. Kept'
    <2> SUFFICES ASSUME NEW k \in DOMAIN queue', Asks(k)', Live(k)', queue'[k].author # Human,
                        NEW l \in ToSet(queue'[k].contents[1])
                 PROVE  by[l] = queue'[k].author \/ l \in doubtful \/ l \in ToSet(trees[queue'[k].base]) \/ Prior(k, l)'
      BY <1>2 DEF Kept
    <2>1. CASE k \in DOMAIN queue
      <3> HIDE ShapeFacts
      <3> QED
        BY <1>1, <1>6, <1>9, <2>1 DEF Kept
    <2>2. CASE k = n + 1
      <3>1. edit[a].at = "post_read" /\ r.author = a /\ edit[a].base = HEAD /\ l \in ToSet(edit[a].content)
        <4> HIDE ShapeFacts
        <4>1. queue'[k] = r
          BY <1>6, <2>2
        <4> QED
          BY <1>10, <1>13, <2>2, <4>1
      <3>2. Other(a, l) => Prior(n + 1, l)
        BY <1>0, <1>1, <1>16, <3>1 DEF Around
      <3>3. by[l] = a \/ l \in doubtful \/ l \in ToSet(trees[HEAD]) \/ Prior(n + 1, l)
        BY <3>2 DEF Other
      <3> HIDE ShapeFacts
      <3> QED
        BY <1>6, <1>9, <2>2, <3>1, <3>3
    <2> QED
      BY <1>7, <2>1, <2>2
  <1>19. Around'
    <2> SUFFICES ASSUME NEW b \in Agents, Open(b)'
                 PROVE  /\ \A l \in ToSet(work) : Other(b, l)' =>
                             IF edit'[b].at \in {"pre_head", "pre_read"} THEN edit'[b].base = HEAD
                             ELSE Prior(n + 2, l)'
                        /\ edit'[b].at = "post_read" /\ edit'[b].base = HEAD =>
                             \A l \in ToSet(edit'[b].content) : Other(b, l)' => Prior(n + 2, l)'
      <3>1. (Len(queue) + 1)' = n + 2
        BY <1>6
      <3>2. HEAD' = HEAD
        BY <1>2 DEF HEAD
      <3> HIDE ShapeFacts
      <3> QED
        BY <1>2, <3>1, <3>2 DEF Around
    <2>1. \A l : Other(b, l)' <=> Other(b, l)
      BY <1>2 DEF Other, HEAD
    <2>2. CASE b = a
      <3>1. e.at = "editing" /\ edit[a].at = "pre_read"
        BY <1>5, <2>2 DEF Open
      <3>2. ASSUME NEW l \in ToSet(work), Other(a, l)
            PROVE  Prior(n + 2, l)'
        <4>1. edit[a].base = HEAD
          BY <1>1, <1>16, <3>1, <3>2 DEF Around
        <4>2. l \in ToSet(edit[a].content)
          BY <1>1, <3>1, <3>2 DEF Hooks, Other
        <4>3. n + 2 # 1 /\ (n + 2) - 1 = n + 1
          BY <1>6
        <4> HIDE ShapeFacts
        <4>4. Live(n + 1)' /\ Asks(n + 1)' /\ queue'[n + 1] = r
          BY <1>6, <1>9, <1>10, <4>1
        <4> QED
          BY <1>13, <4>2, <4>3, <4>4 DEF Prior
      <3> QED
        BY <1>5, <2>1, <2>2, <3>1, <3>2
    <2>3. CASE b # a
      <3>1. DOMAIN by \subseteq doubtful
        BY <1>1, <1>16, <2>3 DEF Hooks
      <3>2. ToSet(work) \subseteq DOMAIN by /\ ToSet(edit[b].content) \subseteq DOMAIN by
        BY <1>1, LineFacts
      <3> QED
        BY <1>5, <2>1, <2>3, <3>1, <3>2 DEF Other
    <2> QED
      BY <2>2, <2>3
  <1> QED
    BY <1>4, <1>11, <1>12, <1>14, <1>15, <1>17, <1>18, <1>19 DEF Sound

LEMMA RequestIsSound ==
  ASSUME Sound, NEW a \in Agents, Request(a)
  PROVE  Sound'
  <1>1. Shape /\ edit[a] \in Hook /\ edit \in [Agents -> Hook] /\ edit[a].base \in Nat
    BY ShapeFacts DEF Sound, Shape
  <1>2. UNCHANGED <<files, edits, log, notes, doubtful, missed>>
    BY DEF Request
  <1>3. Idle \in Hook /\ Idle.at = "idle" /\ Idle.base = 1 /\ Idle.content = <<>> /\ Idle.lines = {}
    BY DEF Idle, Hook
  <1>4. ASSUME NEW author \in {Human, a}
        PROVE  /\ Asked(a, author) = Append(queue, [is |-> "request", author |-> author, base |-> edit[a].base,
                                        contents |-> <<edit[a].content>>, lines |-> edit[a].lines])
               /\ [is |-> "request", author |-> author, base |-> edit[a].base,
                   contents |-> <<edit[a].content>>, lines |-> edit[a].lines] \in Element
    <2>1. edit[a].content \in Seq(Nat) /\ edit[a].lines \in SUBSET Nat
      BY <1>1 DEF Hook
    <2>2. <<edit[a].content>> \in Seq(Seq(Nat))
      BY <2>1
    <2> QED
      BY <1>1, <2>1, <2>2 DEF Asked, Element
  <1>5. CASE /\ edit[a].at = "pre_read" /\ queue' = Asked(a, Human)
             /\ edit' = [edit EXCEPT ![a] = [Idle EXCEPT !.at = "editing"]]
    <2> DEFINE e == [Idle EXCEPT !.at = "editing"]
    <2>1. e \in Hook /\ e.at = "editing" /\ e.base = 1 /\ e.content = <<>> /\ e.lines = {}
      BY <1>3 DEF Hook
    <2>2. edit' = [edit EXCEPT ![a] = e]
      BY <1>5
    <2> HIDE DEF e
    <2> DEFINE r == [is |-> "request", author |-> Human, base |-> edit[a].base,
                     contents |-> <<edit[a].content>>, lines |-> edit[a].lines]
    <2>3. r \in Element /\ queue' = Append(queue, r)
      BY <1>4, <1>5
    <2>4. /\ r.is = "request" /\ r.author = Human /\ r.base = edit[a].base
          /\ r.contents = <<edit[a].content>> /\ r.lines = edit[a].lines
      OBVIOUS
    <2> HIDE DEF r
    <2> QED
      BY <1>2, <1>5, <2>1, <2>2, <2>3, <2>4, RequestKeeps
  <1>6. CASE edit[a].at = "post_read" /\ queue' = Asked(a, a) /\ edit' = [edit EXCEPT ![a] = Idle]
    <2> DEFINE r == [is |-> "request", author |-> a, base |-> edit[a].base,
                     contents |-> <<edit[a].content>>, lines |-> edit[a].lines]
    <2>3. r \in Element /\ queue' = Append(queue, r)
      BY <1>4, <1>6
    <2>4. /\ r.is = "request" /\ r.author = a /\ r.base = edit[a].base
          /\ r.contents = <<edit[a].content>> /\ r.lines = edit[a].lines
      OBVIOUS
    <2> HIDE DEF r
    <2> QED
      BY <1>2, <1>3, <1>6, <2>3, <2>4, RequestKeeps
  <1> QED
    BY <1>5, <1>6 DEF Request

(* The index and commits *)

LEMMA StageIsSound ==
  ASSUME Sound, Stage
  PROVE  Sound'
  <1> USE ShapeFacts
  <1>1. /\ Shape /\ Versions /\ Logs /\ Queued /\ Ordered /\ Convex /\ Hooks /\ Kept /\ Around
        /\ \A k \in DOMAIN notes : NoteRight(k)
    BY DEF Sound
  <1>2. /\ work' = work /\ trees' = trees /\ modified' = modified /\ deletes' = deletes
        /\ edits' = edits /\ edit' = edit
        /\ queue' = queue /\ log' = log /\ notes' = notes /\ by' = by /\ doubtful' = doubtful /\ missed' = missed
    BY DEF Stage, hooks
  <1>3. Untouched
    BY <1>1, <1>2 DEF Untouched, Shape
  <1>4. Seen' = Seen /\ View' = View /\ Logs' /\ (\A k \in DOMAIN notes : NoteRight(k))'
    BY <1>3, UntouchedKeeps
  <1>5. Len(trees) \in DOMAIN trees /\ Version(work, Len(by)) /\ Len(work) \in Nat /\ DOMAIN work = 1 .. Len(work)
    <2>1. Len(trees) \in DOMAIN trees
      <3>1. Seen \in DOMAIN trees
        BY <1>1 DEF Queued
      <3> QED
        BY <1>1, <3>1
    <2>2. Version(work, Len(by))
      BY <1>1 DEF Versions
    <2> QED
      BY <1>1, <2>1, <2>2, VersionFacts
  <1>6. /\ Version(index', Len(by)) /\ SameOrder(index', work)
        /\ ToSet(index') \subseteq ToSet(work)
        /\ \A l \in ToSet(work) : l \in ToSet(index') \/ l \notin ToSet(trees[Len(trees)])
    <2>1. CASE index' = work
      BY <1>1, <1>5, <2>1, OrderOfItself
    <2>2. CASE \E p \in Added(trees[HEAD], work) : index' = RemoveAt(work, p)
      <3>1. PICK p \in Added(trees[HEAD], work) : index' = RemoveAt(work, p)
        BY <2>2
      <3>2. p \in 1 .. Len(work) /\ work[p] \notin ToSet(trees[Len(trees)])
        BY <1>5, <3>1 DEF Added, Lines, HEAD
      <3> QED
        BY <1>1, <1>5, <3>1, <3>2, RemoveVersion
    <2> QED
      BY <2>1, <2>2 DEF Stage
  <1>7. /\ \A k : Asks(k)' <=> Asks(k)
        /\ \A k : Live(k)' <=> Live(k)
        /\ \A k, l : Prior(k, l)' <=> Prior(k, l)
        /\ \A a : Open(a)' <=> Open(a)
        /\ \A a, l : Other(a, l)' <=> Other(a, l)
    BY <1>2, <1>4 DEF Asks, Live, Prior, Open, Other, HEAD
  <1>11. Shape'
    BY <1>1, <1>2 DEF Shape
  <1>12. Versions'
    BY <1>1, <1>2, <1>6 DEF Versions
  <1>14. Queued'
    <2> HIDE ShapeFacts
    <2> QED
      BY <1>1, <1>2, <1>4, <1>7 DEF Queued
  <1>15. Ordered'
    <2> HIDE ShapeFacts
    <2> QED
      BY <1>1, <1>2, <1>6, <1>7 DEF Ordered
  <1>16. Convex'
    <2>1. ASSUME NEW c \in DOMAIN trees, NEW l \in ToSet(trees[c]), l \in ToSet(work)
          PROVE  l \in ToSet(index')
      <3>1. c <= Len(trees)
        BY <1>1
      <3>2. l \in ToSet(trees[Len(trees)])
        BY <1>1, <1>5, <2>1, <3>1 DEF Convex
      <3> QED
        BY <1>6, <2>1, <3>2
    <2> HIDE ShapeFacts
    <2> QED
      BY <1>1, <1>2, <1>6, <1>7, <2>1 DEF Convex
  <1>17. Hooks'
    <2> HIDE ShapeFacts
    <2> QED
      BY <1>1, <1>2, <1>7 DEF Hooks
  <1>18. Kept'
    <2> HIDE ShapeFacts
    <2> QED
      BY <1>1, <1>2, <1>7 DEF Kept
  <1>19. Around'
    <2> HIDE ShapeFacts
    <2>1. HEAD' = HEAD /\ (Len(queue) + 1)' = Len(queue) + 1
      BY <1>2 DEF HEAD
    <2> QED
      BY <1>1, <1>2, <1>7, <2>1 DEF Around
  <1> QED
    BY <1>4, <1>11, <1>12, <1>14, <1>15, <1>16, <1>17, <1>18, <1>19 DEF Sound

LEMMA CommitIsSound ==
  ASSUME Sound, Commit
  PROVE  Sound'
  <1> USE ShapeFacts
  <1>1. /\ Shape /\ Versions /\ Logs /\ Queued /\ Ordered /\ Convex /\ Hooks /\ Kept /\ Around
        /\ \A k \in DOMAIN notes : NoteRight(k)
    BY DEF Sound
  <1>2. /\ work' = work /\ index' = index /\ modified' = modified /\ deletes' = deletes
        /\ edits' = edits /\ edit' = edit
        /\ log' = log /\ notes' = notes /\ by' = by /\ Len(trees) < MaxCommits
    BY DEF Commit, hooks
  <1>3. PICK H, n, e : /\ H = Len(trees) /\ n = Len(queue)
                       /\ e = [is |-> "unseen", author |-> Human, base |-> Len(trees), contents |-> <<>>, lines |-> DOMAIN by]
    OBVIOUS
  <1>4. Version(index, Len(by)) /\ Version(work, Len(by)) /\ index \in Seq(Nat)
    <2>1. Version(index, Len(by)) /\ Version(work, Len(by))
      BY <1>1 DEF Versions
    <2> QED
      BY <1>1, <2>1, VersionFacts
  <1>5. /\ trees' \in Seq(Seq(Nat)) /\ Len(trees') = H + 1 /\ DOMAIN trees' = 1 .. H + 1
        /\ \A c \in DOMAIN trees : trees'[c] = trees[c]
        /\ trees'[H + 1] = index
        /\ \A c \in DOMAIN trees : c \in DOMAIN trees' /\ c # H + 1 /\ c <= H
        /\ \A c \in DOMAIN trees' : c \in DOMAIN trees \/ c = H + 1
        /\ H \in DOMAIN trees /\ H \in Nat /\ H + 1 \in DOMAIN trees'
    <2>1. trees \in Seq(Seq(Nat)) /\ trees' = Append(trees, index)
      BY <1>1 DEF Commit, Shape
    <2>2. /\ trees' \in Seq(Seq(Nat)) /\ Len(trees') = H + 1 /\ DOMAIN trees' = 1 .. H + 1
          /\ \A c \in DOMAIN trees : trees'[c] = trees[c]
          /\ trees'[H + 1] = index
      <3> HIDE ShapeFacts
      <3>1. \A t \in Seq(Seq(Nat)) : \A x \in Seq(Nat) : \A m : m = Len(t) =>
               /\ Append(t, x) \in Seq(Seq(Nat)) /\ Len(Append(t, x)) = m + 1
               /\ DOMAIN Append(t, x) = 1 .. m + 1
               /\ \A i \in DOMAIN t : Append(t, x)[i] = t[i]
               /\ Append(t, x)[m + 1] = x
        BY AppendFacts
      <3> QED
        BY <1>3, <1>4, <2>1, <3>1
    <2>3. Seen \in DOMAIN trees /\ DOMAIN trees = 1 .. H /\ H \in Nat
      BY <1>1, <1>3 DEF Queued
    <2> HIDE ShapeFacts
    <2> QED
      BY <2>2, <2>3, SMTT(30)
  <1>6. /\ e.is = "unseen" /\ e.base = H /\ e.contents = <<>> /\ e.lines = DOMAIN by /\ e \in Element
    <2>1. Len(trees) \in Nat /\ DOMAIN by \subseteq Nat
      BY <1>1
    <2> HIDE ShapeFacts
    <2> QED
      BY <1>3, <2>1 DEF Element
  <1>7. /\ n \in Nat /\ DOMAIN queue = 1 .. n /\ queue' \in Seq(Element) /\ DOMAIN queue' = 1 .. n + 1
        /\ (\A k \in DOMAIN queue : queue'[k] = queue[k]) /\ queue'[n + 1] = e /\ Len(queue') = n + 1
        /\ \A k \in DOMAIN queue' : k \in DOMAIN queue \/ k = n + 1
        /\ \A k \in DOMAIN queue : k \in DOMAIN queue' /\ k < n + 1
        /\ n + 1 \in DOMAIN queue'
    <2>1. queue \in Seq(Element) /\ queue' = Append(queue, e)
      BY <1>1, <1>3 DEF Commit
    <2> HIDE ShapeFacts
    <2>2. /\ n \in Nat /\ DOMAIN queue = 1 .. n /\ queue' \in Seq(Element) /\ DOMAIN queue' = 1 .. n + 1
          /\ (\A k \in DOMAIN queue : queue'[k] = queue[k]) /\ queue'[n + 1] = e /\ Len(queue') = n + 1
      BY <1>3, <1>6, <2>1, AppendFacts
    <2> QED
      BY <2>2
  <1>8. doubtful \subseteq doubtful' /\ doubtful' \subseteq DOMAIN by /\ missed' \subseteq DOMAIN by
        /\ \A a \in Agents : \A l \in ToSet(work) : Open(a) /\ by[l] # a => l \in ToSet(index) \/ l \in doubtful'
    <2>1. /\ doubtful' = doubtful \cup UNION {{l \in ToSet(work) \ ToSet(index) : by[l] # a} : a \in {b \in Agents : Open(b)}}
          /\ missed' = missed \cup AgentLines(ToSet(index) \ ToSet(work))
                              \cup UNION {edit[a].lines : a \in {b \in Agents : Open(b)}}
      BY DEF Commit
    <2>2. /\ ToSet(work) \subseteq DOMAIN by /\ ToSet(index) \subseteq DOMAIN by
          /\ doubtful \subseteq DOMAIN by /\ missed \subseteq DOMAIN by
          /\ \A a \in Agents : edit[a].lines \subseteq DOMAIN by
      BY <1>1, LineFacts DEF Shape, Versions
    <2> HIDE ShapeFacts
    <2> QED
      BY <2>1, <2>2 DEF AgentLines
  <1>9. Untouched
    BY <1>1, <1>2, <1>5, <1>8 DEF Untouched, Shape
  <1>10. Seen' = Seen /\ View' = View /\ Logs' /\ (\A k \in DOMAIN notes : NoteRight(k))' /\ Seen \in DOMAIN trees
    BY <1>1, <1>9, UntouchedKeeps DEF Queued
  <1>20. /\ \A k \in DOMAIN queue : (Asks(k)' <=> Asks(k)) /\ (Live(k)' <=> Live(k))
         /\ ~Asks(n + 1)'
         /\ \A k \in DOMAIN queue : \A l : Prior(k, l)' <=> Prior(k, l)
    <2>1. (\A k \in DOMAIN queue : Asks(k)' <=> Asks(k)) /\ ~Asks(n + 1)'
      BY <1>6, <1>7 DEF Asks
    <2>2. ASSUME NEW k \in DOMAIN queue
          PROVE  Live(k)' <=> Live(k)
      <3>1. \A j \in DOMAIN queue' : j < k => j \in DOMAIN queue
        BY <1>7
      <3> HIDE ShapeFacts
      <3> QED
        BY <1>7, <1>10, <2>1, <3>1 DEF Live
    <2>3. ASSUME NEW k \in DOMAIN queue, NEW l
          PROVE  Prior(k, l)' <=> Prior(k, l)
      <3>1. k # 1 => k - 1 \in DOMAIN queue
        BY <1>7
      <3> HIDE ShapeFacts
      <3> QED
        BY <1>7, <1>10, <2>1, <2>2, <3>1 DEF Prior
    <2> QED
      BY <2>1, <2>2, <2>3
  <1>11. Shape'
    <2>1. modified' \in 0 .. Len(trees')
      BY <1>1, <1>2, <1>3, <1>5 DEF Shape
    <2>2. Len(trees') <= MaxCommits /\ trees' \in Seq(Seq(Nat))
      BY <1>1, <1>2, <1>3, <1>5
    <2> HIDE ShapeFacts
    <2> QED
      BY <1>1, <1>2, <1>7, <1>8, <2>1, <2>2 DEF Shape
  <1>12. Versions'
    <2>1. \A c \in DOMAIN trees' : Version(trees'[c], Len(by))
      BY <1>1, <1>4, <1>5 DEF Versions
    <2>2. ASSUME NEW k \in DOMAIN queue'
          PROVE  /\ \A s \in DOMAIN queue'[k].contents : Version(queue'[k].contents[s], Len(by))
                 /\ queue'[k].lines \subseteq DOMAIN by
      <3>1. CASE k \in DOMAIN queue
        BY <1>1, <1>7, <3>1 DEF Versions
      <3>2. CASE k = n + 1
        <4>1. DOMAIN <<>> = {}
          OBVIOUS
        <4> QED
          BY <1>6, <1>7, <3>2, <4>1
      <3> QED
        BY <1>7, <3>1, <3>2
    <2> HIDE ShapeFacts
    <2> QED
      BY <1>1, <1>2, <2>1, <2>2 DEF Versions
  <1>13. \A k \in DOMAIN queue :
           /\ queue[k].base \in DOMAIN trees
           /\ ~Asks(k) => Seen <= queue[k].base /\ queue[k].base + 1 \in DOMAIN trees
    BY <1>1 DEF Queued
  <1>14. Queued'
    <2>1. \A a \in Agents : edit'[a].base \in DOMAIN trees'
      BY <1>1, <1>2, <1>5 DEF Queued
    <2>2. ASSUME NEW k \in DOMAIN queue'
          PROVE  /\ queue'[k].base \in DOMAIN trees'
                 /\ Asks(k)' => Len(queue'[k].contents) = 1
                 /\ queue'[k].is \in {"unseen", "checked"} => queue'[k].contents = <<>>
                 /\ queue'[k].is = "commit" => Len(queue'[k].contents) <= 1
                 /\ ~Asks(k)' => Seen <= queue'[k].base /\ queue'[k].base + 1 \in DOMAIN trees'
      <3>1. CASE k \in DOMAIN queue
        <4> HIDE ShapeFacts
        <4> QED
          BY <1>1, <1>5, <1>7, <1>20, <3>1 DEF Queued
      <3>2. CASE k = n + 1
        <4>1. Seen <= H
          BY <1>1, <1>3, <1>10
        <4> HIDE ShapeFacts
        <4> QED
          BY <1>5, <1>6, <1>7, <1>20, <3>2, <4>1
      <3> QED
        BY <1>7, <3>1, <3>2
    <2>3. ASSUME NEW i \in DOMAIN queue', NEW j \in DOMAIN queue', i < j, ~Asks(j)'
          PROVE  /\ queue'[i].base <= queue'[j].base
                 /\ ~Asks(i)' => queue'[i].base < queue'[j].base
      <3>1. i \in DOMAIN queue
        BY <1>7, <2>3
      <3>2. CASE j \in DOMAIN queue
        <4> HIDE ShapeFacts
        <4> QED
          BY <1>1, <1>7, <1>20, <2>3, <3>1, <3>2 DEF Queued
      <3>3. CASE j = n + 1
        <4>1. queue[i].base <= H /\ (~Asks(i) => queue[i].base < H)
          BY <1>1, <1>3, <1>13, <3>1
        <4> HIDE ShapeFacts
        <4> QED
          BY <1>6, <1>7, <1>20, <3>1, <3>3, <4>1
      <3> QED
        BY <1>7, <3>2, <3>3
    <2>4. ASSUME NEW c \in DOMAIN trees', Seen <= c, c < Len(trees')
          PROVE  \E j \in DOMAIN queue' : ~Asks(j)' /\ queue'[j].base = c
      <3>1. CASE c = H
        <4> HIDE ShapeFacts
        <4> QED
          BY <1>6, <1>7, <1>20, <3>1
      <3>2. CASE c # H
        <4>1. c \in DOMAIN trees /\ c < Len(trees)
          BY <1>3, <1>5, <2>4, <3>2
        <4>2. PICK j \in DOMAIN queue : ~Asks(j) /\ queue[j].base = c
          BY <1>1, <2>4, <4>1 DEF Queued
        <4> HIDE ShapeFacts
        <4> QED
          BY <1>7, <1>20, <4>2
      <3> QED
        BY <3>1, <3>2
    <2>5. Seen \in DOMAIN trees'
      BY <1>5, <1>10
    <2> HIDE ShapeFacts
    <2> QED
      BY <1>10, <2>1, <2>2, <2>3, <2>4, <2>5 DEF Queued
  <1>21. ASSUME NEW k \in DOMAIN queue', ~Asks(k)', queue'[k].contents # <<>>
         PROVE  /\ k \in DOMAIN queue /\ queue'[k] = queue[k] /\ ~Asks(k)
                /\ trees'[queue[k].base] = trees[queue[k].base] /\ trees'[queue[k].base + 1] = trees[queue[k].base + 1]
    <2> HIDE ShapeFacts
    <2>1. k \in DOMAIN queue /\ queue'[k] = queue[k] /\ ~Asks(k)
      BY <1>6, <1>7, <1>20, <1>21
    <2> QED
      BY <1>5, <1>13, <2>1
  <1>15. Ordered'
    <2>1. SameOrder(index, work) /\ \A c \in DOMAIN trees' : SameOrder(trees'[c], work)
      BY <1>1, <1>5 DEF Ordered
    <2> HIDE ShapeFacts
    <2> QED
      BY <1>1, <1>2, <1>21, <2>1 DEF Ordered
  <1>16. Convex'
    <2>1. \A c \in DOMAIN trees' : \A l \in ToSet(trees'[c]) : l \in ToSet(work) => l \in ToSet(index)
      BY <1>1, <1>5 DEF Convex
    <2>2. \A c, d \in DOMAIN trees' : c <= d =>
            \A l \in ToSet(trees'[c]) : l \in ToSet(work) \/ l \in ToSet(index) => l \in ToSet(trees'[d])
      <3> SUFFICES ASSUME NEW c \in DOMAIN trees', NEW d \in DOMAIN trees', c <= d,
                          NEW l \in ToSet(trees'[c]), l \in ToSet(work) \/ l \in ToSet(index)
                   PROVE  l \in ToSet(trees'[d])
        OBVIOUS
      <3>1. CASE d = H + 1
        BY <1>5, <2>1, <3>1
      <3>2. CASE d # H + 1
        <4>1. d \in DOMAIN trees /\ c \in DOMAIN trees /\ trees'[c] = trees[c] /\ trees'[d] = trees[d]
          BY <1>5, <3>2
        <4> QED
          BY <1>1, <4>1 DEF Convex
      <3> QED
        BY <3>1, <3>2
    <2> HIDE ShapeFacts
    <2> QED
      BY <1>1, <1>2, <1>21, <2>1, <2>2 DEF Convex
  <1>17. Hooks'
    <2>1. \A a : Open(a)' <=> Open(a)
      BY <1>2 DEF Open
    <2> HIDE ShapeFacts
    <2> QED
      BY <1>1, <1>2, <1>8, <2>1 DEF Hooks
  <1>18. Kept'
    <2> SUFFICES ASSUME NEW k \in DOMAIN queue', Asks(k)', Live(k)', queue'[k].author # Human,
                        NEW l \in ToSet(queue'[k].contents[1])
                 PROVE  by[l] = queue'[k].author \/ l \in doubtful' \/ l \in ToSet(trees'[queue'[k].base]) \/ Prior(k, l)'
      BY <1>2 DEF Kept
    <2> HIDE ShapeFacts
    <2>1. k \in DOMAIN queue /\ queue'[k] = queue[k] /\ Asks(k) /\ Live(k)
      BY <1>7, <1>20
    <2>2. by[l] = queue[k].author \/ l \in doubtful \/ l \in ToSet(trees[queue[k].base]) \/ Prior(k, l)
      BY <1>1, <2>1 DEF Kept
    <2> QED
      BY <1>5, <1>8, <1>13, <1>20, <2>1, <2>2
  <1>19. Around'
    <2> SUFFICES ASSUME NEW a \in Agents, Open(a)
                 PROVE  /\ \A l \in ToSet(work) : ~Other(a, l)'
                        /\ edit[a].base # HEAD'
      BY <1>2 DEF Around, Open
    <2>1. HEAD' = H + 1
      BY <1>5 DEF HEAD
    <2>2. \A l \in ToSet(work) : ~Other(a, l)'
      <3> HIDE ShapeFacts
      <3> QED
        BY <1>2, <1>5, <1>8, <2>1 DEF Other
    <2>3. edit[a].base \in DOMAIN trees
      BY <1>1 DEF Queued
    <2> QED
      BY <1>5, <2>1, <2>2, <2>3
  <1> QED
    BY <1>10, <1>11, <1>12, <1>14, <1>15, <1>16, <1>17, <1>18, <1>19 DEF Sound

(* The daemon sees a commit *)

\* A step that only changes what the daemon knows of the i-th element, a commit.
LEMMA SeeingKeeps ==
  ASSUME Sound, UNCHANGED <<files, hooks, log, notes, doubtful>>, missed' \subseteq DOMAIN by,
         NEW i \in DOMAIN queue, ~Asks(i), NEW r \in Element, queue' = [queue EXCEPT ![i] = r],
         r.base = queue[i].base, r.is \in {"checked", "commit"}, r.lines \subseteq DOMAIN by,
         r.contents = <<>> \/ (r.is = "commit" /\ r.contents = <<work>>)
  PROVE  Sound'
  <1> USE ShapeFacts
  <1>1. /\ Shape /\ Versions /\ Logs /\ Queued /\ Ordered /\ Convex /\ Hooks /\ Kept /\ Around
        /\ \A k \in DOMAIN notes : NoteRight(k)
    BY DEF Sound
  <1>2. /\ work' = work /\ index' = index /\ trees' = trees /\ modified' = modified /\ deletes' = deletes
        /\ edits' = edits /\ edit' = edit
        /\ log' = log /\ notes' = notes /\ by' = by /\ doubtful' = doubtful
    BY DEF files, hooks
  <1>3. Untouched
    BY <1>1, <1>2 DEF Untouched, Shape
  <1>4. Seen' = Seen /\ View' = View /\ Logs' /\ (\A k \in DOMAIN notes : NoteRight(k))'
    BY <1>3, UntouchedKeeps
  <1>5. /\ queue' \in Seq(Element) /\ Len(queue') = Len(queue) /\ DOMAIN queue' = DOMAIN queue
        /\ queue'[i] = r /\ \A k \in DOMAIN queue : k # i => queue'[k] = queue[k]
    <2>1. queue \in Seq(Element) /\ Len(queue) \in Nat /\ DOMAIN queue = 1 .. Len(queue)
      BY <1>1
    <2> HIDE ShapeFacts
    <2>2. queue' \in Seq(Element) /\ Len(queue') = Len(queue) /\ queue'[i] = r
          /\ \A k \in DOMAIN queue : k # i => queue'[k] = queue[k]
      BY <2>1, ReplaceFacts
    <2>3. DOMAIN queue' = 1 .. Len(queue')
      BY <2>2, LenProperties
    <2> QED
      BY <2>1, <2>2, <2>3
  <1>6. /\ r.is # "request" /\ (r.contents # <<>> => DOMAIN r.contents = {1} /\ r.contents[1] = work /\ Len(r.contents) = 1)
        /\ r.is = "checked" => r.contents = <<>>
        /\ DOMAIN <<>> = {} /\ Len(<<>>) = 0
    <2> HIDE ShapeFacts
    <2>1. DOMAIN <<work>> = {1} /\ <<work>>[1] = work /\ Len(<<work>>) = 1
      OBVIOUS
    <2>2. DOMAIN <<>> = {} /\ Len(<<>>) = 0
      OBVIOUS
    <2>3. r.contents = <<>> \/ (r.is = "commit" /\ r.contents = <<work>>)
      OBVIOUS
    <2>4. r.is \in {"checked", "commit"}
      OBVIOUS
    <2> QED
      BY <2>1, <2>2, <2>3, <2>4
  <1>7. /\ \A k \in DOMAIN queue : Asks(k)' <=> Asks(k)
        /\ \A k \in DOMAIN queue : queue'[k].base = queue[k].base
        /\ \A k \in DOMAIN queue : Asks(k) => queue'[k] = queue[k]
        /\ \A k \in DOMAIN queue : Live(k)' <=> Live(k)
        /\ \A k : k = 1 \/ k - 1 \in DOMAIN queue => \A l : Prior(k, l)' <=> Prior(k, l)
        /\ \A a : Open(a)' <=> Open(a)
        /\ \A a, l : Other(a, l)' <=> Other(a, l)
    <2> HIDE ShapeFacts
    <2>1. /\ \A k \in DOMAIN queue : Asks(k)' <=> Asks(k)
          /\ \A k \in DOMAIN queue : queue'[k].base = queue[k].base
      BY <1>5, <1>6 DEF Asks
    <2>2. \A k \in DOMAIN queue : Live(k)' <=> Live(k)
      BY <1>4, <1>5, <2>1 DEF Live
    <2>3. \A k \in DOMAIN queue : Asks(k) => queue'[k] = queue[k]
      BY <1>5
    <2>4. \A k : k = 1 \/ k - 1 \in DOMAIN queue => \A l : Prior(k, l)' <=> Prior(k, l)
      BY <1>4, <2>1, <2>2, <2>3 DEF Prior
    <2>5. (\A a : Open(a)' <=> Open(a)) /\ \A a, l : Other(a, l)' <=> Other(a, l)
      BY <1>2 DEF Open, Other, HEAD
    <2> QED
      BY <2>1, <2>2, <2>3, <2>4, <2>5
  <1>11. Shape'
    BY <1>1, <1>2, <1>5 DEF Shape
  <1>12. Versions'
    <2> HIDE ShapeFacts
    <2>1. Version(work, Len(by))
      BY <1>1 DEF Versions
    <2>2. ASSUME NEW k \in DOMAIN queue
          PROVE  /\ \A s \in DOMAIN queue'[k].contents : Version(queue'[k].contents[s], Len(by))
                 /\ queue'[k].lines \subseteq DOMAIN by
      <3>1. CASE k = i
        BY <1>5, <1>6, <2>1, <3>1
      <3>2. CASE k # i
        BY <1>1, <1>5, <3>2 DEF Versions
      <3> QED
        BY <3>1, <3>2
    <2> QED
      BY <1>1, <1>2, <1>5, <2>2 DEF Versions
  <1>14. Queued'
    <2> HIDE ShapeFacts
    <2>2. ASSUME NEW k \in DOMAIN queue
          PROVE  /\ queue'[k].base \in DOMAIN trees
                 /\ Asks(k)' => Len(queue'[k].contents) = 1
                 /\ queue'[k].is \in {"unseen", "checked"} => queue'[k].contents = <<>>
                 /\ queue'[k].is = "commit" => Len(queue'[k].contents) <= 1
                 /\ ~Asks(k)' => Seen <= queue'[k].base /\ queue'[k].base + 1 \in DOMAIN trees
      <3>1. CASE k = i
        <4>1. Seen <= queue[i].base /\ queue[i].base + 1 \in DOMAIN trees /\ queue[i].base \in DOMAIN trees
          BY <1>1 DEF Queued
        <4>2. Len(r.contents) <= 1
          <5>1. CASE r.contents = <<>>
            BY <1>6, <5>1
          <5>2. CASE r.contents # <<>>
            <6>1. Len(r.contents) = 1
              BY <1>6, <5>2, Zenon
            <6>2. 1 <= 1
              OBVIOUS
            <6> QED
              BY <6>1, <6>2, Zenon
          <5> QED
            BY <5>1, <5>2
        <4>3. r.is \in {"unseen", "checked"} => r.contents = <<>>
          BY <1>6
        <4> QED
          BY <1>5, <1>7, <3>1, <4>1, <4>2, <4>3
      <3>2. CASE k # i
        BY <1>1, <1>5, <1>7, <3>2 DEF Queued
      <3> QED
        BY <3>1, <3>2
    <2>3. \A j, k \in DOMAIN queue : j < k /\ ~Asks(k) =>
            /\ queue'[j].base <= queue'[k].base
            /\ ~Asks(j) => queue'[j].base < queue'[k].base
      BY <1>1, <1>7 DEF Queued
    <2>4. \A c \in DOMAIN trees : Seen <= c /\ c < Len(trees) =>
            \E j \in DOMAIN queue : ~Asks(j)' /\ queue'[j].base = c
      BY <1>1, <1>7 DEF Queued
    <2>5. Seen \in DOMAIN trees /\ \A a \in Agents : edit[a].base \in DOMAIN trees
      BY <1>1 DEF Queued
    <2> QED
      BY <1>2, <1>4, <1>5, <1>7, <2>2, <2>3, <2>4, <2>5 DEF Queued
  <1>8. /\ SameOrder(trees[queue[i].base + 1], work)
        /\ \A l \in ToSet(trees[queue[i].base]) : l \in ToSet(work) => l \in ToSet(trees[queue[i].base + 1])
    <2>1. queue[i].base \in DOMAIN trees /\ queue[i].base + 1 \in DOMAIN trees /\ queue[i].base <= queue[i].base + 1
      BY <1>1 DEF Queued
    <2> HIDE ShapeFacts
    <2> QED
      BY <1>1, <2>1 DEF Ordered, Convex
  <1>15. Ordered' /\ Convex'
    <2> HIDE ShapeFacts
    <2>1. ASSUME NEW k \in DOMAIN queue, ~Asks(k)', queue'[k].contents # <<>>
          PROVE  /\ SameOrder(trees[queue'[k].base + 1], queue'[k].contents[1])
                 /\ \A l \in ToSet(trees[queue'[k].base]) :
                      l \in ToSet(queue'[k].contents[1]) => l \in ToSet(trees[queue'[k].base + 1])
      <3>1. CASE k = i
        BY <1>5, <1>6, <1>8, <2>1, <3>1
      <3>2. CASE k # i
        BY <1>1, <1>5, <1>7, <2>1, <3>2 DEF Ordered, Convex
      <3> QED
        BY <3>1, <3>2
    <2>2. Ordered'
      BY <1>1, <1>2, <1>5, <2>1 DEF Ordered
    <2>3. Convex'
      BY <1>1, <1>2, <1>5, <2>1 DEF Convex
    <2> QED
      BY <2>2, <2>3
  <1>17. Hooks'
    <2> HIDE ShapeFacts
    <2> QED
      BY <1>1, <1>2, <1>7 DEF Hooks
  <1>18. Kept'
    <2>1. \A k \in DOMAIN queue : k = 1 \/ k - 1 \in DOMAIN queue
      BY <1>1
    <2> HIDE ShapeFacts
    <2> SUFFICES ASSUME NEW k \in DOMAIN queue, Asks(k)', Live(k)', queue'[k].author # Human,
                        NEW l \in ToSet(queue'[k].contents[1])
                 PROVE  by[l] = queue'[k].author \/ l \in doubtful \/ l \in ToSet(trees[queue'[k].base]) \/ Prior(k, l)'
      BY <1>2, <1>5 DEF Kept
    <2>2. Asks(k) /\ Live(k) /\ queue'[k] = queue[k]
      BY <1>7
    <2>3. by[l] = queue[k].author \/ l \in doubtful \/ l \in ToSet(trees[queue[k].base]) \/ Prior(k, l)
      BY <1>1, <2>2 DEF Kept
    <2> QED
      BY <1>7, <2>1, <2>2, <2>3
  <1>19. Around'
    <2>1. /\ HEAD' = HEAD /\ (Len(queue) + 1)' = Len(queue) + 1
          /\ Len(queue) + 1 = 1 \/ (Len(queue) + 1) - 1 \in DOMAIN queue
      BY <1>1, <1>2, <1>5 DEF HEAD
    <2> HIDE ShapeFacts
    <2>2. \A l : Prior(Len(queue) + 1, l)' <=> Prior(Len(queue) + 1, l)
      BY <1>5, <1>7, <2>1
    <2> QED
      BY <1>1, <1>2, <1>5, <1>7, <2>1, <2>2 DEF Around
  <1> QED
    BY <1>4, <1>11, <1>12, <1>14, <1>15, <1>17, <1>18, <1>19 DEF Sound

\* What a step of seeing a commit does.
LEMMA SeeingSteps ==
  ASSUME Shape, Versions, Queued, NEW i \in DOMAIN queue, CaptureCheck(i) \/ CaptureSkip(i) \/ CaptureRead(i)
  PROVE  \E r \in Element :
           /\ queue' = [queue EXCEPT ![i] = r] /\ r.base = queue[i].base /\ r.is \in {"checked", "commit"}
           /\ r.lines \subseteq DOMAIN by
           /\ r.contents = <<>> \/ (r.is = "commit" /\ r.contents = <<work>>)
           /\ ~Asks(i) /\ missed \subseteq missed' /\ missed' \subseteq DOMAIN by
           /\ UNCHANGED <<files, hooks, log, notes, doubtful>>
  <1>1. /\ queue \in Seq(Element) /\ queue[i] \in Element /\ DOMAIN by \subseteq Nat
        /\ missed \subseteq DOMAIN by /\ work \in Seq(Nat)
    <2>1. Version(work, Len(by)) /\ missed \subseteq DOMAIN by
      BY DEF Versions, Shape
    <2> QED
      BY <2>1, ShapeFacts, LineFacts
  <1>2. CASE CaptureCheck(i)
    <2> DEFINE r == [queue[i] EXCEPT !.is = "checked", !.lines = DOMAIN by]
    <2>1. /\ queue[i].is = "unseen" /\ queue' = [queue EXCEPT ![i].is = "checked", ![i].lines = DOMAIN by]
          /\ UNCHANGED <<files, hooks, log, notes, doubtful, missed>>
      BY <1>2 DEF CaptureCheck, Sees
    <2>2. queue' = [queue EXCEPT ![i] = r]
      BY <1>1, <2>1
    <2>3. r \in Element /\ r.base = queue[i].base /\ r.is = "checked" /\ r.lines = DOMAIN by /\ r.contents = queue[i].contents
      BY <1>1 DEF Element
    <2> QED
      BY <1>1, <2>1, <2>2, <2>3 DEF Asks, Queued
  <1>3. ASSUME NEW contents \in {<<>>, <<work>>}, NEW content, Captured(i, contents, content), ~Asks(i)
        PROVE  \E r \in Element :
                 /\ queue' = [queue EXCEPT ![i] = r] /\ r.base = queue[i].base /\ r.is \in {"checked", "commit"}
                 /\ r.lines \subseteq DOMAIN by
                 /\ r.contents = <<>> \/ (r.is = "commit" /\ r.contents = <<work>>)
                 /\ ~Asks(i) /\ missed \subseteq missed' /\ missed' \subseteq DOMAIN by
                 /\ UNCHANGED <<files, hooks, log, notes, doubtful>>
    <2> DEFINE r == [queue[i] EXCEPT !.is = "commit", !.contents = contents, !.lines = {}]
    <2>1. /\ queue' = [queue EXCEPT ![i].is = "commit", ![i].contents = contents, ![i].lines = {}]
          /\ UNCHANGED <<files, hooks, log, notes, doubtful>>
      BY <1>3 DEF Captured
    <2>2. queue' = [queue EXCEPT ![i] = r]
      BY <1>1, <2>1
    <2>3. contents \in Seq(Seq(Nat))
      <3>1. <<>> \in Seq(Seq(Nat)) /\ <<work>> \in Seq(Seq(Nat))
        BY <1>1
      <3> QED
        BY <1>3, <3>1
    <2>4. r \in Element /\ r.base = queue[i].base /\ r.is = "commit" /\ r.lines = {} /\ r.contents = contents
      BY <1>1, <2>3 DEF Element
    <2>5. missed \subseteq missed' /\ missed' \subseteq DOMAIN by
      BY <1>1, <1>3 DEF Captured, AgentLines
    <2> HIDE DEF r
    <2> QED
      BY <1>3, <2>1, <2>2, <2>4, <2>5
  <1>4. CASE CaptureSkip(i)
    <2>1. ~Asks(i) /\ Captured(i, <<>>, trees[queue[i].base + 1])
      BY <1>4 DEF CaptureSkip, Sees, Asks
    <2> QED
      BY <1>3, <2>1
  <1>5. CASE CaptureRead(i)
    <2>1. ~Asks(i) /\ Captured(i, <<work>>, work)
      BY <1>5 DEF CaptureRead, Sees, Asks
    <2> QED
      BY <1>3, <2>1
  <1> QED
    BY <1>2, <1>4, <1>5

LEMMA SeeingIsSound ==
  ASSUME Sound, NEW i \in DOMAIN queue, CaptureCheck(i) \/ CaptureSkip(i) \/ CaptureRead(i)
  PROVE  Sound'
  <1>1. Shape /\ Versions /\ Queued
    BY DEF Sound
  <1>2. PICK r \in Element :
           /\ queue' = [queue EXCEPT ![i] = r] /\ r.base = queue[i].base /\ r.is \in {"checked", "commit"}
           /\ r.lines \subseteq DOMAIN by
           /\ r.contents = <<>> \/ (r.is = "commit" /\ r.contents = <<work>>)
           /\ ~Asks(i) /\ missed \subseteq missed' /\ missed' \subseteq DOMAIN by
           /\ UNCHANGED <<files, hooks, log, notes, doubtful>>
    BY <1>1, SeeingSteps
  <1> QED
    BY <1>2, SeeingKeeps

(* The daemon carries out the next element *)

\* What the elements behind the first are.
LEMMA TailElements ==
  ASSUME Shape, queue # <<>>, queue' = Tail(queue)
  PROVE  /\ queue' \in Seq(Element) /\ Len(queue) = Len(queue') + 1 /\ Len(queue') \in Nat
         /\ 1 \in DOMAIN queue /\ DOMAIN queue' = 1 .. Len(queue')
         /\ \A k \in DOMAIN queue' : k \in Nat \ {0} /\ k + 1 \in DOMAIN queue /\ queue'[k] = queue[k + 1]
         /\ \A k \in DOMAIN queue : k # 1 => k - 1 \in DOMAIN queue' /\ queue'[k - 1] = queue[k]
  <1>1. queue \in Seq(Element) /\ Len(queue) \in Nat /\ DOMAIN queue = 1 .. Len(queue)
    BY ShapeFacts
  <1>2. /\ 1 \in DOMAIN queue /\ queue' \in Seq(Element) /\ Len(queue') = Len(queue) - 1
        /\ \A k \in DOMAIN queue' : k + 1 \in DOMAIN queue /\ queue'[k] = queue[k + 1]
        /\ \A k \in DOMAIN queue : k # 1 => k - 1 \in DOMAIN queue' /\ queue'[k - 1] = queue[k]
    BY <1>1, TailFacts
  <1>3. DOMAIN queue' = 1 .. Len(queue') /\ Len(queue') \in Nat
    BY <1>2, LenProperties
  <1> QED
    BY <1>1, <1>2, <1>3

\* What does not depend on what is done with it.
LEMMA PoppedKeeps ==
  ASSUME Sound, queue # <<>>, queue' = Tail(queue), UNCHANGED <<files, hooks, doubtful, missed>>,
         Seen' = IF Asks(1) THEN Seen ELSE Seen + 1,
         Asks(1) /\ Live(1) => View'.content = queue[1].contents[1]
  PROVE  /\ Versions' /\ Queued' /\ Ordered' /\ Convex' /\ Hooks' /\ Kept' /\ Around'
         /\ \A k \in DOMAIN queue' : Live(k)' <=> Live(k + 1)
  <1> USE ShapeFacts
  <1>1. Shape /\ Versions /\ Queued /\ Ordered /\ Convex /\ Hooks /\ Kept /\ Around
    BY DEF Sound
  <1>2. /\ work' = work /\ index' = index /\ trees' = trees /\ modified' = modified /\ deletes' = deletes
        /\ by' = by /\ edits' = edits /\ edit' = edit /\ doubtful' = doubtful /\ missed' = missed
    BY DEF files, hooks
  <1>3. /\ queue' \in Seq(Element) /\ Len(queue) = Len(queue') + 1 /\ Len(queue') \in Nat
        /\ 1 \in DOMAIN queue /\ DOMAIN queue' = 1 .. Len(queue')
        /\ \A k \in DOMAIN queue' : k \in Nat \ {0} /\ k + 1 \in DOMAIN queue /\ queue'[k] = queue[k + 1]
        /\ \A k \in DOMAIN queue : k # 1 => k - 1 \in DOMAIN queue' /\ queue'[k - 1] = queue[k]
    BY <1>1, TailElements
  <1>4. ~Asks(1) => queue[1].base = Seen /\ Seen + 1 \in DOMAIN trees
    <2>1. ~Asks(1) => queue[1].base = Seen
      BY <1>1, HeadFacts
    <2>2. ~Asks(1) => queue[1].base + 1 \in DOMAIN trees
      BY <1>1, <1>3 DEF Queued
    <2> HIDE ShapeFacts
    <2> QED
      BY <2>1, <2>2
  <1>5. Seen \in Nat /\ Seen \in DOMAIN trees /\ Seen' \in Nat /\ Seen' \in DOMAIN trees
    <2>1. Seen \in Nat /\ Seen \in DOMAIN trees
      BY <1>1 DEF Queued
    <2> QED
      BY <1>4, <2>1
  <1>6. \A k \in DOMAIN queue' : (Asks(k)' <=> Asks(k + 1)) /\ queue'[k].base = queue[k + 1].base
    <2> HIDE ShapeFacts
    <2> QED
      BY <1>3 DEF Asks
  <1>7. ASSUME NEW k \in DOMAIN queue'
        PROVE  Live(k)' <=> Live(k + 1)
    <2> DEFINE b == queue[k + 1].base
    <2>1. b \in Nat /\ k + 1 \in DOMAIN queue /\ queue'[k].base = b /\ k \in Nat \ {0}
      BY <1>1, <1>3, <1>6
    <2> HIDE DEF b
    <2>2. Live(k)' <=> Seen' <= b /\ \A j \in DOMAIN queue' : j < k /\ ~Asks(j + 1) => queue[j + 1].base < b
      <3> HIDE ShapeFacts
      <3> QED
        BY <1>6, <2>1 DEF Live
    <2>3. Live(k + 1) <=> Seen <= b /\ \A j \in DOMAIN queue : j < k + 1 /\ ~Asks(j) => queue[j].base < b
      BY DEF Live, b
    <2>4. /\ \A j \in DOMAIN queue' : j + 1 \in DOMAIN queue /\ (j < k <=> j + 1 < k + 1)
          /\ \A j \in DOMAIN queue : j = 1 \/ (j - 1 \in DOMAIN queue' /\ (j - 1) + 1 = j)
          /\ 1 < k + 1
      BY <1>1, <1>3, <2>1
    <2>5. (\A j \in DOMAIN queue : j < k + 1 /\ ~Asks(j) => queue[j].base < b) <=>
            /\ ~Asks(1) => queue[1].base < b
            /\ \A j \in DOMAIN queue' : j < k /\ ~Asks(j + 1) => queue[j + 1].base < b
      <3> HIDE ShapeFacts
      <3>1. ASSUME \A j \in DOMAIN queue : j < k + 1 /\ ~Asks(j) => queue[j].base < b
            PROVE  /\ ~Asks(1) => queue[1].base < b
                   /\ \A j \in DOMAIN queue' : j < k /\ ~Asks(j + 1) => queue[j + 1].base < b
        BY <1>3, <2>4, <3>1
      <3>2. ASSUME ~Asks(1) => queue[1].base < b,
                   \A j \in DOMAIN queue' : j < k /\ ~Asks(j + 1) => queue[j + 1].base < b,
                   NEW j \in DOMAIN queue, j < k + 1, ~Asks(j)
            PROVE  queue[j].base < b
        <4>1. CASE j = 1
          BY <3>2, <4>1
        <4>2. CASE j # 1
          <5>1. PICK m \in DOMAIN queue' : m = j - 1 /\ m + 1 = j /\ m < k
            BY <2>4, <3>2, <4>2
          <5> QED
            BY <3>2, <5>1
        <4> QED
          BY <4>1, <4>2
      <3> QED
        BY <3>1, <3>2
    <2>6. CASE Asks(1)
      <3> HIDE ShapeFacts
      <3> QED
        BY <2>2, <2>3, <2>5, <2>6
    <2>7. CASE ~Asks(1)
      <3>1. Seen' = Seen + 1 /\ queue[1].base = Seen
        BY <1>4, <2>7
      <3>2. (Seen' <= b <=> queue[1].base < b) /\ (queue[1].base < b => Seen <= b)
        BY <1>5, <2>1, <3>1
      <3> HIDE ShapeFacts
      <3> QED
        BY <2>2, <2>3, <2>5, <2>7, <3>2
    <2> QED
      BY <2>6, <2>7
  <1>8. ASSUME NEW k \in Nat \ {0}, k = 1 \/ k - 1 \in DOMAIN queue', NEW l, Prior(k + 1, l)
        PROVE  Prior(k, l)'
    <2>1. k + 1 # 1 /\ (k + 1) - 1 = k
      BY <1>8
    <2>2. Asks(k) /\ Live(k) /\ l \in ToSet(queue[k].contents[1])
      <3> HIDE ShapeFacts
      <3> QED
        BY <1>8, <2>1 DEF Prior
    <2>3. CASE k = 1
      <3> HIDE ShapeFacts
      <3> QED
        BY <2>2, <2>3 DEF Prior
    <2>4. CASE k # 1
      <3>1. PICK m \in DOMAIN queue' : m = k - 1 /\ m + 1 = k
        BY <1>3, <1>8, <2>4
      <3>2. Asks(m)' /\ Live(m)' /\ queue'[m] = queue[k]
        BY <1>3, <1>6, <1>7, <2>2, <3>1
      <3> HIDE ShapeFacts
      <3> QED
        BY <2>2, <2>4, <3>1, <3>2 DEF Prior
    <2> QED
      BY <2>3, <2>4
  <1>12. Versions'
    <2> HIDE ShapeFacts
    <2>1. \A k \in DOMAIN queue' :
            /\ \A s \in DOMAIN queue'[k].contents : Version(queue'[k].contents[s], Len(by))
            /\ queue'[k].lines \subseteq DOMAIN by
      BY <1>1, <1>3 DEF Versions
    <2> QED
      BY <1>1, <1>2, <2>1 DEF Versions
  <1>14. Queued'
    <2>1. \A a \in Agents : edit[a].base \in DOMAIN trees
      BY <1>1 DEF Queued
    <2>2. ASSUME NEW k \in DOMAIN queue'
          PROVE  /\ queue'[k].base \in DOMAIN trees
                 /\ Asks(k)' => Len(queue'[k].contents) = 1
                 /\ queue'[k].is \in {"unseen", "checked"} => queue'[k].contents = <<>>
                 /\ queue'[k].is = "commit" => Len(queue'[k].contents) <= 1
                 /\ ~Asks(k)' => Seen' <= queue'[k].base /\ queue'[k].base + 1 \in DOMAIN trees
      <3>1. k + 1 \in DOMAIN queue /\ queue'[k] = queue[k + 1] /\ (Asks(k)' <=> Asks(k + 1)) /\ 1 < k + 1
        BY <1>3, <1>6
      <3>2. /\ queue[k + 1].base \in DOMAIN trees
            /\ Asks(k + 1) => Len(queue[k + 1].contents) = 1
            /\ queue[k + 1].is \in {"unseen", "checked"} => queue[k + 1].contents = <<>>
            /\ queue[k + 1].is = "commit" => Len(queue[k + 1].contents) <= 1
            /\ ~Asks(k + 1) => Seen <= queue[k + 1].base /\ queue[k + 1].base + 1 \in DOMAIN trees
        BY <1>1, <3>1 DEF Queued
      <3>3. ~Asks(k + 1) /\ ~Asks(1) => queue[1].base < queue[k + 1].base
        BY <1>1, <1>3, <3>1 DEF Queued
      <3>4. ~Asks(k + 1) => Seen' <= queue[k + 1].base
        <4>1. queue[k + 1].base \in Nat
          BY <1>1, <3>1
        <4> HIDE ShapeFacts
        <4> QED
          BY <1>4, <1>5, <3>2, <3>3, <4>1
      <3> HIDE ShapeFacts
      <3> QED
        BY <3>1, <3>2, <3>4
    <2>3. ASSUME NEW i \in DOMAIN queue', NEW j \in DOMAIN queue', i < j, ~Asks(j)'
          PROVE  /\ queue'[i].base <= queue'[j].base
                 /\ ~Asks(i)' => queue'[i].base < queue'[j].base
      <3>1. i + 1 \in DOMAIN queue /\ j + 1 \in DOMAIN queue /\ i + 1 < j + 1
        BY <1>3, <2>3
      <3>2. /\ queue[i + 1].base <= queue[j + 1].base
            /\ ~Asks(i + 1) => queue[i + 1].base < queue[j + 1].base
        BY <1>1, <1>6, <2>3, <3>1 DEF Queued
      <3> HIDE ShapeFacts
      <3> QED
        BY <1>6, <3>2
    <2>4. ASSUME NEW c \in DOMAIN trees, Seen' <= c, c < Len(trees)
          PROVE  \E j \in DOMAIN queue' : ~Asks(j)' /\ queue'[j].base = c
      <3>1. Seen <= c /\ (~Asks(1) => c # Seen)
        BY <1>1, <1>5, <2>4
      <3>2. PICK j \in DOMAIN queue : ~Asks(j) /\ queue[j].base = c
        BY <1>1, <2>4, <3>1 DEF Queued
      <3>3. j # 1
        BY <1>4, <3>1, <3>2
      <3>4. PICK m \in DOMAIN queue' : m = j - 1 /\ m + 1 = j
        BY <1>1, <1>3, <3>3
      <3> HIDE ShapeFacts
      <3> QED
        BY <1>6, <3>2, <3>4
    <2> HIDE ShapeFacts
    <2> QED
      BY <1>2, <1>5, <2>1, <2>2, <2>3, <2>4 DEF Queued
  <1>15. Ordered' /\ Convex'
    <2> HIDE ShapeFacts
    <2>1. ASSUME NEW k \in DOMAIN queue', ~Asks(k)', queue'[k].contents # <<>>
          PROVE  /\ SameOrder(trees[queue'[k].base + 1], queue'[k].contents[1])
                 /\ \A l \in ToSet(trees[queue'[k].base]) :
                      l \in ToSet(queue'[k].contents[1]) => l \in ToSet(trees[queue'[k].base + 1])
      <3>1. k + 1 \in DOMAIN queue /\ ~Asks(k + 1) /\ queue'[k] = queue[k + 1]
        BY <1>3, <1>6, <2>1
      <3> QED
        BY <1>1, <2>1, <3>1 DEF Ordered, Convex
    <2>2. Ordered'
      BY <1>1, <1>2, <2>1 DEF Ordered
    <2>3. Convex'
      BY <1>1, <1>2, <2>1 DEF Convex
    <2> QED
      BY <2>2, <2>3
  <1>9. (\A a : Open(a)' <=> Open(a)) /\ \A a, l : Other(a, l)' <=> Other(a, l)
    BY <1>2 DEF Open, Other, HEAD
  <1>17. Hooks'
    <2> HIDE ShapeFacts
    <2> QED
      BY <1>1, <1>2, <1>9 DEF Hooks
  <1>18. Kept'
    <2> SUFFICES ASSUME NEW k \in DOMAIN queue', Asks(k)', Live(k)', queue'[k].author # Human,
                        NEW l \in ToSet(queue'[k].contents[1])
                 PROVE  by[l] = queue'[k].author \/ l \in doubtful \/ l \in ToSet(trees[queue'[k].base]) \/ Prior(k, l)'
      BY <1>2 DEF Kept
    <2>1. k + 1 \in DOMAIN queue /\ Asks(k + 1) /\ Live(k + 1) /\ queue'[k] = queue[k + 1]
      BY <1>3, <1>6, <1>7
    <2>2. by[l] = queue[k + 1].author \/ l \in doubtful \/ l \in ToSet(trees[queue[k + 1].base]) \/ Prior(k + 1, l)
      BY <1>1, <2>1 DEF Kept
    <2>3. Prior(k + 1, l) => Prior(k, l)'
      <3>1. k \in Nat \ {0} /\ (k = 1 \/ k - 1 \in DOMAIN queue')
        BY <1>3
      <3> QED
        BY <1>8, <3>1
    <2> HIDE ShapeFacts
    <2> QED
      BY <2>1, <2>2, <2>3
  <1>19. Around'
    <2>1. PICK n \in Nat \ {0} : n = Len(queue) /\ n = Len(queue') + 1 /\ (n = 1 \/ n - 1 \in DOMAIN queue')
      <3> HIDE ShapeFacts
      <3>1. Len(queue) \in Nat \ {0} /\ Len(queue) = Len(queue') + 1
        BY <1>3
      <3>2. Len(queue) = 1 \/ Len(queue) - 1 \in DOMAIN queue'
        BY <1>3
      <3> QED
        BY <3>1, <3>2
    <2>2. HEAD' = HEAD /\ (Len(queue) + 1)' = n /\ Len(queue) + 1 = n + 1
      BY <1>2, <2>1 DEF HEAD
    <2>3. \A l : Prior(n + 1, l) => Prior(n, l)'
      BY <1>8, <2>1
    <2> HIDE ShapeFacts
    <2> QED
      BY <1>1, <1>2, <1>9, <2>2, <2>3 DEF Around
  <1> QED
    BY <1>7, <1>12, <1>14, <1>15, <1>17, <1>18, <1>19

LEMMA CheckpointFacts ==
  ASSUME Sound, Checkpoint
  PROVE  /\ queue # <<>> /\ queue' = Tail(queue) /\ notes' = notes
         /\ UNCHANGED <<files, hooks, doubtful, missed>>
         /\ Asks(1) /\ 1 \in DOMAIN queue /\ queue[1].base \in 1 .. Seen /\ (Live(1) <=> queue[1].base = Seen)
         /\ log' \in [1 .. MaxCommits -> WorkingLog]
         /\ LogWell(log'[queue[1].base], by, Free(queue[1].base))
         /\ \A c \in 1 .. MaxCommits : c # queue[1].base => log'[c] = log[c]
         /\ Seen' = Seen
         /\ ~Live(1) => View' = View
         /\ Live(1) =>
              /\ View'.content = queue[1].contents[1]
              /\ \A x : x \in DOMAIN View'.names <=>
                   /\ x \in ToSet(queue[1].contents[1])
                   /\ x \in DOMAIN View.names \/ (queue[1].author # Human /\ x \notin ToSet(View.content))
  <1> USE ShapeFacts
  <1>1. Shape /\ Versions /\ Logs /\ Queued /\ Kept
    BY DEF Sound
  <1>2. queue # <<>> /\ queue' = Tail(queue) /\ notes' = notes /\ UNCHANGED <<files, hooks, doubtful, missed>>
    BY DEF Checkpoint
  <1>3. /\ 1 \in DOMAIN queue /\ Head(queue) = queue[1] /\ queue[1].base <= Seen
        /\ (Live(1) <=> queue[1].base = Seen)
    BY <1>1, <1>2, HeadFacts
  <1>4. PICK b, author, content : b = queue[1].base /\ author = queue[1].author /\ content = queue[1].contents[1]
    OBVIOUS
  <1>5. Asks(1) /\ log' = [log EXCEPT ![b] = After(log[b], b, author, content)]
    <2> HIDE ShapeFacts
    <2> QED
      BY <1>3, <1>4 DEF Checkpoint, Asks
  <1>6. /\ b \in DOMAIN trees /\ b \in 1 .. MaxCommits /\ b \in 1 .. Seen /\ Seen \in DOMAIN trees /\ Seen \in 1 .. MaxCommits
        /\ Version(trees[b], Len(by)) /\ LogWell(log[b], by, Free(b)) /\ by \in Authors
    <2>1. b \in DOMAIN trees /\ Seen \in DOMAIN trees /\ b <= Seen
      BY <1>1, <1>3, <1>4 DEF Queued
    <2>2. b \in 1 .. MaxCommits /\ b \in 1 .. Seen /\ by \in Authors /\ Seen \in 1 .. MaxCommits
      BY <1>1, <2>1
    <2> HIDE ShapeFacts
    <2> QED
      BY <1>1, <2>1, <2>2 DEF Versions, Logs
  <1>7. author \in Agents \cup {Human} /\ Version(content, Len(by)) /\ ToSet(content) \subseteq Nat
    <2>1. author \in Agents \cup {Human} /\ 1 \in DOMAIN queue[1].contents
      BY <1>1, <1>3, <1>4, <1>5, QueueFacts
    <2>2. Version(content, Len(by))
      BY <1>1, <1>3, <1>4, <2>1 DEF Versions
    <2>3. ToSet(content) \subseteq DOMAIN by
      BY <1>1, <2>2, LineFacts
    <2> QED
      BY <1>1, <2>1, <2>2, <2>3
  <1>8. PICK before, after : before = Previous(log[b], b) /\ after = After(log[b], b, author, content)
    OBVIOUS
  <1>9. author # Human => \A x \in ToSet(content) \ ToSet(before.content) : by[x] = author \/ x \in Free(b)
    <2>1. CASE b < Seen
      BY <1>7, <2>1 DEF Free
    <2>2. CASE b = Seen
      <3>1. Live(1) /\ before = View
        BY <1>3, <1>4, <1>8, <2>2 DEF View
      <3>2. ~(b < Seen)
        BY <1>1, <2>2
      <3> HIDE ShapeFacts
      <3>3. author # Human => \A x \in ToSet(content) : by[x] = author \/ x \in doubtful \/ x \in ToSet(trees[b]) \/ Prior(1, x)
        BY <1>1, <1>3, <1>4, <1>5, <3>1 DEF Kept
      <3>4. \A x : Prior(1, x) <=> x \in ToSet(before.content)
        BY <3>1 DEF Prior
      <3> QED
        BY <2>2, <3>2, <3>3, <3>4 DEF Free
    <2> QED
      BY <1>1, <1>6, <2>1, <2>2
  <1>10. /\ LogWell(after, by, Free(b))
         /\ Previous(after, b).content = content
         /\ \A x : x \in DOMAIN Previous(after, b).names <=>
              /\ x \in ToSet(content)
              /\ x \in DOMAIN before.names \/ (author # Human /\ x \notin ToSet(before.content))
    <2> HIDE ShapeFacts
    <2>1. PICK a, free, l : a = by /\ free = Free(b) /\ l = log[b]
      OBVIOUS
    <2>2. /\ a \in Authors /\ LogWell(l, a, free) /\ Version(trees[b], Len(a)) /\ Version(content, Len(a))
          /\ before = Previous(l, b) /\ after = After(l, b, author, content) /\ b \in DOMAIN trees
          /\ author \in Agents \cup {Human}
          /\ author # Human => \A x \in ToSet(content) \ ToSet(before.content) : a[x] = author \/ x \in free
      BY <1>6, <1>7, <1>8, <1>9, <2>1
    <2>3. /\ LogWell(after, a, free)
          /\ Previous(after, b).content = content
          /\ \A x : x \in DOMAIN Previous(after, b).names <=>
               /\ x \in ToSet(content)
               /\ x \in DOMAIN before.names \/ (author # Human /\ x \notin ToSet(before.content))
      BY <2>2, AfterFacts
    <2> QED
      BY <2>1, <2>3
  <1>11. after \in WorkingLog /\ log \in [1 .. MaxCommits -> WorkingLog]
    BY <1>1, <1>10 DEF LogWell, Shape
  <1>12. /\ log' \in [1 .. MaxCommits -> WorkingLog] /\ log'[b] = after
         /\ \A c \in 1 .. MaxCommits : c # b => log'[c] = log[c]
    <2> HIDE ShapeFacts
    <2> QED
      BY <1>5, <1>6, <1>8, <1>11
  <1>13. Seen' = Seen /\ View' = Previous(log'[Seen], Seen)
    <2>1. trees' = trees
      BY <1>2 DEF files
    <2> QED
      BY <1>2, <2>1 DEF Seen, View, Previous
  <1>14. ~Live(1) => View' = View
    <2> HIDE ShapeFacts
    <2> QED
      BY <1>3, <1>4, <1>6, <1>12, <1>13 DEF View
  <1>15. Live(1) => View' = Previous(after, b) /\ View = before
    <2> HIDE ShapeFacts
    <2> QED
      BY <1>3, <1>4, <1>8, <1>12, <1>13 DEF View
  <1> HIDE ShapeFacts
  <1> QED
    BY <1>2, <1>3, <1>4, <1>5, <1>6, <1>10, <1>12, <1>13, <1>14, <1>15

LEMMA CheckpointIsSound ==
  ASSUME Sound, Checkpoint
  PROVE  Sound'
  <1> USE ShapeFacts
  <1>1. Shape /\ Versions /\ Logs /\ Queued /\ \A k \in DOMAIN notes : NoteRight(k)
    BY DEF Sound
  <1>2. /\ queue # <<>> /\ queue' = Tail(queue) /\ notes' = notes
        /\ UNCHANGED <<files, hooks, doubtful, missed>>
        /\ Asks(1) /\ 1 \in DOMAIN queue /\ queue[1].base \in 1 .. Seen /\ (Live(1) <=> queue[1].base = Seen)
        /\ log' \in [1 .. MaxCommits -> WorkingLog]
        /\ LogWell(log'[queue[1].base], by, Free(queue[1].base))
        /\ \A c \in 1 .. MaxCommits : c # queue[1].base => log'[c] = log[c]
        /\ Seen' = Seen
        /\ Live(1) => View'.content = queue[1].contents[1]
    BY CheckpointFacts
  <1>3. Versions' /\ Queued' /\ Ordered' /\ Convex' /\ Hooks' /\ Kept' /\ Around'
    <2> HIDE ShapeFacts
    <2> QED
      BY <1>2, PoppedKeeps
  <1>4. /\ work' = work /\ index' = index /\ trees' = trees /\ modified' = modified /\ deletes' = deletes
        /\ by' = by /\ edits' = edits /\ edit' = edit /\ doubtful' = doubtful /\ missed' = missed
    BY <1>2 DEF files, hooks
  <1>5. Shape'
    <2>1. queue' \in Seq(Element)
      BY <1>1, <1>2, TailElements
    <2> QED
      BY <1>1, <1>2, <1>4, <2>1 DEF Shape
  <1>6. Logs'
    <2>1. \A c \in 1 .. MaxCommits : Free(c)' = Free(c)
      BY <1>2, <1>4 DEF Free
    <2>2. ASSUME NEW c \in 1 .. MaxCommits
          PROVE  LogWell(log'[c], by, Free(c)) /\ (Seen < c => log'[c] = EmptyLog)
      <3>1. CASE c = queue[1].base
        <4>1. ~(Seen < c)
          BY <1>1, <1>2, <3>1
        <4> QED
          BY <1>2, <3>1, <4>1
      <3>2. CASE c # queue[1].base
        BY <1>1, <1>2, <3>2 DEF Logs
      <3> QED
        BY <3>1, <3>2
    <2> QED
      BY <1>2, <1>4, <2>1, <2>2 DEF Logs
  <1>7. (\A k \in DOMAIN notes : NoteRight(k))'
    <2> SUFFICES ASSUME NEW k \in DOMAIN notes
                 PROVE  NoteRight(k)'
      BY <1>2
    <2>1. k \in Nat \ {0}
      BY <1>1
    <2> QED
      BY <1>1, <1>2, <1>4, <2>1, NoteKept
  <1> QED
    BY <1>3, <1>5, <1>6, <1>7 DEF Sound

\* What the daemon finds out for the next commit, makes of it and leaves.
Outcome(final, left, note) ==
  /\ queue[1].contents # <<>> => final = queue[1].contents[1]
  /\ queue[1].contents = <<>> => final = trees[Seen + 1]
  /\ Version(final, Len(by)) /\ final \in Seq(Nat)
  /\ left \in Names /\ DOMAIN left \subseteq ToSet(final)
  /\ \A l \in DOMAIN left : left[l] \in Agents /\ (left[l] = by[l] \/ l \in doubtful \cup ToSet(trees[Seen + 1]))
  /\ final # trees[Seen + 1] => \A l \in ToSet(final) : l \in DOMAIN View.names => l \in DOMAIN left
  /\ note \in Note /\ note.final = final
  /\ \A x \in note.claims : x \in Nat \X Agents /\ x[1] \in Committed(Seen + 1)
  /\ ToSet(trees[Seen + 1]) \subseteq ToSet(final) =>
       /\ \A x \in note.claims : by[trees[Seen + 1][x[1]]] = x[2] \/ trees[Seen + 1][x[1]] \in doubtful
       /\ \A n \in Committed(Seen + 1) :
            trees[Seen + 1][n] \in (DOMAIN View.names) \ doubtful => <<n, by[trees[Seen + 1][n]]>> \in note.claims

LEMMA EventFacts ==
  ASSUME Sound, CommitEvent
  PROVE  /\ queue # <<>> /\ queue' = Tail(queue) /\ UNCHANGED <<files, hooks, doubtful, missed>>
         /\ 1 \in DOMAIN queue /\ queue[1].is = "commit" /\ queue[1].base = Seen
         /\ Seen \in DOMAIN trees /\ Seen + 1 \in DOMAIN trees
         /\ \E final, left, note :
              /\ Outcome(final, left, note) /\ notes' = Append(notes, note)
              /\ log' = [log EXCEPT ![Seen] = EmptyLog,
                                    ![Seen + 1] = [initial |-> IF left = Nobody THEN <<>> ELSE <<Named(final, left)>>,
                                                   entry |-> <<>>]]
  <1> USE ShapeFacts
  <1>1. Shape /\ Versions /\ Logs /\ Queued /\ Ordered /\ Convex
    BY DEF Sound
  <1>2. queue # <<>> /\ queue' = Tail(queue) /\ UNCHANGED <<files, hooks, doubtful, missed>>
    BY DEF CommitEvent
  <1>3. 1 \in DOMAIN queue /\ Head(queue) = queue[1] /\ queue[1].is = "commit" /\ queue[1].base = Seen
    <2>1. 1 \in DOMAIN queue /\ Head(queue) = queue[1] /\ (~Asks(1) => queue[1].base = Seen)
      BY <1>1, <1>2, HeadFacts
    <2> HIDE ShapeFacts
    <2>2. queue[1].is = "commit"
      BY <2>1 DEF CommitEvent
    <2> QED
      BY <2>1, <2>2 DEF Asks
  <1>4. PICK b : b = Seen
    OBVIOUS
  <1>5. PICK c : c = Seen + 1
    OBVIOUS
  <1>6. /\ b \in DOMAIN trees /\ Version(trees[b], Len(by)) /\ by \in Authors /\ LogWell(log[b], by, Free(b))
        /\ c \in DOMAIN trees /\ Version(trees[c], Len(by)) /\ log[c] = EmptyLog /\ c - 1 = b /\ b + 1 = c
        /\ b \in Nat /\ c \in Nat
    <2>1. Seen \in DOMAIN trees /\ queue[1].base + 1 \in DOMAIN trees
      BY <1>1, <1>3 DEF Queued, Asks
    <2>2. Seen \in 1 .. MaxCommits /\ Seen + 1 \in 1 .. MaxCommits /\ Seen < Seen + 1 /\ (Seen + 1) - 1 = Seen
      BY <1>1, <1>3, <2>1
    <2>3. /\ Version(trees[b], Len(by)) /\ LogWell(log[b], by, Free(b))
          /\ Version(trees[c], Len(by)) /\ log[c] = EmptyLog
      <3> HIDE ShapeFacts
      <3> QED
        BY <1>1, <1>3, <1>4, <1>5, <2>1, <2>2 DEF Versions, Logs
    <2> QED
      BY <1>1, <1>3, <1>4, <1>5, <2>1, <2>2, <2>3
  <1>7. PICK final : final = IF queue[1].contents # <<>> THEN queue[1].contents[1] ELSE trees[c]
    OBVIOUS
  <1> DEFINE va == Known(Synced(b, final))
  <1>8. PICK named : named = IF va = <<>> THEN Nobody ELSE ByNumber(va[1])
    OBVIOUS
  <1>9. PICK claims : claims = Claims(c, final, named)
    OBVIOUS
  <1>10. PICK left : left = Carried(b, final, Left(c, final, named))
    OBVIOUS
  <1>11. PICK note : note = [claims |-> claims, gaps |-> Gaps(c, claims), final |-> final]
    OBVIOUS
  <1>12. /\ notes' = Append(notes, note)
         /\ log' = [log EXCEPT ![b] = EmptyLog,
                               ![c] = [initial |-> IF left = Nobody THEN <<>> ELSE <<Named(final, left)>>,
                                       entry |-> <<>>]]
    <2> HIDE ShapeFacts
    <2>1. log[c].entry = <<>>
      BY <1>6 DEF EmptyLog
    <2>2. Head(queue).base = b /\ b + 1 = c /\ Head(queue).contents = queue[1].contents
      BY <1>3, <1>4, <1>6
    <2>3. /\ notes' = Append(notes, note)
          /\ log' = [log EXCEPT ![b] = EmptyLog,
                                ![c] = [initial |-> IF left = Nobody THEN <<>> ELSE <<Named(final, left)>>,
                                        entry |-> log[c].entry]]
      BY <1>7, <1>8, <1>9, <1>10, <1>11, <2>2, ZenonT(60) DEF CommitEvent
    <2> QED
      BY <2>1, <2>3
  <1>13. PICK free : free = Free(b) /\ free = doubtful \cup ToSet(trees[b])
    <2>1. ~(Seen < Seen)
      BY <1>1
    <2> QED
      BY <1>4, <2>1 DEF Free
  <1>14. View = Previous(log[b], b)
    BY <1>4 DEF View
  <1>20. /\ Version(final, Len(by)) /\ final \in Seq(Nat)
         /\ queue[1].contents # <<>> => final = queue[1].contents[1]
         /\ queue[1].contents = <<>> => final = trees[c]
         /\ SameOrder(trees[c], final)
         /\ \A l \in ToSet(trees[b]) : l \in ToSet(final) => l \in ToSet(trees[c])
    <2>1. CASE queue[1].contents # <<>>
      <3>1. final = queue[1].contents[1] /\ 1 \in DOMAIN queue[1].contents /\ ~Asks(1)
        <4>1. 1 \in DOMAIN queue[1].contents
          BY <1>1, <1>3, <2>1, QueueFacts
        <4> HIDE ShapeFacts
        <4> QED
          BY <1>3, <1>7, <2>1, <4>1 DEF Asks
      <3>2. Version(final, Len(by))
        BY <1>1, <1>3, <3>1 DEF Versions
      <3>3. SameOrder(trees[queue[1].base + 1], queue[1].contents[1])
        BY <1>1, <1>3, <2>1, <3>1 DEF Ordered
      <3>4. \A l \in ToSet(trees[queue[1].base]) :
              l \in ToSet(queue[1].contents[1]) => l \in ToSet(trees[queue[1].base + 1])
        BY <1>1, <1>3, <2>1, <3>1 DEF Convex
      <3>5. final \in Seq(Nat)
        BY <1>1, <3>2, LineFacts
      <3> HIDE ShapeFacts
      <3> QED
        BY <1>3, <1>4, <1>5, <2>1, <3>1, <3>2, <3>3, <3>4, <3>5
    <2>2. CASE queue[1].contents = <<>>
      <3>1. final = trees[c]
        BY <1>7, <2>2
      <3>2. SameOrder(trees[c], trees[c]) /\ trees[c] \in Seq(Nat)
        BY <1>1, <1>6, OrderOfItself
      <3> HIDE ShapeFacts
      <3> QED
        BY <1>6, <2>2, <3>1, <3>2
    <2> QED
      BY <2>1, <2>2
  <1>21. /\ \A n : n \in DOMAIN named <=> n \in DOMAIN final /\ final[n] \in DOMAIN View.names
         /\ \A n \in DOMAIN named : named[n] \in Agents /\ (named[n] = by[final[n]] \/ final[n] \in free)
    <2> HIDE ShapeFacts
    <2>1. /\ by \in Authors /\ b \in DOMAIN trees /\ Version(trees[b], Len(by))
          /\ LogWell(log[b], by, free) /\ Version(final, Len(by))
      BY <1>6, <1>13, <1>20
    <2>2. named = Numbered(b, final)
      BY <1>8 DEF Numbered
    <2>3. NumbersOf(named, final, DOMAIN Previous(log[b], b).names, free)
      BY <2>1, <2>2, NamedLines
    <2> QED
      BY <1>14, <2>3 DEF NumbersOf
  <1>22. /\ left \in Names /\ DOMAIN left \subseteq ToSet(final)
         /\ \A l \in DOMAIN left : left[l] \in Agents /\ (left[l] = by[l] \/ l \in free)
         /\ final # trees[c] => \A l \in ToSet(final) : l \in DOMAIN View.names => l \in DOMAIN left
    <2> HIDE ShapeFacts
    <2>1. NumbersOf(named, final, DOMAIN Previous(log[b], b).names, free)
      BY <1>14, <1>21 DEF NumbersOf
    <2>2. /\ by \in Authors /\ b \in DOMAIN trees /\ Version(trees[b], Len(by))
          /\ LogWell(log[b], by, free) /\ Version(final, Len(by))
          /\ left = Carried(b, final, Left(b + 1, final, named))
      BY <1>6, <1>10, <1>13, <1>20
    <2>3. NamesLeft(left, b, final, DOMAIN Previous(log[b], b).names, free)
      BY <2>1, <2>2, CarriedNames
    <2> QED
      BY <1>6, <1>14, <2>3 DEF NamesLeft
  <1>23. /\ \A x \in claims : x \in Nat \X Agents /\ x[1] \in Committed(c)
         /\ ToSet(trees[c]) \subseteq ToSet(final) =>
              /\ \A x \in claims : by[trees[c][x[1]]] = x[2] \/ trees[c][x[1]] \in free
              /\ \A n \in Committed(c) : trees[c][n] \in (DOMAIN View.names) \ free => <<n, by[trees[c][n]]>> \in claims
    <2> HIDE ShapeFacts
    <2>1. PICK known : known = DOMAIN View.names
      OBVIOUS
    <2>2. NumbersOf(named, final, known, free)
      BY <1>21, <2>1 DEF NumbersOf
    <2>3. /\ \A x \in claims : x \in Nat \X Agents /\ x[1] \in Committed(c)
          /\ ToSet(trees[c]) \subseteq ToSet(final) /\ SameOrder(trees[c], final) =>
               /\ \A x \in claims : by[trees[c][x[1]]] = x[2] \/ trees[c][x[1]] \in free
               /\ \A n \in Committed(c) : trees[c][n] \in known \ free => <<n, by[trees[c][n]]>> \in claims
      BY <1>6, <1>9, <1>20, <2>2, ClaimedLines
    <2> QED
      BY <1>20, <2>1, <2>3
  <1>24. \A n \in Committed(c) : trees[c][n] \notin ToSet(trees[b])
    BY <1>6 DEF Committed
  <1>25. note \in Note /\ note.claims = claims /\ note.final = final
    <2>1. claims \in SUBSET (Nat \X Agents)
      BY <1>23
    <2>2. Gaps(c, claims) \subseteq Nat \X Agents
      <3>1. Committed(c) \subseteq Nat
        <4>1. DOMAIN trees[c] \subseteq Nat
          <5>1. trees[c] \in Seq(Nat)
            BY <1>1, <1>6
          <5> QED
            BY <5>1, LenProperties
        <4> QED
          BY <4>1 DEF Committed, Lines
      <3>2. Gaps(c, claims) \subseteq Committed(c) \X Agents
        <4> HIDE ShapeFacts
        <4> QED
          BY DEF Gaps
      <3> QED
        BY <3>1, <3>2
    <2> HIDE ShapeFacts
    <2> QED
      BY <1>11, <1>20, <2>1, <2>2 DEF Note
  <1>26. Outcome(final, left, note)
    <2> HIDE ShapeFacts
    <2>1. \A l \in DOMAIN left : left[l] \in Agents /\ (left[l] = by[l] \/ l \in doubtful \cup ToSet(trees[c]))
      BY <1>13, <1>20, <1>22
    <2>2. ToSet(trees[c]) \subseteq ToSet(final) =>
            /\ \A x \in claims : by[trees[c][x[1]]] = x[2] \/ trees[c][x[1]] \in doubtful
            /\ \A n \in Committed(c) : trees[c][n] \in (DOMAIN View.names) \ doubtful => <<n, by[trees[c][n]]>> \in claims
      <3>1. ASSUME ToSet(trees[c]) \subseteq ToSet(final), NEW x \in claims
            PROVE  by[trees[c][x[1]]] = x[2] \/ trees[c][x[1]] \in doubtful
        BY <1>13, <1>23, <1>24, <3>1
      <3>2. ASSUME ToSet(trees[c]) \subseteq ToSet(final), NEW n \in Committed(c),
                   trees[c][n] \in (DOMAIN View.names) \ doubtful
            PROVE  <<n, by[trees[c][n]]>> \in claims
        BY <1>13, <1>23, <1>24, <3>2
      <3> QED
        BY <3>1, <3>2
    <2> QED
      BY <1>5, <1>20, <1>22, <1>23, <1>25, <2>1, <2>2 DEF Outcome
  <1> HIDE ShapeFacts
  <1>27. log' = [log EXCEPT ![Seen] = EmptyLog,
                            ![Seen + 1] = [initial |-> IF left = Nobody THEN <<>> ELSE <<Named(final, left)>>,
                                           entry |-> <<>>]]
    BY <1>4, <1>5, <1>12
  <1>28. Seen \in DOMAIN trees /\ Seen + 1 \in DOMAIN trees
    BY <1>4, <1>5, <1>6
  <1>29. \E f, m, n :
           /\ Outcome(f, m, n) /\ notes' = Append(notes, n)
           /\ log' = [log EXCEPT ![Seen] = EmptyLog,
                                 ![Seen + 1] = [initial |-> IF m = Nobody THEN <<>> ELSE <<Named(f, m)>>,
                                                entry |-> <<>>]]
    BY <1>12, <1>26, <1>27
  <1> QED
    BY <1>2, <1>3, <1>28, <1>29

\* What is left is the next log.
LEMMA LogLeft ==
  ASSUME Sound, Seen \in DOMAIN trees, Seen + 1 \in DOMAIN trees, trees' = trees, by' = by,
         NEW final, NEW left, NEW note, Outcome(final, left, note), notes' = Append(notes, note),
         log' = [log EXCEPT ![Seen] = EmptyLog,
                            ![Seen + 1] = [initial |-> IF left = Nobody THEN <<>> ELSE <<Named(final, left)>>,
                                           entry |-> <<>>]]
  PROVE  /\ notes' \in Seq(Note) /\ Len(notes') = Seen /\ DOMAIN notes' = 1 .. Seen /\ DOMAIN notes = 1 .. Seen - 1
         /\ (\A k \in DOMAIN notes : notes'[k] = notes[k]) /\ notes'[Seen] = note
         /\ Seen' = Seen + 1
         /\ log' \in [1 .. MaxCommits -> WorkingLog] /\ log'[Seen] = EmptyLog
         /\ LogWell(log'[Seen + 1], by, doubtful \cup ToSet(trees[Seen + 1])) /\ LogWell(EmptyLog, by, Nat)
         /\ \A d \in 1 .. MaxCommits : d # Seen /\ d # Seen + 1 => log'[d] = log[d]
         /\ View' = IF left = Nobody THEN Named(trees[Seen + 1], Nobody) ELSE Named(final, left)
  <1> USE ShapeFacts
  <1>1. Shape /\ Versions
    BY DEF Sound
  <1>2. PICK b, c : b = Seen /\ c = Seen + 1
    OBVIOUS
  <1>3. b \in Nat /\ c \in Nat /\ b # c /\ b \in 1 .. MaxCommits /\ c \in 1 .. MaxCommits
    BY <1>1, <1>2
  <1>4. /\ notes' \in Seq(Note) /\ Len(notes') = Seen /\ DOMAIN notes' = 1 .. Seen /\ DOMAIN notes = 1 .. Seen - 1
        /\ (\A k \in DOMAIN notes : notes'[k] = notes[k]) /\ notes'[Seen] = note
    <2>1. notes \in Seq(Note) /\ note \in Note /\ Seen = Len(notes) + 1
      BY <1>1 DEF Outcome, Seen
    <2> HIDE ShapeFacts
    <2>2. /\ notes' \in Seq(Note) /\ Len(notes') = Len(notes) + 1 /\ DOMAIN notes' = 1 .. Len(notes) + 1
          /\ Len(notes) \in Nat /\ DOMAIN notes = 1 .. Len(notes)
          /\ (\A k \in DOMAIN notes : notes'[k] = notes[k]) /\ notes'[Len(notes) + 1] = note
      BY <2>1, AppendFacts
    <2>3. Seen - 1 = Len(notes)
      BY <2>1, <2>2
    <2> QED
      BY <2>1, <2>2, <2>3
  <1>5. Seen' = c
    BY <1>2, <1>4 DEF Seen
  <1> DEFINE next == [initial |-> IF left = Nobody THEN <<>> ELSE <<Named(final, left)>>, entry |-> <<>>]
             free == doubtful \cup ToSet(trees[c])
  <1>6. <<>> \in Seq(NamedContent) /\ ToSet(<<>>) = {}
    <2> HIDE ShapeFacts
    <2> QED
      BY DEF ToSet
  <1>7. EmptyLog \in WorkingLog /\ LogWell(EmptyLog, by, Nat)
    <2> HIDE ShapeFacts
    <2> QED
      BY <1>6 DEF EmptyLog, WorkingLog, LogWell
  <1>8. /\ next \in WorkingLog /\ LogWell(next, by, free)
        /\ Previous(next, c) = IF left = Nobody THEN Named(trees[c], Nobody) ELSE Named(final, left)
    <2> HIDE ShapeFacts
    <2>1. CASE left = Nobody
      <3>1. next.initial = <<>> /\ next.entry = <<>>
        BY <2>1
      <3>2. next \in WorkingLog
        BY <1>6, <3>1 DEF WorkingLog
      <3> HIDE DEF next
      <3> QED
        BY <1>6, <2>1, <3>1, <3>2 DEF LogWell, Previous
    <2>2. CASE left # Nobody
      <3> DEFINE x == [content |-> final, names |-> left]
      <3>1. next.initial = <<x>> /\ next.entry = <<>> /\ x = Named(final, left)
        BY <2>2 DEF Named
      <3>2. x \in NamedContent /\ Well(x, by, free) /\ x.names = left
        BY <1>2 DEF NamedContent, Well, Outcome
      <3> HIDE DEF x
      <3>3. <<x>> \in Seq(NamedContent) /\ <<x>> # <<>> /\ <<x>>[1] = x /\ ToSet(<<x>>) = {x}
        BY <3>2, OneFacts
      <3>4. next \in WorkingLog
        BY <1>6, <3>1, <3>3 DEF WorkingLog
      <3> HIDE DEF next
      <3> QED
        BY <1>6, <2>2, <3>1, <3>2, <3>3, <3>4 DEF LogWell, Previous
    <2> QED
      BY <2>1, <2>2
  <1> HIDE DEF next
  <1>9. /\ log' \in [1 .. MaxCommits -> WorkingLog] /\ log'[c] = next /\ log'[b] = EmptyLog
        /\ \A d \in 1 .. MaxCommits : d # c /\ d # b => log'[d] = log[d]
    <2>1. log \in [1 .. MaxCommits -> WorkingLog]
      BY <1>1 DEF Shape
    <2>2. log' = [log EXCEPT ![b] = EmptyLog, ![c] = next]
      BY <1>2 DEF next
    <2> HIDE ShapeFacts
    <2> QED
      BY <1>3, <1>7, <1>8, <2>1, <2>2
  <1>10. View' = Previous(next, c)
    <2>1. View' = Previous(log'[Seen'], Seen')
      BY DEF View, Previous, Named
    <2> HIDE ShapeFacts
    <2> QED
      BY <1>5, <1>9, <2>1
  <1> HIDE ShapeFacts
  <1> QED
    BY <1>2, <1>4, <1>5, <1>7, <1>8, <1>9, <1>10

LEMMA CommitEventIsSound ==
  ASSUME Sound, CommitEvent
  PROVE  Sound'
  <1> USE ShapeFacts
  <1>1. Shape /\ Versions /\ Logs /\ Queued /\ \A k \in DOMAIN notes : NoteRight(k)
    BY DEF Sound
  <1>2. /\ queue # <<>> /\ queue' = Tail(queue) /\ UNCHANGED <<files, hooks, doubtful, missed>>
        /\ 1 \in DOMAIN queue /\ queue[1].is = "commit"
        /\ Seen \in DOMAIN trees /\ Seen + 1 \in DOMAIN trees
        /\ \E final, left, note :
             /\ Outcome(final, left, note) /\ notes' = Append(notes, note)
             /\ log' = [log EXCEPT ![Seen] = EmptyLog,
                                   ![Seen + 1] = [initial |-> IF left = Nobody THEN <<>> ELSE <<Named(final, left)>>,
                                                  entry |-> <<>>]]
    BY EventFacts
  <1>3. PICK final, left, note :
          /\ Outcome(final, left, note) /\ notes' = Append(notes, note)
          /\ log' = [log EXCEPT ![Seen] = EmptyLog,
                                ![Seen + 1] = [initial |-> IF left = Nobody THEN <<>> ELSE <<Named(final, left)>>,
                                               entry |-> <<>>]]
    BY <1>2
  <1>4. /\ work' = work /\ index' = index /\ trees' = trees /\ modified' = modified /\ deletes' = deletes
        /\ by' = by /\ edits' = edits /\ edit' = edit /\ doubtful' = doubtful /\ missed' = missed
    BY <1>2 DEF files, hooks
  <1>5. /\ notes' \in Seq(Note) /\ Len(notes') = Seen /\ DOMAIN notes' = 1 .. Seen /\ DOMAIN notes = 1 .. Seen - 1
        /\ (\A k \in DOMAIN notes : notes'[k] = notes[k]) /\ notes'[Seen] = note
        /\ Seen' = Seen + 1
        /\ log' \in [1 .. MaxCommits -> WorkingLog] /\ log'[Seen] = EmptyLog
        /\ LogWell(log'[Seen + 1], by, doubtful \cup ToSet(trees[Seen + 1])) /\ LogWell(EmptyLog, by, Nat)
        /\ \A d \in 1 .. MaxCommits : d # Seen /\ d # Seen + 1 => log'[d] = log[d]
    <2> HIDE ShapeFacts
    <2> QED
      BY <1>2, <1>3, <1>4, LogLeft
  <1>6. Versions' /\ Queued' /\ Ordered' /\ Convex' /\ Hooks' /\ Kept' /\ Around'
    <2>1. ~Asks(1)
      BY <1>2 DEF Asks
    <2> HIDE ShapeFacts
    <2> QED
      BY <1>2, <1>5, <2>1, PoppedKeeps
  <1>7. Shape'
    <2>1. queue' \in Seq(Element)
      BY <1>1, <1>2, TailElements
    <2> QED
      BY <1>1, <1>4, <1>5, <2>1 DEF Shape
  <1>8. Logs'
    <2>0. Seen \in Nat /\ Seen' = Seen + 1
      BY <1>1, <1>5
    <2>1. ASSUME NEW d \in 1 .. MaxCommits
          PROVE  Free(d)' = IF d < Seen + 1 THEN Nat ELSE doubtful \cup ToSet(trees[Seen + 1])
      BY <1>4, <1>5 DEF Free
    <2>2. ASSUME NEW d \in 1 .. MaxCommits
          PROVE  LogWell(log'[d], by, Free(d)') /\ (Seen + 1 < d => log'[d] = EmptyLog)
      <3>1. CASE d = Seen
        <4>1. Free(d)' = Nat /\ ~(Seen + 1 < d)
          BY <2>0, <2>1, <3>1
        <4> HIDE ShapeFacts
        <4> QED
          BY <1>5, <3>1, <4>1
      <3>2. CASE d = Seen + 1
        <4>1. Free(d)' = doubtful \cup ToSet(trees[Seen + 1]) /\ ~(Seen + 1 < d)
          BY <2>0, <2>1, <3>2
        <4> HIDE ShapeFacts
        <4> QED
          BY <1>5, <3>2, <4>1
      <3>3. CASE d < Seen
        <4>1. Free(d)' = Nat /\ Free(d) = Nat /\ ~(Seen + 1 < d) /\ log'[d] = log[d]
          BY <1>5, <2>0, <2>1, <3>3 DEF Free
        <4> HIDE ShapeFacts
        <4> QED
          BY <1>1, <4>1 DEF Logs
      <3>4. CASE d > Seen + 1
        <4>0. Seen < d /\ d # Seen /\ d # Seen + 1
          BY <2>0, <3>4
        <4>1. log'[d] = EmptyLog
          <5> HIDE ShapeFacts
          <5> QED
            BY <1>1, <1>5, <4>0 DEF Logs
        <4>2. LogWell(EmptyLog, by, Free(d)')
          <5>1. EmptyLog \in WorkingLog /\ ToSet(EmptyLog.initial) \cup ToSet(EmptyLog.entry) = {}
            <6>1. EmptyLog \in WorkingLog
              BY <1>5 DEF LogWell
            <6> HIDE ShapeFacts
            <6> QED
              BY <6>1 DEF EmptyLog, ToSet
          <5> HIDE ShapeFacts
          <5> QED
            BY <5>1 DEF LogWell
        <4> HIDE ShapeFacts
        <4> QED
          BY <4>1, <4>2
      <3>5. d = Seen \/ d = Seen + 1 \/ d < Seen \/ d > Seen + 1
        BY <2>0
      <3> HIDE ShapeFacts
      <3> QED
        BY <3>1, <3>2, <3>3, <3>4, <3>5
    <2> HIDE ShapeFacts
    <2> QED
      BY <1>4, <2>0, <2>2 DEF Logs
  <1>9. (\A k \in DOMAIN notes : NoteRight(k))'
    <2> SUFFICES ASSUME NEW k \in DOMAIN notes'
                 PROVE  NoteRight(k)'
      OBVIOUS
    <2>1. CASE k # Seen
      <3>1. k \in DOMAIN notes /\ k \in Nat \ {0} /\ notes'[k] = notes[k]
        BY <1>1, <1>5, <2>1
      <3> QED
        BY <1>1, <1>4, <3>1, NoteKept
    <2>2. CASE k = Seen
      <3>1. notes'[Seen] = note /\ note.final = final /\ Outcome(final, left, note)
        BY <1>3, <1>5 DEF Outcome
      <3> HIDE ShapeFacts
      <3>2. Intact(k)' => ToSet(trees[Seen + 1]) \subseteq ToSet(final)
        BY <1>4, <2>2, <3>1 DEF Intact
      <3>3. Committed(k + 1)' = Committed(k + 1)
        BY <1>4 DEF Committed, Lines
      <3>4. k + 1 \in DOMAIN trees' /\ trees'[k + 1] = trees[k + 1] /\ notes'[k] = note
        BY <1>2, <1>4, <2>2, <3>1
      <3>5. \A x \in note.claims : x \in Nat \X Agents /\ x[1] \in Committed(k + 1)
        BY <2>2, <3>1 DEF Outcome
      <3>6. Intact(k)' => \A x \in note.claims : by[trees[k + 1][x[1]]] = x[2] \/ trees[k + 1][x[1]] \in doubtful
        BY <2>2, <3>1, <3>2 DEF Outcome
      <3> QED
        BY <1>4, <3>3, <3>4, <3>5, <3>6 DEF NoteRight
    <2> QED
      BY <2>1, <2>2
  <1> QED
    BY <1>6, <1>7, <1>8, <1>9 DEF Sound

(* All steps *)

LEMMA InitIsSound ==
  ASSUME Init
  PROVE  Sound
  <1>1. /\ MaxLines \in Nat /\ MaxDeletes \in Nat /\ MaxEdits \in Nat /\ MaxCommits \in Nat \ {0}
        /\ Base \in Seq(Nat) /\ Len(Base) <= MaxLines /\ \A l \in DOMAIN Base : Base[l] = l
        /\ Human \notin Agents
    BY CommitAssumption DEF CommitAssumption
  <1>2. /\ work = Base /\ index = Base /\ trees = <<Base>> /\ modified = 0 /\ deletes = 0 /\ edits = 0
        /\ edit = [a \in Agents |-> Idle]
        /\ queue = <<>> /\ log = [c \in 1 .. MaxCommits |-> EmptyLog] /\ notes = <<>>
        /\ by = [l \in DOMAIN Base |-> Human] /\ doubtful = {} /\ missed = {}
    BY DEF Init
  <1>3. /\ Len(Base) \in Nat /\ DOMAIN Base = 1 .. Len(Base) /\ Base \in [1 .. Len(Base) -> Nat]
    BY <1>1, LenProperties
  <1>4. /\ by \in Authors /\ Len(by) = Len(Base) /\ DOMAIN by = 1 .. Len(Base)
        /\ \A l \in DOMAIN by : by[l] = Human
    <2>1. by \in [1 .. Len(Base) -> Agents \cup {Human}]
      BY <1>2, <1>3
    <2>2. by \in Authors
      BY <1>3, <2>1, SeqDef DEF Authors
    <2> QED
      BY <1>2, <1>3, <2>1, <2>2, LenProperties DEF Authors
  <1>5. Version(Base, Len(by)) /\ Version(<<>>, Len(by))
    <2>1. Base \in [1 .. Len(Base) -> 1 .. Len(Base)]
      BY <1>1, <1>3
    <2>2. Base \in Seq(1 .. Len(Base))
      BY <1>3, <2>1, SeqDef
    <2>3. Once(Base) /\ Once(<<>>)
      BY <1>1 DEF Once
    <2> QED
      BY <1>3, <1>4, <2>2, <2>3 DEF Version
  <1>6. /\ trees \in Seq(Seq(Nat)) /\ Len(trees) = 1 /\ DOMAIN trees = {1} /\ trees[1] = Base
        /\ queue \in Seq(Element) /\ DOMAIN queue = {}
        /\ notes \in Seq(Note) /\ DOMAIN notes = {} /\ Len(notes) = 0 /\ Seen = 1
    BY <1>1, <1>2 DEF Seen
  <1>7. EmptyLog \in WorkingLog /\ \A free : LogWell(EmptyLog, by, free)
    <2>1. <<>> \in Seq(NamedContent) /\ ToSet(<<>>) = {}
      BY DEF ToSet
    <2> QED
      BY <2>1 DEF EmptyLog, WorkingLog, LogWell
  <1>8. log \in [1 .. MaxCommits -> WorkingLog] /\ \A c \in 1 .. MaxCommits : log[c] = EmptyLog
    BY <1>2, <1>7
  <1>9. /\ edit \in [Agents -> Hook]
        /\ \A a \in Agents : edit[a].at = "idle" /\ edit[a].base = 1 /\ edit[a].content = <<>> /\ edit[a].lines = {}
    BY <1>2 DEF Idle, Hook
  <1>11. Shape
    <2>1. Len(by) <= MaxLines /\ Len(trees) <= MaxCommits
      BY <1>1, <1>3, <1>4, <1>6
    <2>2. modified \in 0 .. Len(trees) /\ deletes \in 0 .. MaxDeletes /\ edits \in 0 .. MaxEdits
      BY <1>1, <1>2, <1>6
    <2>3. doubtful \subseteq DOMAIN by /\ missed \subseteq DOMAIN by
      BY <1>2
    <2> QED
      BY <1>4, <1>6, <1>8, <1>9, <2>1, <2>2, <2>3 DEF Shape
  <1>12. Versions
    BY <1>2, <1>5, <1>6, <1>9 DEF Versions
  <1>13. Logs
    BY <1>7, <1>8 DEF Logs
  <1>14. Queued
    BY <1>6, <1>9 DEF Queued
  <1>15. Ordered
    <2>1. SameOrder(Base, Base)
      BY <1>3, <1>4, <1>5, OrderOfItself
    <2> QED
      BY <1>2, <1>6, <2>1 DEF Ordered
  <1>16. Convex
    BY <1>2, <1>6 DEF Convex
  <1>17. Hooks /\ Kept /\ Around
    BY <1>6, <1>9 DEF Hooks, Kept, Around, Open
  <1> QED
    BY <1>6, <1>11, <1>12, <1>13, <1>14, <1>15, <1>16, <1>17 DEF Sound

LEMMA StepIsSound ==
  ASSUME Sound, [Next]_vars
  PROVE  Sound'
  <1>1. CASE UNCHANGED vars
    <2>1. /\ Shape' = Shape /\ Versions' = Versions /\ Ordered' = Ordered /\ Convex' = Convex /\ Hooks' = Hooks
          /\ Logs' = Logs /\ Queued' = Queued
      BY <1>1 DEF vars, Shape, Versions, Ordered, Convex, Hooks, Open, Logs, Free, Seen, Queued, Asks
    <2>2. /\ \A k : Live(k)' = Live(k)
          /\ \A k, l : Prior(k, l)' = Prior(k, l)
          /\ \A a, l : Other(a, l)' = Other(a, l)
      BY <1>1 DEF vars, Live, Seen, Asks, Prior, View, Previous, Other, HEAD
    <2>3. Kept' = Kept /\ Around' = Around
      BY <1>1, <2>2 DEF vars, Kept, Around, Asks, Open, HEAD
    <2>4. \A k : NoteRight(k)' = NoteRight(k)
      BY <1>1 DEF vars, NoteRight, Committed, Lines, Intact
    <2> QED
      BY <1>1, <2>1, <2>3, <2>4 DEF vars, Sound
  <1>2. CASE HumanWrites
    BY <1>2, HumanWritesIsSound
  <1>3. ASSUME NEW a \in Agents, ReadHead(a) \/ ReadFile(a) \/ Request(a) \/ AgentWrites(a)
        PROVE  Sound'
    BY <1>3, ReadHeadIsSound, ReadFileIsSound, RequestIsSound, AgentWritesIsSound
  <1>4. CASE Stage
    BY <1>4, StageIsSound
  <1>5. CASE Commit
    BY <1>5, CommitIsSound
  <1>6. ASSUME NEW i \in DOMAIN queue, CaptureCheck(i) \/ CaptureSkip(i) \/ CaptureRead(i)
        PROVE  Sound'
    BY <1>6, SeeingIsSound
  <1>7. CASE Checkpoint
    BY <1>7, CheckpointIsSound
  <1>8. CASE CommitEvent
    BY <1>8, CommitEventIsSound
  <1> QED
    BY <1>1, <1>2, <1>3, <1>4, <1>5, <1>6, <1>7, <1>8 DEF Next

----------------------------------------------------------------------------
(* The inductive invariant: no line is lost *)

\* An agent's checkpoint is still to come, behind the j-th element.
Pending(j, l) ==
  \/ \E k \in DOMAIN queue : j < k /\ Asks(k) /\ l \in queue[k].lines
  \/ \E a \in Agents : l \in edit[a].lines

\* A commit behind the j-th element has the line, or one made later may.
Needed(j, l) ==
  \/ l \in ToSet(work)
  \/ \E k \in DOMAIN queue : j < k /\ ~Asks(k) /\ l \in ToSet(trees[queue[k].base + 1])

\* Nothing up to the c-th commit or before the n-th element has the line.
Unknown(l, c, n) ==
  /\ l \notin ToSet(View.content)
  /\ \A d \in DOMAIN trees : d <= c => l \notin ToSet(trees[d])
  /\ \A j \in DOMAIN queue : j < n =>
       /\ queue[j].contents # <<>> => l \notin ToSet(queue[j].contents[1])
       /\ ~Asks(j) => l \notin queue[j].lines

\* The lines of an edit are new to the checkpoint after it, which is in time.
AskedIsNew ==
  /\ \A k \in DOMAIN queue : Asks(k) => \A l \in queue[k].lines : Followed(l) =>
       by[l] = queue[k].author /\ Live(k) /\ Unknown(l, queue[k].base, k)
  /\ \A a \in Agents : \A l \in edit[a].lines : Followed(l) =>
       /\ by[l] = a /\ Unknown(l, Len(trees), Len(queue) + 1)
       /\ edit[a].at \in {"post_head", "post_read"} => edit[a].base = Len(trees)

\* What was written after a commit the daemon has not seen, or has not yet read
\* the worktree for, is still to be asked for.
LaterIsPending ==
  \A j \in DOMAIN queue : queue[j].is \in {"unseen", "checked"} =>
    /\ queue[j].is = "unseen" => queue[j].lines = DOMAIN by \/ queue[j].base < modified
    /\ \A l \in DOMAIN by : l \notin queue[j].lines /\ Followed(l) => Pending(j, l)

\* What the daemon will take for the worktree at the commit.
Final(k) == IF queue[k].contents = <<>> THEN trees[queue[k].base + 1] ELSE queue[k].contents[1]

\* It has every line there was, and so have the contents of checkpoints.
Snapped ==
  /\ \A j \in DOMAIN queue : queue[j].is = "commit" =>
       \A l \in DOMAIN by : Followed(l) =>
         l \in ToSet(Final(j)) \/ l \in ToSet(trees[queue[j].base + 1]) \/ Pending(j, l)
  /\ \A j \in DOMAIN queue : Asks(j) /\ Live(j) =>
       \A l \in DOMAIN by : Followed(l) /\ Needed(j, l) => l \in ToSet(queue[j].contents[1]) \/ Pending(j, l)

\* The log in use names every line that is needed and not in its commit.
KnownLines ==
  \A l \in DOMAIN by : Followed(l) /\ Needed(0, l) =>
    l \in DOMAIN View.names \/ l \in ToSet(trees[Seen]) \/ Pending(0, l)

NoteFull(k) ==
  Intact(k) => \A n \in Committed(k + 1) :
    Followed(trees[k + 1][n]) => <<n, by[trees[k + 1][n]]>> \in notes[k].claims

Complete ==
  /\ AskedIsNew /\ LaterIsPending /\ Snapped /\ KnownLines
  /\ \A k \in DOMAIN notes : NoteFull(k)

\* No line of an agent comes to be followed that was not.
Past ==
  /\ \A l \in DOMAIN by : l \in DOMAIN by' /\ by'[l] = by[l]
  /\ doubtful \subseteq doubtful' /\ missed \subseteq missed'

LEMMA PastFollowed ==
  ASSUME Past
  PROVE  \A l \in DOMAIN by : Followed(l)' => Followed(l)
  BY DEF Past, Followed

LEMMA NoteFullKept ==
  ASSUME Shape, Versions, Past, NEW k \in Nat \ {0}, NoteRight(k), NoteFull(k),
         notes'[k] = notes[k],
         \A c \in DOMAIN trees : c \in DOMAIN trees' /\ trees'[c] = trees[c]
  PROVE  NoteFull(k)'
  <1>1. k + 1 \in DOMAIN trees /\ k \in DOMAIN trees
    <2>1. k + 1 \in DOMAIN trees /\ DOMAIN trees = 1 .. Len(trees) /\ Len(trees) \in Nat
      BY ShapeFacts DEF NoteRight
    <2> QED
      BY <2>1
  <1>2. trees'[k + 1] = trees[k + 1] /\ trees'[k] = trees[k] /\ (k + 1) - 1 = k
    BY <1>1
  <1>3. Committed(k + 1)' = Committed(k + 1) /\ (Intact(k)' <=> Intact(k))
    BY <1>2 DEF Committed, Lines, Intact
  <1>4. \A n \in Committed(k + 1) : trees[k + 1][n] \in DOMAIN by
    <2>1. ToSet(trees[k + 1]) \subseteq DOMAIN by
      BY <1>1, LineFacts
    <2>2. \A n \in DOMAIN trees[k + 1] : trees[k + 1][n] \in ToSet(trees[k + 1])
      BY DEF ToSet
    <2> QED
      BY <2>1, <2>2 DEF Committed, Lines
  <1>5. \A l \in DOMAIN by : by'[l] = by[l] /\ (Followed(l)' => Followed(l))
    BY PastFollowed DEF Past
  <1> QED
    BY <1>2, <1>3, <1>4, <1>5 DEF NoteFull

LEMMA ViewFacts ==
  ASSUME Shape, Versions, Logs, Queued
  PROVE  /\ Seen \in DOMAIN trees /\ LogWell(log[Seen], by, Free(Seen)) /\ Version(trees[Seen], Len(by))
         /\ ToSet(View.content) \subseteq DOMAIN by /\ DOMAIN View.names \subseteq DOMAIN by
  <1>1. Seen \in DOMAIN trees /\ DOMAIN trees \subseteq 1 .. MaxCommits /\ by \in Authors
    BY ShapeFacts DEF Queued
  <1>2. LogWell(log[Seen], by, Free(Seen)) /\ Version(trees[Seen], Len(by))
    BY <1>1 DEF Logs, Versions
  <1>3. Well(View, by, Free(Seen))
    BY <1>1, <1>2, PreviousFacts DEF View
  <1> QED
    BY <1>1, <1>2, <1>3, WellFacts

\* What is not written yet is unknown.
LEMMA UnwrittenIsUnknown ==
  ASSUME Shape, Versions, Logs, Queued, NEW l, l \notin DOMAIN by, NEW c, NEW n
  PROVE  Unknown(l, c, n)
  <1>1. l \notin ToSet(View.content)
    BY ViewFacts
  <1>2. \A d \in DOMAIN trees : l \notin ToSet(trees[d])
    BY LineFacts
  <1>3. ASSUME NEW j \in DOMAIN queue
        PROVE  /\ queue[j].contents # <<>> => l \notin ToSet(queue[j].contents[1])
               /\ l \notin queue[j].lines
    <2>1. queue[j].contents # <<>> => 1 \in DOMAIN queue[j].contents
      BY QueueFacts
    <2>2. \A s \in DOMAIN queue[j].contents : ToSet(queue[j].contents[s]) \subseteq DOMAIN by
      BY LineFacts
    <2>3. queue[j].lines \subseteq DOMAIN by
      BY DEF Versions
    <2> QED
      BY <2>1, <2>2, <2>3
  <1> QED
    BY <1>1, <1>2, <1>3 DEF Unknown

\* A step of the people, the agents or their hooks that asks for nothing.
LEMMA QuietKeeps ==
  ASSUME Sound, Complete, Past, UNCHANGED <<trees, queue, log, notes>>, NEW H, H = Len(trees),
         \A l \in DOMAIN by' : l \in DOMAIN by \/ by'[l] \notin Agents \/ \E a \in Agents : l \in edit'[a].lines,
         \A a \in Agents : \A l \in edit[a].lines : l \in edit'[a].lines,
         \A a \in Agents : \A l \in edit'[a].lines :
           l \in edit[a].lines \/ (l \notin DOMAIN by /\ by'[l] = a /\ edit'[a].at = "editing"),
         \A a \in Agents : edit'[a].at \in {"post_head", "post_read"} =>
           edit'[a].base = H \/ (edit[a].at \in {"post_head", "post_read"} /\ edit'[a].base = edit[a].base),
         \A l \in ToSet(work') : l \in ToSet(work) \/ l \notin DOMAIN by,
         (by' = by /\ modified' = modified) \/ modified' = H
  PROVE  Complete'
  <1>1. /\ Shape /\ Versions /\ Logs /\ Queued /\ AskedIsNew /\ LaterIsPending /\ Snapped /\ KnownLines
        /\ \A k \in DOMAIN notes : NoteRight(k) /\ NoteFull(k)
    BY DEF Sound, Complete
  <1>2. trees' = trees /\ queue' = queue /\ log' = log /\ notes' = notes
    OBVIOUS
  <1>3. \A l \in DOMAIN by : l \in DOMAIN by' /\ by'[l] = by[l] /\ (Followed(l)' => Followed(l))
    BY PastFollowed DEF Past
  <1>4. /\ Seen' = Seen /\ View' = View
        /\ \A k : (Asks(k)' <=> Asks(k)) /\ Final(k)' = Final(k)
    BY <1>2 DEF Seen, View, Previous, Asks, Final
  <1>5. \A k : Live(k)' <=> Live(k)
    BY <1>2, <1>4 DEF Live
  <1>6. \A j, l : Pending(j, l) => Pending(j, l)'
    BY <1>2, <1>4 DEF Pending
  <1>7. ASSUME NEW l \in DOMAIN by', l \notin DOMAIN by, Followed(l)'
        PROVE  \A j : Pending(j, l)'
    <2>1. by'[l] \in Agents
      BY <1>7 DEF Followed
    <2>2. \E a \in Agents : l \in edit'[a].lines
      BY <1>7, <2>1
    <2> QED
      BY <2>2 DEF Pending
  <1>8. \A l \in DOMAIN by : \A j : Needed(j, l)' => Needed(j, l)
    BY <1>2, <1>4 DEF Needed
  <1>9. \A l, c, n : Unknown(l, c, n) => Unknown(l, c, n)'
    BY <1>2, <1>4 DEF Unknown
  <1>10. AskedIsNew'
    <2>1. ASSUME NEW k \in DOMAIN queue, Asks(k), NEW l \in queue[k].lines, Followed(l)'
          PROVE  by'[l] = queue[k].author /\ Live(k) /\ Unknown(l, queue[k].base, k)
      <3>1. l \in DOMAIN by
        BY <1>1, <2>1 DEF Versions
      <3> QED
        BY <1>1, <1>3, <2>1, <3>1 DEF AskedIsNew
    <2>2. ASSUME NEW a \in Agents, NEW l \in edit'[a].lines, Followed(l)'
          PROVE  /\ by'[l] = a /\ Unknown(l, H, Len(queue) + 1)
                 /\ edit'[a].at \in {"post_head", "post_read"} => edit'[a].base = H
      <3>1. CASE l \in edit[a].lines
        <4>1. l \in DOMAIN by
          BY <1>1, <3>1 DEF Versions
        <4>2. /\ by[l] = a /\ Unknown(l, H, Len(queue) + 1)
              /\ edit[a].at \in {"post_head", "post_read"} => edit[a].base = H
          BY <1>1, <1>3, <2>2, <3>1, <4>1 DEF AskedIsNew
        <4> QED
          BY <1>3, <4>1, <4>2
      <3>2. CASE l \notin edit[a].lines
        <4>1. l \notin DOMAIN by /\ by'[l] = a /\ edit'[a].at = "editing"
          BY <3>2
        <4>2. Unknown(l, H, Len(queue) + 1)
          BY <1>1, <4>1, UnwrittenIsUnknown
        <4> QED
          BY <4>1, <4>2
      <3> QED
        BY <3>1, <3>2
    <2>3. Len(trees') = H /\ Len(queue') = Len(queue)
      BY <1>2
    <2>4. ASSUME NEW k \in DOMAIN queue', Asks(k)', NEW l \in queue'[k].lines, Followed(l)'
          PROVE  by'[l] = queue'[k].author /\ Live(k)' /\ Unknown(l, queue[k].base, k)'
      BY <1>2, <1>4, <1>5, <1>9, <2>1, <2>4
    <2>5. ASSUME NEW a \in Agents, NEW l \in edit'[a].lines, Followed(l)'
          PROVE  /\ by'[l] = a /\ Unknown(l, Len(trees), Len(queue) + 1)'
                 /\ edit'[a].at \in {"post_head", "post_read"} => edit'[a].base = Len(trees')
      <3>1. PICK m : m = Len(queue) + 1
        OBVIOUS
      <3>2. Unknown(l, H, m)'
        BY <1>9, <2>2, <2>5, <3>1
      <3>3. Unknown(l, Len(trees), Len(queue) + 1)' <=> Unknown(l, H, m)'
        BY <2>3, <3>1 DEF Unknown
      <3> QED
        BY <2>2, <2>3, <2>5, <3>2, <3>3
    <2> QED
      BY <2>4, <2>5 DEF AskedIsNew
  <1>11. LaterIsPending'
    <2> SUFFICES ASSUME NEW j \in DOMAIN queue, queue[j].is \in {"unseen", "checked"}
                 PROVE  /\ queue[j].is = "unseen" => queue[j].lines = DOMAIN by' \/ queue[j].base < modified'
                        /\ \A l \in DOMAIN by' : l \notin queue[j].lines /\ Followed(l)' => Pending(j, l)'
      BY <1>2 DEF LaterIsPending
    <2>1. queue[j].base < H
      <3>1. ~Asks(j)
        BY DEF Asks
      <3>2. queue[j].base + 1 \in DOMAIN trees
        BY <1>1, <3>1 DEF Queued
      <3>3. DOMAIN trees = 1 .. Len(trees) /\ Len(trees) \in Nat /\ queue[j].base \in Nat
        BY <1>1, ShapeFacts
      <3> QED
        BY <3>2, <3>3
    <2>2. queue[j].is = "unseen" => queue[j].lines = DOMAIN by' \/ queue[j].base < modified'
      BY <1>1, <2>1 DEF LaterIsPending
    <2>3. ASSUME NEW l \in DOMAIN by', l \notin queue[j].lines, Followed(l)'
          PROVE  Pending(j, l)'
      BY <1>1, <1>3, <1>6, <1>7, <2>3 DEF LaterIsPending
    <2> QED
      BY <2>2, <2>3
  <1>12. Snapped'
    <2>1. ASSUME NEW j \in DOMAIN queue, queue[j].is = "commit", NEW l \in DOMAIN by', Followed(l)'
          PROVE  l \in ToSet(Final(j)) \/ l \in ToSet(trees[queue[j].base + 1]) \/ Pending(j, l)'
      BY <1>1, <1>3, <1>6, <1>7, <2>1 DEF Snapped
    <2>2. ASSUME NEW j \in DOMAIN queue, Asks(j), Live(j), NEW l \in DOMAIN by', Followed(l)', Needed(j, l)'
          PROVE  l \in ToSet(queue[j].contents[1]) \/ Pending(j, l)'
      BY <1>1, <1>3, <1>6, <1>7, <1>8, <2>2 DEF Snapped
    <2> QED
      BY <1>2, <1>4, <1>5, <2>1, <2>2 DEF Snapped
  <1>13. KnownLines'
    <2>1. ASSUME NEW l \in DOMAIN by', Followed(l)', Needed(0, l)'
          PROVE  l \in DOMAIN View.names \/ l \in ToSet(trees[Seen]) \/ Pending(0, l)'
      BY <1>1, <1>3, <1>6, <1>7, <1>8, <2>1 DEF KnownLines
    <2> QED
      BY <1>2, <1>4, <2>1 DEF KnownLines
  <1>14. (\A k \in DOMAIN notes : NoteFull(k))'
    <2> SUFFICES ASSUME NEW k \in DOMAIN notes
                 PROVE  NoteFull(k)'
      BY <1>2
    <2>1. k \in Nat \ {0}
      BY <1>1, ShapeFacts
    <2> QED
      BY <1>1, <1>2, <2>1, NoteFullKept
  <1> QED
    BY <1>10, <1>11, <1>12, <1>13, <1>14 DEF Complete

LEMMA WritingIsComplete ==
  ASSUME Sound, Complete, HumanWrites \/ \E a \in Agents : AgentWrites(a)
  PROVE  Complete'
  <1>1. Shape /\ Versions
    BY DEF Sound
  <1>2. UNCHANGED <<trees, queue, log, notes, missed>> /\ \A a \in Agents : edit[a] \in Hook
    BY <1>1, ShapeFacts DEF HumanWrites, AgentWrites
  <1>3. CASE HumanWrites
    <2>1. PICK p \in 1 .. Len(work) + 1 : Write(Human, p)
      BY <1>3 DEF HumanWrites
    <2>2. edit' = edit /\ modified' = Len(trees)
      BY <1>3, <2>1 DEF HumanWrites, hooks, Write
    <2>3. Written(Human) /\ Human \notin Agents
      BY <1>1, <2>1, WriteStep, ShapeFacts
    <2>4. Past
      BY <1>2, <2>3 DEF Written, Past
    <2> QED
      BY <1>2, <2>2, <2>3, <2>4, QuietKeeps DEF Written
  <1>4. ASSUME NEW a \in Agents, AgentWrites(a)
        PROVE  Complete'
    <2>1. PICK p \in 1 .. Len(work) + 1 : Write(a, p)
      BY <1>4 DEF AgentWrites
    <2>2. modified' = Len(trees) /\ edit[a].at = "editing"
      BY <1>4, <2>1 DEF AgentWrites, Write
    <2>3. Written(a)
      BY <1>1, <2>1, WriteStep
    <2>4. Past
      BY <1>2, <2>3 DEF Written, Past
    <2> DEFINE lines == edit[a].lines \cup (DOMAIN by' \ DOMAIN by)
    <2>5. edit' = [edit EXCEPT ![a].lines = lines]
      BY <1>4 DEF AgentWrites
    <2> HIDE DEF lines
    <2>6. edit \in [Agents -> Hook]
      BY <1>1 DEF Shape
    <2>7. /\ edit'[a].at = "editing" /\ edit'[a].lines = lines
          /\ \A b \in Agents : b # a => edit'[b] = edit[b]
      <3>1. edit'[a] = [edit[a] EXCEPT !.lines = lines] /\ \A b \in Agents : b # a => edit'[b] = edit[b]
        BY <2>5, <2>6
      <3> QED
        BY <1>2, <2>2, <3>1 DEF Hook
    <2>8. /\ \A l \in DOMAIN by' : l \in DOMAIN by \/ l \in edit'[a].lines
          /\ \A l \in edit[a].lines : l \in edit'[a].lines
          /\ \A l \in edit'[a].lines : l \in edit[a].lines \/ (l \notin DOMAIN by /\ by'[l] = a)
      <3>1. \A l \in DOMAIN by' : l \in DOMAIN by \/ by'[l] = a
        BY <2>3 DEF Written
      <3> QED
        BY <2>7, <3>1 DEF lines
    <2>9. /\ \A l \in DOMAIN by' : l \in DOMAIN by \/ by'[l] \notin Agents \/ \E b \in Agents : l \in edit'[b].lines
          /\ \A b \in Agents : \A l \in edit[b].lines : l \in edit'[b].lines
          /\ \A b \in Agents : \A l \in edit'[b].lines :
               l \in edit[b].lines \/ (l \notin DOMAIN by /\ by'[l] = b /\ edit'[b].at = "editing")
          /\ \A b \in Agents : edit'[b].at \in {"post_head", "post_read"} =>
               edit[b].at \in {"post_head", "post_read"} /\ edit'[b].base = edit[b].base
      BY <2>7, <2>8
    <2>10. \A l \in ToSet(work') : l \in ToSet(work) \/ l \notin DOMAIN by
      BY <2>3 DEF Written
    <2> QED
      BY <1>2, <2>2, <2>4, <2>9, <2>10, QuietKeeps
  <1> QED
    BY <1>3, <1>4

LEMMA ReadingIsComplete ==
  ASSUME Sound, Complete, NEW a \in Agents, ReadHead(a) \/ ReadFile(a)
  PROVE  Complete'
  <1>1. Shape /\ Versions /\ Hooks
    BY DEF Sound
  <1>2. UNCHANGED <<files, trees, queue, log, notes, missed>>
    BY DEF ReadHead, ReadFile, files
  <1>3. /\ trees' = trees /\ work' = work /\ by' = by /\ modified' = modified /\ queue' = queue /\ log' = log
        /\ notes' = notes /\ missed' = missed
    BY <1>2 DEF files
  <1>4. edit \in [Agents -> Hook] /\ edit[a] \in Hook /\ doubtful \subseteq DOMAIN by
    BY <1>1 DEF Shape
  <1>5. doubtful \subseteq doubtful'
    BY <1>4 DEF ReadHead, ReadFile
  <1>6. Past
    BY <1>3, <1>5 DEF Past
  <1>7. /\ \A b \in Agents : b # a => edit'[b] = edit[b]
        /\ edit'[a].lines = edit[a].lines
        /\ edit'[a].at \in {"post_head", "post_read"} =>
             edit'[a].base = Len(trees) \/ (edit[a].at \in {"post_head", "post_read"} /\ edit'[a].base = edit[a].base)
    <2>1. CASE edit[a].at = "idle" /\ edit' = [edit EXCEPT ![a] = [Idle EXCEPT !.at = "pre_head", !.base = HEAD]]
      <3>1. edit[a].lines = {}
        BY <1>1, <2>1 DEF Hooks
      <3>2. edit'[a] = [Idle EXCEPT !.at = "pre_head", !.base = HEAD] /\ \A b \in Agents : b # a => edit'[b] = edit[b]
        BY <1>4, <2>1
      <3> QED
        BY <3>1, <3>2 DEF Idle
    <2>2. CASE edit' = [edit EXCEPT ![a].at = "post_head", ![a].base = HEAD]
      BY <1>4, <2>2 DEF HEAD, Hook
    <2>3. CASE edit' = [edit EXCEPT ![a].at = "pre_read", ![a].content = work]
      BY <1>4, <2>3 DEF Hook
    <2>4. CASE edit[a].at = "post_head" /\ edit' = [edit EXCEPT ![a].at = "post_read", ![a].content = work]
      BY <1>4, <2>4 DEF Hook
    <2> QED
      BY <2>1, <2>2, <2>3, <2>4 DEF ReadHead, ReadFile
  <1>8. /\ \A l \in DOMAIN by' : l \in DOMAIN by
        /\ \A b \in Agents : \A l \in edit[b].lines : l \in edit'[b].lines
        /\ \A b \in Agents : \A l \in edit'[b].lines : l \in edit[b].lines
        /\ \A b \in Agents : edit'[b].at \in {"post_head", "post_read"} =>
             edit'[b].base = Len(trees) \/ (edit[b].at \in {"post_head", "post_read"} /\ edit'[b].base = edit[b].base)
        /\ \A l \in ToSet(work') : l \in ToSet(work)
    BY <1>3, <1>7
  <1> QED
    BY <1>3, <1>6, <1>8, QuietKeeps

LEMMA StageIsComplete ==
  ASSUME Sound, Complete, Stage
  PROVE  Complete'
  <1>1. /\ trees' = trees /\ work' = work /\ by' = by /\ modified' = modified /\ queue' = queue /\ log' = log
        /\ notes' = notes /\ missed' = missed /\ doubtful' = doubtful /\ edit' = edit
    BY DEF Stage, hooks
  <1>2. Past
    BY <1>1 DEF Past
  <1> QED
    BY <1>1, <1>2, QuietKeeps

\* A queue with one element more.
LEMMA AppendedQueue ==
  ASSUME Shape, Queued, NEW r \in Element, queue' = Append(queue, r), notes' = notes, NEW n, n = Len(queue) + 1
  PROVE  /\ n \in DOMAIN queue' /\ queue'[n] = r /\ Len(queue') = n
         /\ \A k \in DOMAIN queue : k \in DOMAIN queue' /\ queue'[k] = queue[k] /\ k < n /\ k # n
         /\ \A k \in DOMAIN queue' : k \in DOMAIN queue \/ (k = n /\ k \notin DOMAIN queue)
         /\ \A k \in DOMAIN queue : (Asks(k)' <=> Asks(k)) /\ (Live(k)' <=> Live(k))
         /\ \A j : \A k \in DOMAIN queue : j < k => j < n \/ j \notin Int
  <1>1. queue \in Seq(Element) /\ Len(queue) \in Nat /\ DOMAIN queue = 1 .. Len(queue)
    BY ShapeFacts
  <1>2. /\ DOMAIN queue' = 1 .. Len(queue) + 1
        /\ (\A k \in DOMAIN queue : queue'[k] = queue[k]) /\ queue'[Len(queue) + 1] = r /\ Len(queue') = Len(queue) + 1
    BY <1>1, AppendFacts
  <1>3. /\ n \in DOMAIN queue' /\ queue'[n] = r /\ Len(queue') = n
        /\ \A k \in DOMAIN queue : k \in DOMAIN queue' /\ queue'[k] = queue[k] /\ k < n /\ k # n
        /\ \A k \in DOMAIN queue' : k \in DOMAIN queue \/ (k = n /\ k \notin DOMAIN queue)
    BY <1>1, <1>2
  <1>4. \A k \in DOMAIN queue : Asks(k)' <=> Asks(k)
    BY <1>3 DEF Asks
  <1>5. \A j : \A k \in DOMAIN queue : j < k => j < n \/ j \notin Int
    BY <1>1
  <1>6. ASSUME NEW k \in DOMAIN queue
        PROVE  Live(k)' <=> Live(k)
    <2>1. \A j \in DOMAIN queue' : j < k => j \in DOMAIN queue
      BY <1>1, <1>2
    <2>2. Seen' = Seen
      BY DEF Seen
    <2> QED
      BY <1>3, <1>4, <2>1, <2>2 DEF Live
  <1> QED
    BY <1>3, <1>4, <1>5, <1>6

\* What it takes when the last element is new: e is what it adds.
LEMMA AppendingKeeps ==
  ASSUME Sound, Complete, Past, UNCHANGED <<by, work, modified, log, notes>>,
         \A c \in DOMAIN trees : c \in DOMAIN trees' /\ trees'[c] = trees[c],
         \A c \in DOMAIN trees' : c \in DOMAIN trees \/ (c \in Nat /\ Len(trees) < c),
         NEW r \in Element, queue' = Append(queue, r), NEW n, n = Len(queue) + 1,
         \A l \in DOMAIN by : \A a \in Agents : l \in edit[a].lines =>
           \/ \E b \in Agents : l \in edit'[b].lines
           \/ r.is = "request" /\ l \in r.lines,
         \A l \in DOMAIN by : Followed(l)' /\ r.is # "request" /\ l \in ToSet(trees'[r.base + 1]) => l \in ToSet(work),
         r.is # "commit",
         r.is = "request" => /\ \A l \in r.lines : Followed(l) => by[l] = r.author /\ Live(n)' /\ Unknown(l, r.base, n)'
                             /\ \A l \in ToSet(work) : Followed(l) => l \in ToSet(r.contents[1]),
         r.is \in {"unseen", "checked"} => r.lines = DOMAIN by,
         \A a \in Agents : \A l \in edit'[a].lines : Followed(l)' =>
           /\ by[l] = a /\ Unknown(l, Len(trees), Len(queue) + 1)'
           /\ edit'[a].at \in {"post_head", "post_read"} => edit'[a].base = Len(trees')
  PROVE  Complete'
  <1>1. /\ Shape /\ Versions /\ Logs /\ Queued /\ AskedIsNew /\ LaterIsPending /\ Snapped /\ KnownLines
        /\ \A k \in DOMAIN notes : NoteRight(k) /\ NoteFull(k)
    BY DEF Sound, Complete
  <1>2. /\ n \in DOMAIN queue' /\ queue'[n] = r /\ Len(queue') = n
        /\ \A k \in DOMAIN queue : k \in DOMAIN queue' /\ queue'[k] = queue[k] /\ k < n /\ k # n
        /\ \A k \in DOMAIN queue' : k \in DOMAIN queue \/ (k = n /\ k \notin DOMAIN queue)
        /\ \A k \in DOMAIN queue : (Asks(k)' <=> Asks(k)) /\ (Live(k)' <=> Live(k))
        /\ DOMAIN queue = 1 .. Len(queue) /\ Len(queue) \in Nat
    BY <1>1, AppendedQueue, ShapeFacts
  <1>3. \A l \in DOMAIN by : Followed(l)' => Followed(l)
    BY PastFollowed
  <1>4. Seen' = Seen /\ View' = View /\ Seen \in DOMAIN trees /\ trees'[Seen] = trees[Seen]
    BY <1>1 DEF Seen, View, Previous, Queued
  <1>5. (Asks(n)' <=> r.is = "request") /\ r.is \in {"request", "unseen", "checked", "commit"}
    <2>1. Asks(n)' <=> queue'[n].is = "request"
      BY DEF Asks
    <2> QED
      BY <1>2, <2>1 DEF Element
  <1>6. ASSUME NEW j \in 0 .. Len(queue), NEW l \in DOMAIN by, Pending(j, l)
        PROVE  Pending(j, l)'
    <2>1. ASSUME NEW k \in DOMAIN queue, j < k, Asks(k), l \in queue[k].lines
          PROVE  Pending(j, l)'
      <3>1. k \in DOMAIN queue' /\ Asks(k)' /\ l \in queue'[k].lines
        BY <1>2, <2>1
      <3> QED
        BY <2>1, <3>1 DEF Pending
    <2>2. ASSUME NEW a \in Agents, l \in edit[a].lines
          PROVE  Pending(j, l)'
      <3>1. CASE \E b \in Agents : l \in edit'[b].lines
        BY <3>1 DEF Pending
      <3>2. CASE r.is = "request" /\ l \in r.lines
        <4>1. j < n /\ Asks(n)' /\ l \in queue'[n].lines
          BY <1>2, <1>5, <3>2
        <4> QED
          BY <1>2, <4>1 DEF Pending
      <3> QED
        BY <2>2, <3>1, <3>2
    <2> QED
      BY <1>6, <2>1, <2>2 DEF Pending
  <1>7. ASSUME NEW j, NEW l \in DOMAIN by, Followed(l)', Needed(j, l)'
        PROVE  Needed(j, l)
    <2>1. CASE l \in ToSet(work)
      BY <2>1 DEF Needed
    <2>2. ASSUME NEW k \in DOMAIN queue', j < k, ~Asks(k)', l \in ToSet(trees'[queue'[k].base + 1])
          PROVE  Needed(j, l)
      <3>1. CASE k = n
        BY <1>2, <1>5, <1>7, <2>2, <3>1 DEF Needed
      <3>2. CASE k \in DOMAIN queue
        <4>1. queue'[k] = queue[k] /\ ~Asks(k)
          BY <1>2, <2>2, <3>2
        <4>2. trees'[queue[k].base + 1] = trees[queue[k].base + 1]
          BY <1>1, <3>2, <4>1 DEF Queued
        <4> QED
          BY <2>2, <3>2, <4>1, <4>2 DEF Needed
      <3> QED
        BY <1>2, <3>1, <3>2
    <2> QED
      BY <1>7, <2>1, <2>2 DEF Needed
  <1>8. ASSUME NEW l, NEW k \in DOMAIN queue, NEW c \in DOMAIN trees, Unknown(l, c, k)
        PROVE  Unknown(l, c, k)'
    <2>1. \A d \in DOMAIN trees' : d <= c => d \in DOMAIN trees /\ trees'[d] = trees[d]
      <3>1. DOMAIN trees = 1 .. Len(trees) /\ Len(trees) \in Nat
        BY <1>1, ShapeFacts
      <3> QED
        BY <3>1
    <2>2. \A j \in DOMAIN queue' : j < k => j \in DOMAIN queue
      BY <1>2
    <2> QED
      BY <1>2, <1>4, <1>8, <2>1, <2>2 DEF Unknown
  <1>10. AskedIsNew'
    <2>1. ASSUME NEW k \in DOMAIN queue', Asks(k)', NEW l \in queue'[k].lines, Followed(l)'
          PROVE  by'[l] = queue'[k].author /\ Live(k)' /\ Unknown(l, queue[k].base, k)'
      <3>1. CASE k \in DOMAIN queue
        <4>1. queue'[k] = queue[k] /\ Asks(k) /\ (Live(k)' <=> Live(k))
          BY <1>2, <2>1, <3>1
        <4>2. l \in DOMAIN by /\ queue[k].base \in DOMAIN trees
          BY <1>1, <2>1, <3>1, <4>1 DEF Versions, Queued
        <4>3. by[l] = queue[k].author /\ Live(k) /\ Unknown(l, queue[k].base, k)
          BY <1>1, <1>3, <2>1, <3>1, <4>1, <4>2 DEF AskedIsNew
        <4>4. PICK b : b = queue[k].base
          OBVIOUS
        <4>5. Unknown(l, b, k)'
          BY <1>8, <3>1, <4>2, <4>3, <4>4
        <4>6. Unknown(l, queue[k].base, k)' <=> Unknown(l, b, k)'
          BY <4>1, <4>4 DEF Unknown
        <4> QED
          BY <4>1, <4>3, <4>5, <4>6
      <3>2. CASE k = n
        <4>1. queue'[k] = r /\ r.is = "request"
          BY <1>2, <1>5, <2>1, <3>2
        <4>2. l \in r.lines
          BY <2>1, <4>1
        <4>3. Followed(l)
          BY <2>1 DEF Followed, Past
        <4>4. by[l] = r.author /\ Live(n)' /\ Unknown(l, r.base, n)'
          BY <4>1, <4>2, <4>3
        <4>5. Unknown(l, queue[k].base, k)' <=> Unknown(l, r.base, n)'
          BY <3>2, <4>1 DEF Unknown
        <4> QED
          BY <3>2, <4>1, <4>4, <4>5
      <3> QED
        BY <1>2, <2>1, <3>1, <3>2
    <2>2. ASSUME NEW a \in Agents, NEW l \in edit'[a].lines, Followed(l)'
          PROVE  /\ by'[l] = a /\ Unknown(l, Len(trees), Len(queue) + 1)'
                 /\ edit'[a].at \in {"post_head", "post_read"} => edit'[a].base = Len(trees')
      BY <2>2
    <2> QED
      BY <2>1, <2>2 DEF AskedIsNew
  <1>11. LaterIsPending'
    <2> SUFFICES ASSUME NEW j \in DOMAIN queue', queue'[j].is \in {"unseen", "checked"}
                 PROVE  /\ queue'[j].is = "unseen" => queue'[j].lines = DOMAIN by \/ queue'[j].base < modified
                        /\ \A l \in DOMAIN by : l \notin queue'[j].lines /\ Followed(l)' => Pending(j, l)'
      BY DEF LaterIsPending
    <2>1. CASE j = n
      BY <1>2, <2>1
    <2>2. CASE j \in DOMAIN queue
      <3>1. queue'[j] = queue[j] /\ j \in 0 .. Len(queue)
        BY <1>2, <2>2
      <3> QED
        BY <1>1, <1>3, <1>6, <2>2, <3>1 DEF LaterIsPending
    <2> QED
      BY <1>2, <2>1, <2>2
  <1>12. Snapped'
    <2>1. ASSUME NEW j \in DOMAIN queue', queue'[j].is = "commit", NEW l \in DOMAIN by, Followed(l)'
          PROVE  l \in ToSet(Final(j)') \/ l \in ToSet(trees'[queue'[j].base + 1]) \/ Pending(j, l)'
      <3>1. j # n
        BY <1>2, <2>1
      <3>2. j \in DOMAIN queue /\ queue'[j] = queue[j] /\ j \in 0 .. Len(queue)
        BY <1>2, <2>1, <3>1
      <3>3. trees'[queue[j].base + 1] = trees[queue[j].base + 1]
        <4>1. ~Asks(j)
          BY <2>1, <3>2 DEF Asks
        <4> QED
          BY <1>1, <3>2, <4>1 DEF Queued
      <3>4. Final(j)' = Final(j)
        BY <3>2, <3>3 DEF Final
      <3>5. l \in ToSet(Final(j)) \/ l \in ToSet(trees[queue[j].base + 1]) \/ Pending(j, l)
        BY <1>1, <1>3, <2>1, <3>2 DEF Snapped
      <3> QED
        BY <1>6, <3>2, <3>3, <3>4, <3>5
    <2>2. ASSUME NEW j \in DOMAIN queue', Asks(j)', Live(j)', NEW l \in DOMAIN by, Followed(l)', Needed(j, l)'
          PROVE  l \in ToSet(queue'[j].contents[1]) \/ Pending(j, l)'
      <3>1. CASE j \in DOMAIN queue
        <4>1. queue'[j] = queue[j] /\ Asks(j) /\ Live(j) /\ j \in 0 .. Len(queue)
          BY <1>2, <2>2, <3>1
        <4>2. l \in ToSet(queue[j].contents[1]) \/ Pending(j, l)
          BY <1>1, <1>3, <1>7, <2>2, <3>1, <4>1 DEF Snapped
        <4> QED
          BY <1>6, <4>1, <4>2
      <3>2. CASE j = n
        <4>1. r.is = "request" /\ queue'[j] = r
          BY <1>2, <1>5, <2>2, <3>2
        <4>2. l \in ToSet(work)
          <5>1. \A k \in DOMAIN queue : ~(n < k)
            BY <1>2
          <5> QED
            BY <1>7, <2>2, <3>2, <5>1 DEF Needed
        <4> QED
          BY <1>3, <2>2, <4>1, <4>2
      <3> QED
        BY <1>2, <2>2, <3>1, <3>2
    <2> QED
      BY <2>1, <2>2 DEF Snapped
  <1>13. KnownLines'
    <2> SUFFICES ASSUME NEW l \in DOMAIN by, Followed(l)', Needed(0, l)'
                 PROVE  l \in DOMAIN View.names \/ l \in ToSet(trees[Seen]) \/ Pending(0, l)'
      BY <1>4 DEF KnownLines
    <2>1. 0 \in 0 .. Len(queue)
      BY <1>2
    <2> QED
      BY <1>1, <1>3, <1>6, <1>7, <2>1 DEF KnownLines
  <1>14. (\A k \in DOMAIN notes : NoteFull(k))'
    <2> SUFFICES ASSUME NEW k \in DOMAIN notes
                 PROVE  NoteFull(k)'
      OBVIOUS
    <2>1. k \in Nat \ {0}
      BY <1>1, ShapeFacts
    <2> QED
      BY <1>1, <2>1, NoteFullKept
  <1> QED
    BY <1>10, <1>11, <1>12, <1>13, <1>14 DEF Complete

LEMMA RequestIsComplete ==
  ASSUME Sound, Complete, NEW a \in Agents, Request(a)
  PROVE  Complete'
  <1>1. Shape /\ Versions /\ Logs /\ Queued /\ Hooks /\ AskedIsNew
    BY DEF Sound, Complete
  <1>2. /\ trees' = trees /\ work' = work /\ by' = by /\ modified' = modified /\ log' = log /\ notes' = notes
        /\ missed' = missed /\ doubtful' = doubtful
    BY DEF Request, files
  <1>3. edit \in [Agents -> Hook] /\ edit[a] \in Hook /\ edit[a].lines \subseteq DOMAIN by
    BY <1>1 DEF Shape, Versions
  <1>4. PICK author \in Agents \cup {Human} :
          /\ queue' = Asked(a, author)
          /\ \A b \in Agents : b # a => edit'[b] = edit[b]
          /\ edit'[a].lines = {}
          /\ Open(a)
          /\ \/ edit[a].at = "pre_read"
             \/ edit[a].at = "post_read" /\ author = a
    <2>1. CASE edit[a].at = "pre_read" /\ queue' = Asked(a, Human) /\ edit' = [edit EXCEPT ![a] = [Idle EXCEPT !.at = "editing"]]
      <3>1. edit'[a] = [Idle EXCEPT !.at = "editing"] /\ \A b \in Agents : b # a => edit'[b] = edit[b]
        BY <1>3, <2>1
      <3> QED
        BY <2>1, <3>1 DEF Idle, Open
    <2>2. CASE edit[a].at = "post_read" /\ queue' = Asked(a, a) /\ edit' = [edit EXCEPT ![a] = Idle]
      <3>1. edit'[a] = Idle /\ \A b \in Agents : b # a => edit'[b] = edit[b]
        BY <1>3, <2>2
      <3> QED
        BY <2>2, <3>1 DEF Idle, Open
    <2> QED
      BY <2>1, <2>2 DEF Request
  <1>5. PICK r : r = [is |-> "request", author |-> author, base |-> edit[a].base,
                      contents |-> <<edit[a].content>>, lines |-> edit[a].lines]
    OBVIOUS
  <1>6. /\ queue' = Append(queue, r) /\ r.is = "request" /\ r.author = author /\ r.base = edit[a].base
        /\ r.contents[1] = edit[a].content /\ r.lines = edit[a].lines
    BY <1>4, <1>5 DEF Asked
  <1>7. r \in Element
    <2>1. edit[a].content \in Seq(Nat) /\ edit[a].base \in Nat /\ edit[a].lines \subseteq Nat
      BY <1>3 DEF Hook
    <2>2. <<edit[a].content>> \in Seq(Seq(Nat))
      BY <2>1
    <2> QED
      BY <1>5, <2>1, <2>2 DEF Element
  <1>8. PICK n, H : n = Len(queue) + 1 /\ H = Len(trees)
    OBVIOUS
  <1>9. /\ n \in DOMAIN queue' /\ queue'[n] = r /\ Len(queue') = n
        /\ \A k \in DOMAIN queue : k \in DOMAIN queue' /\ queue'[k] = queue[k] /\ k < n /\ k # n
        /\ \A k \in DOMAIN queue' : k \in DOMAIN queue \/ (k = n /\ k \notin DOMAIN queue)
        /\ \A k \in DOMAIN queue : Asks(k)' <=> Asks(k)
    BY <1>1, <1>2, <1>6, <1>7, <1>8, AppendedQueue
  <1>10. Past
    BY <1>2 DEF Past
  <1>11. \A l : Followed(l)' <=> Followed(l)
    BY <1>2 DEF Followed
  <1>12. ASSUME NEW l \in r.lines, Followed(l)
         PROVE  by[l] = r.author /\ Live(n)' /\ Unknown(l, r.base, n)'
    <2>1. edit[a].at = "post_read" /\ author = a
      BY <1>1, <1>4, <1>6, <1>12 DEF Hooks
    <2>2. by[l] = a /\ Unknown(l, H, n) /\ edit[a].base = H
      BY <1>1, <1>6, <1>8, <1>12, <2>1 DEF AskedIsNew
    <2>3. Seen' = Seen /\ View' = View
      BY <1>1, <1>2 DEF Seen, View, Previous
    <2>4. Unknown(l, H, n)'
      <3>1. \A j \in DOMAIN queue' : j < n => j \in DOMAIN queue
        BY <1>1, <1>8, <1>9, ShapeFacts
      <3> QED
        BY <1>2, <1>9, <2>2, <2>3, <3>1 DEF Unknown
    <2>5. Live(n)'
      <3>1. Seen <= H
        BY <1>1, <1>8, ShapeFacts DEF Queued
      <3>2. ASSUME NEW j \in DOMAIN queue', j < n, ~Asks(j)'
            PROVE  queue'[j].base < H
        <4>1. j \in DOMAIN queue /\ ~Asks(j)
          BY <1>1, <1>8, <1>9, <3>2, ShapeFacts
        <4>2. queue[j].base + 1 \in DOMAIN trees
          BY <1>1, <4>1 DEF Queued
        <4>3. queue[j].base \in Nat /\ DOMAIN trees = 1 .. H /\ H \in Nat
          BY <1>1, <1>8, <4>1, ShapeFacts
        <4> QED
          BY <1>9, <4>1, <4>2, <4>3
      <3> QED
        BY <1>6, <1>9, <2>2, <2>3, <3>1, <3>2 DEF Live
    <2>6. r.base = H
      BY <1>6, <2>2
    <2>7. Unknown(l, r.base, n)' <=> Unknown(l, H, n)'
      BY <2>6 DEF Unknown
    <2> QED
      BY <1>6, <2>1, <2>2, <2>4, <2>5, <2>7
  <1>13. ASSUME NEW l \in ToSet(work), Followed(l)
         PROVE  l \in ToSet(r.contents[1])
    <2>1. l \in ToSet(edit[a].content) \/ l \in doubtful
      BY <1>1, <1>4 DEF Hooks
    <2> QED
      BY <1>6, <1>13, <2>1 DEF Followed
  <1>14. ASSUME NEW b \in Agents, NEW l \in edit'[b].lines
         PROVE  ~Followed(l)'
    <2>1. b # a /\ l \in edit[b].lines
      BY <1>4, <1>14
    <2>2. Open(b)
      BY <1>1, <2>1 DEF Hooks, Open
    <2>3. l \in DOMAIN by
      BY <1>1, <2>1 DEF Versions
    <2>4. l \in doubtful
      BY <1>1, <1>4, <2>1, <2>2, <2>3 DEF Hooks
    <2> QED
      BY <1>11, <2>4 DEF Followed
  <1>15. \A b \in Agents : \A l \in edit[b].lines : l \in r.lines \/ l \in edit'[b].lines
    BY <1>4, <1>6
  <1>16. /\ \A c \in DOMAIN trees : c \in DOMAIN trees' /\ trees'[c] = trees[c]
         /\ \A c \in DOMAIN trees' : c \in DOMAIN trees
    BY <1>2
  <1> QED
    BY <1>2, <1>6, <1>7, <1>8, <1>10, <1>12, <1>13, <1>14, <1>15, <1>16, AppendingKeeps

LEMMA CommitIsComplete ==
  ASSUME Sound, Complete, Commit
  PROVE  Complete'
  <1>1. Shape /\ Versions /\ Hooks
    BY DEF Sound
  <1>2. /\ work' = work /\ by' = by /\ modified' = modified /\ log' = log /\ notes' = notes /\ edit' = edit
    BY DEF Commit, hooks
  <1>3. PICK r : r = [is |-> "unseen", author |-> Human, base |-> Len(trees), contents |-> <<>>, lines |-> DOMAIN by]
    OBVIOUS
  <1>4. queue' = Append(queue, r) /\ r.is = "unseen" /\ r.base = Len(trees) /\ r.lines = DOMAIN by
    BY <1>3 DEF Commit
  <1>5. r \in Element
    <2>1. Len(trees) \in Nat /\ DOMAIN by \subseteq Nat
      BY <1>1, ShapeFacts
    <2> QED
      BY <1>3, <2>1 DEF Element
  <1>6. PICK n, H : n = Len(queue) + 1 /\ H = Len(trees)
    OBVIOUS
  <1>7. /\ \A c \in DOMAIN trees : c \in DOMAIN trees' /\ trees'[c] = trees[c]
        /\ \A c \in DOMAIN trees' : c \in DOMAIN trees \/ (c \in Nat /\ H < c)
        /\ trees'[H + 1] = index
    <2>1. trees \in Seq(Seq(Nat)) /\ index \in Seq(Nat) /\ trees' = Append(trees, index)
      BY <1>1, LineFacts DEF Shape, Versions, Commit
    <2>2. /\ DOMAIN trees = 1 .. H /\ H \in Nat
          /\ DOMAIN trees' = 1 .. H + 1
          /\ \A c \in DOMAIN trees : trees'[c] = trees[c]
          /\ trees'[H + 1] = index
      BY <1>6, <2>1, AppendFacts
    <2> QED
      BY <2>2
  <1>8. /\ doubtful \subseteq doubtful' /\ missed \subseteq missed'
        /\ AgentLines(ToSet(index) \ ToSet(work)) \subseteq missed'
        /\ \A a \in Agents : Open(a) => edit[a].lines \subseteq missed'
    BY DEF Commit
  <1>9. Past
    BY <1>2, <1>8 DEF Past
  <1>10. ASSUME NEW l \in DOMAIN by, Followed(l)', l \in ToSet(trees'[r.base + 1])
         PROVE  l \in ToSet(work)
    <2>1. by[l] \in Agents /\ l \notin missed' /\ l \in ToSet(index)
      BY <1>2, <1>4, <1>6, <1>7, <1>10 DEF Followed
    <2> QED
      BY <1>8, <2>1 DEF AgentLines
  <1>11. ASSUME NEW a \in Agents, NEW l \in edit'[a].lines
         PROVE  ~Followed(l)'
    <2>1. Open(a)
      BY <1>1, <1>2, <1>11 DEF Hooks, Open
    <2> QED
      BY <1>2, <1>8, <1>11, <2>1 DEF Followed
  <1> QED
    BY <1>2, <1>4, <1>5, <1>6, <1>7, <1>9, <1>10, <1>11, AppendingKeeps

\* What it takes when the daemon looks at an element, a commit: r is what it makes
\* of it.
LEMMA SeeingKeepsLines ==
  ASSUME Sound, Complete, UNCHANGED <<files, hooks, log, notes, doubtful>>, missed \subseteq missed',
         NEW i \in DOMAIN queue, ~Asks(i), NEW r \in Element, queue' = [queue EXCEPT ![i] = r],
         r.base = queue[i].base, r.is \in {"checked", "commit"},
         r.is = "checked" => \A l \in DOMAIN by : l \notin r.lines /\ Followed(l)' => Pending(i, l),
         r.is = "commit" => \A l \in DOMAIN by : Followed(l)' =>
           \/ r.contents # <<>> /\ l \in ToSet(r.contents[1])
           \/ l \in ToSet(trees[r.base + 1]) \/ Pending(i, l),
         \A l \in DOMAIN by : Followed(l)' /\ l \notin queue[i].lines =>
           (r.contents # <<>> => l \notin ToSet(r.contents[1])) /\ l \notin r.lines
  PROVE  Complete'
  <1>1. /\ Shape /\ Versions /\ Logs /\ Queued /\ AskedIsNew /\ LaterIsPending /\ Snapped /\ KnownLines
        /\ \A k \in DOMAIN notes : NoteRight(k) /\ NoteFull(k)
    BY DEF Sound, Complete
  <1>2. /\ trees' = trees /\ work' = work /\ by' = by /\ modified' = modified /\ log' = log /\ notes' = notes
        /\ edit' = edit /\ doubtful' = doubtful
    BY DEF files, hooks
  <1>3. Past
    BY <1>2 DEF Past
  <1>4. \A l \in DOMAIN by : Followed(l)' => Followed(l)
    BY <1>3, PastFollowed
  <1>5. /\ queue \in Seq(Element) /\ DOMAIN queue' = DOMAIN queue /\ Len(queue') = Len(queue) /\ queue'[i] = r
        /\ \A k \in DOMAIN queue : k # i => queue'[k] = queue[k]
        /\ \A k \in DOMAIN queue : queue'[k].base = queue[k].base
    <2>1. queue \in Seq(Element) /\ DOMAIN queue = 1 .. Len(queue) /\ Len(queue) \in Nat
      BY <1>1, ShapeFacts
    <2>2. Len(queue') = Len(queue)
      BY <2>1, ReplaceFacts
    <2> QED
      BY <2>1, <2>2
  <1>6. \A k \in DOMAIN queue : Asks(k)' <=> Asks(k)
    <2>1. \A k : Asks(k)' <=> queue'[k].is = "request"
      BY DEF Asks
    <2> QED
      BY <1>5, <2>1 DEF Asks
  <1>7. /\ Seen' = Seen /\ View' = View
        /\ \A k \in DOMAIN queue : Live(k)' <=> Live(k)
    <2>1. Seen' = Seen /\ View' = View
      BY <1>2 DEF Seen, View, Previous
    <2> QED
      BY <1>5, <1>6, <2>1 DEF Live
  <1>8. \A j, l : Pending(j, l) => Pending(j, l)'
    <2> SUFFICES ASSUME NEW j, NEW l, Pending(j, l)
                 PROVE  Pending(j, l)'
      OBVIOUS
    <2>1. ASSUME NEW k \in DOMAIN queue, j < k, Asks(k), l \in queue[k].lines
          PROVE  Pending(j, l)'
      <3>1. Asks(k)' /\ k \in DOMAIN queue' /\ l \in queue'[k].lines
        BY <1>5, <1>6, <2>1
      <3> QED
        BY <2>1, <3>1 DEF Pending
    <2>2. ASSUME NEW a \in Agents, l \in edit[a].lines
          PROVE  Pending(j, l)'
      BY <1>2, <2>2 DEF Pending
    <2> QED
      BY <2>1, <2>2 DEF Pending
  <1>9. \A j, l : Needed(j, l)' => Needed(j, l)
    BY <1>2, <1>5, <1>6 DEF Needed
  <1>10. ASSUME NEW l \in DOMAIN by, Followed(l)', NEW c, NEW n, Unknown(l, c, n)
         PROVE  Unknown(l, c, n)'
    <2>1. ASSUME NEW j \in DOMAIN queue, j < n
          PROVE  /\ queue'[j].contents # <<>> => l \notin ToSet(queue'[j].contents[1])
                 /\ ~Asks(j)' => l \notin queue'[j].lines
      <3>1. CASE j = i
        <4>1. l \notin queue[i].lines
          BY <1>10, <2>1, <3>1 DEF Unknown
        <4> QED
          BY <1>5, <1>10, <3>1, <4>1
      <3>2. CASE j # i
        BY <1>5, <1>6, <1>10, <2>1, <3>2 DEF Unknown
      <3> QED
        BY <3>1, <3>2
    <2> QED
      BY <1>2, <1>5, <1>7, <1>10, <2>1 DEF Unknown
  <1>11. AskedIsNew'
    <2>1. ASSUME NEW k \in DOMAIN queue', Asks(k)', NEW l \in queue'[k].lines, Followed(l)'
          PROVE  by'[l] = queue'[k].author /\ Live(k)' /\ Unknown(l, queue[k].base, k)'
      <3>1. k \in DOMAIN queue /\ Asks(k) /\ k # i /\ queue'[k] = queue[k]
        BY <1>5, <1>6, <2>1
      <3>2. l \in DOMAIN by
        BY <1>1, <2>1, <3>1 DEF Versions
      <3>3. by[l] = queue[k].author /\ Live(k) /\ Unknown(l, queue[k].base, k)
        BY <1>1, <1>4, <2>1, <3>1, <3>2 DEF AskedIsNew
      <3>4. PICK b : b = queue[k].base
        OBVIOUS
      <3>5. Unknown(l, b, k)'
        BY <1>10, <2>1, <3>2, <3>3, <3>4
      <3>6. Unknown(l, queue[k].base, k)' <=> Unknown(l, b, k)'
        BY <3>1, <3>4 DEF Unknown
      <3> QED
        BY <1>2, <1>7, <3>1, <3>3, <3>5, <3>6
    <2>2. ASSUME NEW a \in Agents, NEW l \in edit'[a].lines, Followed(l)'
          PROVE  /\ by'[l] = a /\ Unknown(l, Len(trees), Len(queue) + 1)'
                 /\ edit'[a].at \in {"post_head", "post_read"} => edit'[a].base = Len(trees')
      <3>1. l \in DOMAIN by
        BY <1>1, <1>2, <2>2 DEF Versions
      <3>2. PICK H, n : H = Len(trees) /\ n = Len(queue) + 1
        OBVIOUS
      <3>3. /\ by[l] = a /\ Unknown(l, H, n)
            /\ edit[a].at \in {"post_head", "post_read"} => edit[a].base = H
        BY <1>1, <1>2, <1>4, <2>2, <3>1, <3>2 DEF AskedIsNew
      <3>4. Unknown(l, H, n)'
        BY <1>10, <2>2, <3>1, <3>3
      <3>5. Unknown(l, Len(trees), Len(queue) + 1)' <=> Unknown(l, H, n)'
        BY <1>2, <1>5, <3>2 DEF Unknown
      <3> QED
        BY <1>2, <3>2, <3>3, <3>4, <3>5
    <2> QED
      BY <2>1, <2>2 DEF AskedIsNew
  <1>12. LaterIsPending'
    <2> SUFFICES ASSUME NEW j \in DOMAIN queue, queue'[j].is \in {"unseen", "checked"}
                 PROVE  /\ queue'[j].is = "unseen" => queue'[j].lines = DOMAIN by \/ queue'[j].base < modified
                        /\ \A l \in DOMAIN by : l \notin queue'[j].lines /\ Followed(l)' => Pending(j, l)'
      BY <1>2, <1>5 DEF LaterIsPending
    <2>1. CASE j = i
      BY <1>5, <1>8, <2>1
    <2>2. CASE j # i
      <3>1. queue'[j] = queue[j]
        BY <1>5, <2>2
      <3> QED
        BY <1>1, <1>4, <1>8, <3>1 DEF LaterIsPending
    <2> QED
      BY <2>1, <2>2
  <1>13. Snapped'
    <2>1. ASSUME NEW j \in DOMAIN queue', queue'[j].is = "commit", NEW l \in DOMAIN by, Followed(l)'
          PROVE  l \in ToSet(Final(j)') \/ l \in ToSet(trees'[queue'[j].base + 1]) \/ Pending(j, l)'
      <3>1. CASE j = i
        <4>1. r.contents # <<>> => Final(j)' = r.contents[1]
          BY <1>5, <3>1 DEF Final
        <4> QED
          BY <1>2, <1>5, <1>8, <2>1, <3>1, <4>1
      <3>2. CASE j # i
        <4>1. queue'[j] = queue[j] /\ j \in DOMAIN queue
          BY <1>5, <2>1, <3>2
        <4>2. Final(j)' = Final(j)
          BY <1>2, <4>1 DEF Final
        <4> QED
          BY <1>1, <1>2, <1>4, <1>8, <2>1, <4>1, <4>2 DEF Snapped
      <3> QED
        BY <3>1, <3>2
    <2>2. ASSUME NEW j \in DOMAIN queue', Asks(j)', Live(j)', NEW l \in DOMAIN by, Followed(l)', Needed(j, l)'
          PROVE  l \in ToSet(queue'[j].contents[1]) \/ Pending(j, l)'
      <3>1. j \in DOMAIN queue /\ Asks(j) /\ Live(j) /\ j # i /\ queue'[j] = queue[j]
        BY <1>5, <1>6, <1>7, <2>2
      <3> QED
        BY <1>1, <1>4, <1>8, <1>9, <2>2, <3>1 DEF Snapped
    <2> QED
      BY <1>2, <2>1, <2>2 DEF Snapped
  <1>14. KnownLines'
    <2> SUFFICES ASSUME NEW l \in DOMAIN by, Followed(l)', Needed(0, l)'
                 PROVE  l \in DOMAIN View.names \/ l \in ToSet(trees[Seen]) \/ Pending(0, l)'
      BY <1>2, <1>7 DEF KnownLines
    <2> QED
      BY <1>1, <1>4, <1>8, <1>9 DEF KnownLines
  <1>15. (\A k \in DOMAIN notes : NoteFull(k))'
    <2> SUFFICES ASSUME NEW k \in DOMAIN notes
                 PROVE  NoteFull(k)'
      BY <1>2
    <2>1. k \in Nat \ {0}
      BY <1>1, ShapeFacts
    <2> QED
      BY <1>1, <1>2, <1>3, <2>1, NoteFullKept
  <1> QED
    BY <1>11, <1>12, <1>13, <1>14, <1>15 DEF Complete

LEMMA SeeingIsComplete ==
  ASSUME Sound, Complete, NEW i \in DOMAIN queue, CaptureCheck(i) \/ CaptureSkip(i) \/ CaptureRead(i)
  PROVE  Complete'
  <1>1. Shape /\ Versions /\ Queued /\ LaterIsPending
    BY DEF Sound, Complete
  <1>2. PICK q : q = queue[i]
    OBVIOUS
  <1>3. queue \in Seq(Element) /\ q \in Element /\ DOMAIN by \subseteq Nat /\ work \in Seq(Nat)
    BY <1>1, <1>2, ShapeFacts, LineFacts DEF Versions
  <1>4. CASE CaptureCheck(i)
    <2>1. /\ q.is = "unseen" /\ modified <= q.base /\ queue' = [queue EXCEPT ![i].is = "checked", ![i].lines = DOMAIN by]
          /\ UNCHANGED <<files, hooks, log, notes, doubtful>> /\ missed \subseteq missed'
      BY <1>2, <1>4 DEF CaptureCheck, Sees, Unwritten
    <2>2. q.lines = DOMAIN by
      <3>1. q.lines = DOMAIN by \/ q.base < modified
        BY <1>1, <1>2, <2>1 DEF LaterIsPending
      <3>2. q.base \in Nat /\ modified \in Int
        BY <1>1, <1>3 DEF Element, Shape
      <3> QED
        BY <2>1, <3>1, <3>2
    <2>3. q.contents = <<>>
      BY <1>1, <1>2, <2>1 DEF Queued
    <2>4. PICK r : r = [q EXCEPT !.is = "checked", !.lines = DOMAIN by]
      OBVIOUS
    <2>5. r \in Element /\ r.is = "checked" /\ r.base = q.base /\ r.lines = DOMAIN by /\ r.contents = <<>>
      BY <1>3, <2>3, <2>4 DEF Element
    <2>6. queue' = [queue EXCEPT ![i] = r]
      BY <1>2, <1>3, <2>1, <2>4
    <2>7. ~Asks(i)
      BY <1>2, <2>1 DEF Asks
    <2> QED
      BY <1>2, <2>1, <2>2, <2>5, <2>6, <2>7, SeeingKeepsLines
  <1>5. ASSUME NEW contents \in {<<>>, <<work>>}, NEW content, Captured(i, contents, content),
               content = IF contents = <<>> THEN trees[q.base + 1] ELSE work,
               q.is \in {"unseen", "checked"}
        PROVE  Complete'
    <2>1. /\ queue' = [queue EXCEPT ![i].is = "commit", ![i].contents = contents, ![i].lines = {}]
          /\ missed' = missed \cup {l \in AgentLines(DOMAIN by) :
                                      IF l \in q.lines THEN l \notin ToSet(content) \cup ToSet(trees[q.base + 1])
                                      ELSE l \in ToSet(content)}
          /\ UNCHANGED <<files, hooks, log, notes, doubtful>>
      BY <1>2, <1>5 DEF Captured
    <2>2. PICK r : r = [q EXCEPT !.is = "commit", !.contents = contents, !.lines = {}]
      OBVIOUS
    <2>3. r \in Element /\ r.is = "commit" /\ r.base = q.base /\ r.lines = {} /\ r.contents = contents
      <3>1. <<>> \in Seq(Seq(Nat)) /\ <<work>> \in Seq(Seq(Nat))
        BY <1>3
      <3>2. contents \in Seq(Seq(Nat))
        BY <3>1, <1>5
      <3> QED
        BY <1>3, <2>2, <3>2 DEF Element
    <2>4. queue' = [queue EXCEPT ![i] = r]
      BY <1>2, <1>3, <2>1, <2>2
    <2>5. ~Asks(i)
      BY <1>2, <1>5 DEF Asks
    <2>6. contents # <<>> => contents[1] = work /\ content = work
      BY <1>5
    <2>7. contents = <<>> => content = trees[q.base + 1]
      BY <1>5
    <2>8. ASSUME NEW l \in DOMAIN by, Followed(l)'
          PROVE  /\ l \in q.lines => l \in ToSet(content) \cup ToSet(trees[q.base + 1])
                 /\ l \notin q.lines => l \notin ToSet(content) /\ Pending(i, l)
      <3>1. by[l] \in Agents /\ l \notin missed' /\ l \notin doubtful /\ by' = by
        BY <2>1, <2>8 DEF Followed, files
      <3>2. l \in AgentLines(DOMAIN by) /\ Followed(l)
        BY <2>1, <3>1 DEF AgentLines, Followed
      <3>3. l \notin q.lines => Pending(i, l)
        BY <1>1, <1>2, <1>5, <3>2 DEF LaterIsPending
      <3> QED
        BY <2>1, <3>1, <3>2, <3>3
    <2>9. missed \subseteq missed'
      BY <2>1
    <2>10. \A l \in DOMAIN by : Followed(l)' =>
             \/ r.contents # <<>> /\ l \in ToSet(r.contents[1])
             \/ l \in ToSet(trees[r.base + 1]) \/ Pending(i, l)
      BY <2>3, <2>6, <2>7, <2>8
    <2>11. \A l \in DOMAIN by : Followed(l)' /\ l \notin queue[i].lines =>
             (r.contents # <<>> => l \notin ToSet(r.contents[1])) /\ l \notin r.lines
      BY <1>2, <2>3, <2>6, <2>8
    <2> QED
      BY <1>2, <2>1, <2>3, <2>4, <2>5, <2>9, <2>10, <2>11, SeeingKeepsLines
  <1>6. CASE CaptureSkip(i)
    <2>1. Captured(i, <<>>, trees[q.base + 1]) /\ q.is = "unseen"
      BY <1>2, <1>6 DEF CaptureSkip, Sees
    <2> QED
      BY <1>5, <2>1
  <1>7. CASE CaptureRead(i)
    <2>1. Captured(i, <<work>>, work) /\ q.is = "checked" /\ <<work>> # <<>>
      BY <1>2, <1>7 DEF CaptureRead, Sees
    <2> QED
      BY <1>5, <2>1
  <1> QED
    BY <1>4, <1>6, <1>7

\* The daemon carries out the first element: what does not depend on what it is.
LEMMA PoppedKeepsLines ==
  ASSUME Sound, Complete, queue # <<>>, queue' = Tail(queue), UNCHANGED <<files, hooks, doubtful, missed>>,
         Seen' = IF Asks(1) THEN Seen ELSE Seen + 1,
         Asks(1) /\ Live(1) => View'.content = queue[1].contents[1],
         \A l \in ToSet(View'.content) :
           \/ l \in ToSet(View.content)
           \/ queue[1].contents # <<>> /\ l \in ToSet(queue[1].contents[1])
           \/ ~Asks(1) /\ l \in ToSet(trees[Seen + 1]),
         \A l \in DOMAIN by : Followed(l) /\ Needed(1, l) /\ ~Pending(1, l) =>
           l \in DOMAIN View'.names \/ l \in ToSet(trees[Seen'])
  PROVE  AskedIsNew' /\ LaterIsPending' /\ Snapped' /\ KnownLines'
  <1>1. Shape /\ Versions /\ Queued /\ AskedIsNew /\ LaterIsPending /\ Snapped
    BY DEF Sound, Complete
  <1>2. /\ work' = work /\ trees' = trees /\ modified' = modified /\ by' = by
        /\ edit' = edit /\ doubtful' = doubtful /\ missed' = missed
    BY DEF files, hooks
  <1>3. /\ Len(queue) = Len(queue') + 1 /\ Len(queue') \in Nat
        /\ 1 \in DOMAIN queue /\ DOMAIN queue' = 1 .. Len(queue')
        /\ \A k \in DOMAIN queue' : k \in Nat \ {0} /\ k + 1 \in DOMAIN queue /\ queue'[k] = queue[k + 1]
        /\ \A k \in DOMAIN queue : k # 1 => k - 1 \in DOMAIN queue' /\ queue'[k - 1] = queue[k]
        /\ DOMAIN queue = 1 .. Len(queue)
    BY <1>1, TailElements, ShapeFacts
  <1>4. \A l : Followed(l)' <=> Followed(l)
    BY <1>2 DEF Followed
  <1>5. \A k \in DOMAIN queue' : (Asks(k)' <=> Asks(k + 1)) /\ (Live(k)' <=> Live(k + 1))
    <2>1. \A k \in DOMAIN queue' : Live(k)' <=> Live(k + 1)
      BY PoppedKeeps
    <2>2. \A k \in DOMAIN queue' : Asks(k)' <=> Asks(k + 1)
      BY <1>3 DEF Asks
    <2> QED
      BY <2>1, <2>2
  <1>6. ASSUME NEW j \in Nat, NEW l, Pending(j + 1, l)
        PROVE  Pending(j, l)'
    <2>1. ASSUME NEW k \in DOMAIN queue, j + 1 < k, Asks(k), l \in queue[k].lines
          PROVE  Pending(j, l)'
      <3>1. k # 1 /\ k \in Nat /\ j < k - 1 /\ (k - 1) + 1 = k
        BY <1>3, <2>1
      <3>2. k - 1 \in DOMAIN queue' /\ queue'[k - 1] = queue[k]
        BY <1>3, <3>1
      <3>3. PICK m : m = k - 1
        OBVIOUS
      <3>4. m \in DOMAIN queue' /\ j < m /\ Asks(m)' /\ l \in queue'[m].lines
        BY <1>5, <2>1, <3>1, <3>2, <3>3
      <3> QED
        BY <3>4 DEF Pending
    <2>2. ASSUME NEW a \in Agents, l \in edit[a].lines
          PROVE  Pending(j, l)'
      BY <1>2, <2>2 DEF Pending
    <2> QED
      BY <1>6, <2>1, <2>2 DEF Pending
  <1>7. ASSUME NEW j \in Nat, NEW l, Needed(j, l)'
        PROVE  Needed(j + 1, l)
    <2>1. ASSUME NEW k \in DOMAIN queue', j < k, ~Asks(k)', l \in ToSet(trees'[queue'[k].base + 1])
          PROVE  Needed(j + 1, l)
      <3>1. k + 1 \in DOMAIN queue /\ j + 1 < k + 1 /\ ~Asks(k + 1) /\ queue'[k] = queue[k + 1]
        BY <1>3, <1>5, <2>1
      <3> QED
        BY <1>2, <2>1, <3>1 DEF Needed
    <2> QED
      BY <1>2, <1>7, <2>1 DEF Needed
  <1>8. ~Asks(1) => queue[1].base = Seen /\ Seen + 1 \in DOMAIN trees
    <2>1. ~Asks(1) => queue[1].base = Seen
      BY <1>1, HeadFacts
    <2>2. ~Asks(1) => queue[1].base + 1 \in DOMAIN trees
      BY <1>1, <1>3 DEF Queued
    <2> QED
      BY <2>1, <2>2
  <1>9. ASSUME NEW l, NEW c, NEW n \in Nat \ {0}, ~Asks(1) => Seen + 1 <= c, Unknown(l, c, n + 1)
        PROVE  Unknown(l, c, n)'
    <2>1. l \notin ToSet(View'.content)
      <3>1. 1 < n + 1
        OBVIOUS
      <3>2. /\ l \notin ToSet(View.content)
            /\ queue[1].contents # <<>> => l \notin ToSet(queue[1].contents[1])
            /\ ~Asks(1) => l \notin ToSet(trees[Seen + 1])
        BY <1>3, <1>8, <1>9, <3>1 DEF Unknown
      <3> QED
        BY <3>2
    <2>2. ASSUME NEW j \in DOMAIN queue', j < n
          PROVE  /\ queue'[j].contents # <<>> => l \notin ToSet(queue'[j].contents[1])
                 /\ ~Asks(j)' => l \notin queue'[j].lines
      <3>1. j + 1 \in DOMAIN queue /\ j + 1 < n + 1 /\ queue'[j] = queue[j + 1] /\ (Asks(j)' <=> Asks(j + 1))
        BY <1>3, <1>5, <2>2
      <3> QED
        BY <1>9, <3>1 DEF Unknown
    <2> QED
      BY <1>2, <1>9, <2>1, <2>2 DEF Unknown
  <1>10. AskedIsNew'
    <2>1. ASSUME NEW k \in DOMAIN queue', Asks(k)', NEW l \in queue'[k].lines, Followed(l)'
          PROVE  by'[l] = queue'[k].author /\ Live(k)' /\ Unknown(l, queue[k].base, k)'
      <3>1. k + 1 \in DOMAIN queue /\ Asks(k + 1) /\ queue'[k] = queue[k + 1] /\ k \in Nat \ {0}
        BY <1>3, <1>5, <2>1
      <3>2. by[l] = queue[k + 1].author /\ Live(k + 1) /\ Unknown(l, queue[k + 1].base, k + 1)
        BY <1>1, <1>4, <2>1, <3>1 DEF AskedIsNew
      <3>3. ~Asks(1) => Seen + 1 <= queue[k + 1].base
        <4>1. 1 < k + 1 /\ Seen \in Nat /\ queue[k + 1].base \in Nat
          BY <1>1, <3>1, ShapeFacts
        <4>2. ~Asks(1) => queue[1].base < queue[k + 1].base
          BY <1>3, <3>2, <4>1 DEF Live
        <4> QED
          BY <1>8, <4>1, <4>2
      <3>4. PICK b : b = queue[k + 1].base
        OBVIOUS
      <3>5. Unknown(l, b, k)'
        BY <1>9, <3>1, <3>2, <3>3, <3>4
      <3>6. Unknown(l, queue[k].base, k)' <=> Unknown(l, b, k)'
        BY <3>1, <3>4 DEF Unknown
      <3> QED
        BY <1>2, <1>5, <3>1, <3>2, <3>5, <3>6
    <2>2. ASSUME NEW a \in Agents, NEW l \in edit'[a].lines, Followed(l)'
          PROVE  /\ by'[l] = a /\ Unknown(l, Len(trees), Len(queue) + 1)'
                 /\ edit'[a].at \in {"post_head", "post_read"} => edit'[a].base = Len(trees')
      <3>1. PICK H, n : H = Len(trees) /\ n = Len(queue') + 1
        OBVIOUS
      <3>2. /\ by[l] = a /\ Unknown(l, Len(trees), Len(queue) + 1)
            /\ edit[a].at \in {"post_head", "post_read"} => edit[a].base = Len(trees)
        BY <1>1, <1>2, <1>4, <2>2 DEF AskedIsNew
      <3>3. n \in Nat \ {0} /\ n + 1 = Len(queue) + 1
        BY <1>3, <3>1
      <3>4. ~Asks(1) => Seen + 1 <= H
        BY <1>1, <1>8, <3>1, ShapeFacts
      <3>5. Unknown(l, H, n)'
        BY <1>9, <3>1, <3>2, <3>3, <3>4
      <3>6. Unknown(l, Len(trees), Len(queue) + 1)' <=> Unknown(l, H, n)'
        BY <1>2, <3>1 DEF Unknown
      <3> QED
        BY <1>2, <3>1, <3>2, <3>5, <3>6
    <2> QED
      BY <2>1, <2>2 DEF AskedIsNew
  <1>11. LaterIsPending'
    <2> SUFFICES ASSUME NEW j \in DOMAIN queue', queue'[j].is \in {"unseen", "checked"}
                 PROVE  /\ queue'[j].is = "unseen" => queue'[j].lines = DOMAIN by \/ queue'[j].base < modified
                        /\ \A l \in DOMAIN by : l \notin queue'[j].lines /\ Followed(l) => Pending(j, l)'
      BY <1>2, <1>4 DEF LaterIsPending
    <2>1. j \in Nat /\ j + 1 \in DOMAIN queue /\ queue'[j] = queue[j + 1]
      BY <1>3
    <2> QED
      BY <1>1, <1>6, <2>1 DEF LaterIsPending
  <1>12. Snapped'
    <2>1. ASSUME NEW j \in DOMAIN queue', queue'[j].is = "commit", NEW l \in DOMAIN by, Followed(l)'
          PROVE  l \in ToSet(Final(j)') \/ l \in ToSet(trees'[queue'[j].base + 1]) \/ Pending(j, l)'
      <3>1. j \in Nat /\ j + 1 \in DOMAIN queue /\ queue'[j] = queue[j + 1]
        BY <1>3
      <3>2. Final(j)' = Final(j + 1)
        BY <1>2, <3>1 DEF Final
      <3>3. l \in ToSet(Final(j + 1)) \/ l \in ToSet(trees[queue[j + 1].base + 1]) \/ Pending(j + 1, l)
        BY <1>1, <1>4, <2>1, <3>1 DEF Snapped
      <3> QED
        BY <1>2, <1>6, <3>1, <3>2, <3>3
    <2>2. ASSUME NEW j \in DOMAIN queue', Asks(j)', Live(j)', NEW l \in DOMAIN by, Followed(l)', Needed(j, l)'
          PROVE  l \in ToSet(queue'[j].contents[1]) \/ Pending(j, l)'
      <3>1. j \in Nat /\ j + 1 \in DOMAIN queue /\ queue'[j] = queue[j + 1] /\ Asks(j + 1) /\ Live(j + 1)
        BY <1>3, <1>5, <2>2
      <3>2. Needed(j + 1, l) /\ Followed(l)
        BY <1>4, <1>7, <2>2, <3>1
      <3>3. l \in ToSet(queue[j + 1].contents[1]) \/ Pending(j + 1, l)
        BY <1>1, <3>1, <3>2 DEF Snapped
      <3> QED
        BY <1>6, <3>1, <3>3
    <2> QED
      BY <1>2, <2>1, <2>2 DEF Snapped
  <1>13. KnownLines'
    <2> SUFFICES ASSUME NEW l \in DOMAIN by, Followed(l)', Needed(0, l)'
                 PROVE  l \in DOMAIN View'.names \/ l \in ToSet(trees'[Seen']) \/ Pending(0, l)'
      BY <1>2 DEF KnownLines
    <2>1. 0 \in Nat /\ 0 + 1 = 1
      OBVIOUS
    <2>2. Needed(1, l) /\ Followed(l)
      <3>1. Needed(0 + 1, l)
        BY <1>7
      <3> QED
        BY <1>4, <2>1, <3>1
    <2>3. CASE Pending(1, l)
      <3>1. Pending(0 + 1, l)
        BY <2>1, <2>3
      <3> QED
        BY <1>6, <3>1
    <2>4. CASE ~Pending(1, l)
      BY <1>2, <2>2, <2>4
    <2> QED
      BY <2>3, <2>4
  <1> QED
    BY <1>10, <1>11, <1>12, <1>13

\* What is needed and asked for behind the first element, or by it.
LEMMA FirstOrLater ==
  ASSUME Shape, queue # <<>>, NEW l
  PROVE  /\ Needed(1, l) => Needed(0, l)
         /\ Pending(0, l) => Pending(1, l) \/ (Asks(1) /\ l \in queue[1].lines)
  <1>1. DOMAIN queue = 1 .. Len(queue) /\ Len(queue) \in Nat
    BY ShapeFacts
  <1>2. \A k \in DOMAIN queue : (1 < k => 0 < k) /\ (0 < k => k = 1 \/ 1 < k)
    BY <1>1
  <1> QED
    BY <1>2 DEF Needed, Pending

LEMMA CheckpointIsComplete ==
  ASSUME Sound, Complete, Checkpoint
  PROVE  Complete'
  <1>1. /\ Shape /\ Versions /\ Queued /\ AskedIsNew /\ Snapped /\ KnownLines
        /\ \A k \in DOMAIN notes : NoteRight(k) /\ NoteFull(k)
    BY DEF Sound, Complete
  <1>2. /\ queue # <<>> /\ queue' = Tail(queue) /\ notes' = notes
        /\ UNCHANGED <<files, hooks, doubtful, missed>>
        /\ Asks(1) /\ 1 \in DOMAIN queue
        /\ Seen' = Seen
        /\ ~Live(1) => View' = View
        /\ Live(1) =>
             /\ View'.content = queue[1].contents[1]
             /\ \A x : x \in DOMAIN View'.names <=>
                  /\ x \in ToSet(queue[1].contents[1])
                  /\ x \in DOMAIN View.names \/ (queue[1].author # Human /\ x \notin ToSet(View.content))
    BY CheckpointFacts
  <1>3. trees' = trees /\ by' = by /\ doubtful' = doubtful /\ missed' = missed
    BY <1>2 DEF files
  <1>4. Past
    BY <1>3 DEF Past
  <1>5. ASSUME NEW l \in DOMAIN by, Followed(l), Needed(1, l), ~Pending(1, l)
        PROVE  l \in DOMAIN View'.names \/ l \in ToSet(trees[Seen])
    <2>1. l \in DOMAIN View.names \/ l \in ToSet(trees[Seen]) \/ l \in queue[1].lines
      BY <1>1, <1>2, <1>5, FirstOrLater DEF KnownLines
    <2>2. l \in queue[1].lines => by[l] = queue[1].author /\ Live(1) /\ l \notin ToSet(View.content)
      BY <1>1, <1>2, <1>5 DEF AskedIsNew, Unknown
    <2>3. by[l] \in Agents /\ Human \notin Agents
      BY <1>1, <1>5, ShapeFacts DEF Followed
    <2>4. CASE Live(1)
      <3>1. l \in ToSet(queue[1].contents[1])
        BY <1>1, <1>2, <1>5, <2>4 DEF Snapped
      <3> QED
        BY <1>2, <2>1, <2>2, <2>3, <2>4, <3>1
    <2>5. CASE ~Live(1)
      BY <1>2, <2>1, <2>2, <2>5
    <2> QED
      BY <2>4, <2>5
  <1>6. \A l \in ToSet(View'.content) : l \in ToSet(View.content) \/ l \in ToSet(queue[1].contents[1])
    BY <1>2
  <1>7. queue[1].contents # <<>>
    BY <1>1, <1>2, QueueFacts
  <1>8. AskedIsNew' /\ LaterIsPending' /\ Snapped' /\ KnownLines'
    <2>1. \A l \in DOMAIN by : Followed(l) /\ Needed(1, l) /\ ~Pending(1, l) =>
            l \in DOMAIN View'.names \/ l \in ToSet(trees[Seen'])
      BY <1>2, <1>5
    <2> QED
      BY <1>2, <1>6, <1>7, <2>1, PoppedKeepsLines
  <1>9. (\A k \in DOMAIN notes : NoteFull(k))'
    <2> SUFFICES ASSUME NEW k \in DOMAIN notes
                 PROVE  NoteFull(k)'
      BY <1>2
    <2>1. k \in Nat \ {0}
      BY <1>1, ShapeFacts
    <2> QED
      BY <1>1, <1>2, <1>3, <1>4, <2>1, NoteFullKept
  <1> QED
    BY <1>8, <1>9 DEF Complete

LEMMA CommitEventIsComplete ==
  ASSUME Sound, Complete, CommitEvent
  PROVE  Complete'
  <1>1. /\ Shape /\ Versions /\ Queued /\ Convex /\ AskedIsNew /\ Snapped /\ KnownLines
        /\ \A k \in DOMAIN notes : NoteRight(k) /\ NoteFull(k)
    BY DEF Sound, Complete
  <1>2. /\ queue # <<>> /\ queue' = Tail(queue) /\ UNCHANGED <<files, hooks, doubtful, missed>>
        /\ 1 \in DOMAIN queue /\ queue[1].is = "commit" /\ queue[1].base = Seen
        /\ Seen \in DOMAIN trees /\ Seen + 1 \in DOMAIN trees
        /\ \E final, left, note :
             /\ Outcome(final, left, note) /\ notes' = Append(notes, note)
             /\ log' = [log EXCEPT ![Seen] = EmptyLog,
                                   ![Seen + 1] = [initial |-> IF left = Nobody THEN <<>> ELSE <<Named(final, left)>>,
                                                  entry |-> <<>>]]
    BY EventFacts
  <1>3. PICK final, left, note :
          /\ Outcome(final, left, note) /\ notes' = Append(notes, note)
          /\ log' = [log EXCEPT ![Seen] = EmptyLog,
                                ![Seen + 1] = [initial |-> IF left = Nobody THEN <<>> ELSE <<Named(final, left)>>,
                                               entry |-> <<>>]]
    BY <1>2
  <1>4. /\ trees' = trees /\ by' = by /\ doubtful' = doubtful /\ missed' = missed
    BY <1>2 DEF files
  <1>5. PICK s, c : s = Seen /\ c = Seen + 1
    OBVIOUS
  <1>6. /\ Len(notes') = s /\ DOMAIN notes' = 1 .. s /\ DOMAIN notes = 1 .. s - 1
        /\ (\A k \in DOMAIN notes : notes'[k] = notes[k]) /\ notes'[s] = note
        /\ Seen' = c
        /\ View' = IF left = Nobody THEN Named(trees[c], Nobody) ELSE Named(final, left)
    BY <1>2, <1>3, <1>4, <1>5, LogLeft
  <1>7. /\ s \in DOMAIN trees /\ c \in DOMAIN trees /\ s \in Nat \ {0} /\ c = s + 1 /\ c - 1 = s
        /\ queue[1].base = s /\ ~Asks(1)
    BY <1>1, <1>2, <1>5, ShapeFacts DEF Asks
  <1>8. /\ queue[1].contents # <<>> => final = queue[1].contents[1]
        /\ queue[1].contents = <<>> => final = trees[c]
        /\ final # trees[c] => \A l \in ToSet(final) : l \in DOMAIN View.names => l \in DOMAIN left
        /\ note.final = final
        /\ ToSet(trees[c]) \subseteq ToSet(final) =>
             \A n \in Committed(c) :
               trees[c][n] \in (DOMAIN View.names) \ doubtful => <<n, by[trees[c][n]]>> \in note.claims
    BY <1>3, <1>5 DEF Outcome
  <1>9. Past
    BY <1>4 DEF Past
  <1>10. /\ left # Nobody => View'.names = left /\ View'.content = final
         /\ left = Nobody => View'.content = trees[c]
         /\ DOMAIN Nobody = {}
    BY <1>6, NamesFacts DEF Named
  <1>11. \A l \in ToSet(View'.content) :
           \/ l \in ToSet(View.content)
           \/ queue[1].contents # <<>> /\ l \in ToSet(queue[1].contents[1])
           \/ ~Asks(1) /\ l \in ToSet(trees[Seen + 1])
    BY <1>5, <1>7, <1>8, <1>10
  <1>12. ASSUME NEW l \in DOMAIN by, Followed(l), Needed(1, l), ~Pending(1, l)
         PROVE  l \in DOMAIN View'.names \/ l \in ToSet(trees[c])
    <2> SUFFICES ASSUME l \notin ToSet(trees[c])
                 PROVE  l \in DOMAIN View'.names
      OBVIOUS
    <2>1. l \in DOMAIN View.names \/ l \in ToSet(trees[s])
      BY <1>1, <1>2, <1>5, <1>7, <1>12, FirstOrLater DEF KnownLines
    <2>2. l \in ToSet(Final(1)) \/ l \in ToSet(trees[queue[1].base + 1])
      BY <1>1, <1>2, <1>12 DEF Snapped
    <2>3. l \in ToSet(final)
      BY <1>7, <1>8, <2>2 DEF Final
    <2>4. final # trees[c] /\ queue[1].contents # <<>> /\ final = queue[1].contents[1]
      BY <1>8, <2>3
    <2>5. l \notin ToSet(trees[s])
      BY <1>1, <1>2, <1>7, <2>3, <2>4 DEF Convex
    <2>6. l \in DOMAIN left
      BY <1>8, <2>1, <2>3, <2>4, <2>5
    <2> QED
      BY <1>10, <2>6
  <1>13. AskedIsNew' /\ LaterIsPending' /\ Snapped' /\ KnownLines'
    <2>1. \A l \in DOMAIN by : Followed(l) /\ Needed(1, l) /\ ~Pending(1, l) =>
            l \in DOMAIN View'.names \/ l \in ToSet(trees[Seen'])
      BY <1>6, <1>12
    <2>2. Seen' = IF Asks(1) THEN Seen ELSE Seen + 1
      BY <1>5, <1>6, <1>7
    <2> QED
      BY <1>2, <1>7, <1>11, <2>1, <2>2, PoppedKeepsLines
  <1>14. ASSUME ToSet(trees[c]) \subseteq ToSet(final), NEW n \in Committed(c), Followed(trees[c][n])
         PROVE  <<n, by[trees[c][n]]>> \in note.claims
    <2> DEFINE l == trees[c][n]
    <2>1. l \in ToSet(trees[c]) /\ l \notin ToSet(trees[s]) /\ l \in DOMAIN by
      <3>1. l \in ToSet(trees[c]) /\ l \notin ToSet(trees[s])
        BY <1>7 DEF Committed, Lines, ToSet
      <3> QED
        BY <1>1, <1>7, <3>1, LineFacts
    <2> HIDE DEF l
    <2>2. Needed(0, l)
      <3>1. 0 < 1 /\ l \in ToSet(trees[queue[1].base + 1])
        BY <1>7, <2>1
      <3> QED
        BY <1>2, <1>7, <3>1 DEF Needed
    <2>3. Followed(l)
      BY <1>14 DEF l
    <2>4. ~Pending(0, l)
      <3>1. ASSUME NEW k \in DOMAIN queue, Asks(k), l \in queue[k].lines
            PROVE  FALSE
        <4>1. Live(k) /\ Unknown(l, queue[k].base, k)
          BY <1>1, <2>3, <3>1 DEF AskedIsNew
        <4>2. 1 < k /\ queue[k].base \in Nat
          BY <1>1, <1>7, <3>1, ShapeFacts
        <4>3. s < queue[k].base
          BY <1>2, <1>7, <4>1, <4>2 DEF Live
        <4>4. c <= queue[k].base
          BY <1>7, <4>2, <4>3
        <4> QED
          BY <1>7, <2>1, <4>1, <4>4 DEF Unknown
      <3>2. ASSUME NEW a \in Agents, l \in edit[a].lines
            PROVE  FALSE
        <4>1. Unknown(l, Len(trees), Len(queue) + 1)
          BY <1>1, <2>3, <3>2 DEF AskedIsNew
        <4>2. c <= Len(trees)
          BY <1>1, <1>7, ShapeFacts
        <4> QED
          BY <1>7, <2>1, <4>1, <4>2 DEF Unknown
      <3> QED
        BY <3>1, <3>2 DEF Pending
    <2>5. l \in DOMAIN View.names
      BY <1>1, <1>5, <2>1, <2>2, <2>3, <2>4 DEF KnownLines
    <2>6. l \notin doubtful
      BY <2>3 DEF Followed
    <2> QED
      BY <1>8, <1>14, <2>5, <2>6 DEF l
  <1>15. (\A k \in DOMAIN notes : NoteFull(k))'
    <2> SUFFICES ASSUME NEW k \in DOMAIN notes'
                 PROVE  NoteFull(k)'
      OBVIOUS
    <2>1. CASE k # s
      <3>1. k \in DOMAIN notes /\ k \in Nat \ {0} /\ notes'[k] = notes[k]
        BY <1>6, <1>7, <2>1
      <3> QED
        BY <1>1, <1>4, <1>9, <3>1, NoteFullKept
    <2>2. CASE k = s
      <3>1. notes'[k] = note /\ k + 1 = c /\ note.final = final
        BY <1>6, <1>7, <1>8, <2>2
      <3>2. Intact(k)' => ToSet(trees[c]) \subseteq ToSet(final)
        BY <1>4, <3>1 DEF Intact
      <3>3. Committed(c)' = Committed(c)
        BY <1>4 DEF Committed, Lines
      <3>4. ToSet(trees[c]) \subseteq ToSet(final) =>
              \A n \in Committed(c) :
                by[trees[c][n]] \in Agents /\ trees[c][n] \notin doubtful \cup missed => <<n, by[trees[c][n]]>> \in note.claims
        BY <1>14 DEF Followed
      <3> QED
        BY <1>4, <3>1, <3>2, <3>3, <3>4 DEF NoteFull, Followed
    <2> QED
      BY <2>1, <2>2
  <1> QED
    BY <1>13, <1>15 DEF Complete

(* All steps *)

LEMMA InitIsComplete ==
  ASSUME Init
  PROVE  Complete
  <1>1. /\ DOMAIN queue = {} /\ notes = <<>>
        /\ by = [l \in DOMAIN Base |-> Human] /\ \A a \in Agents : edit[a].lines = {}
        /\ Human \notin Agents
    BY CommitAssumption DEF Init, Idle, CommitAssumption
  <1>2. \A l \in DOMAIN by : ~Followed(l)
    BY <1>1 DEF Followed
  <1>3. AskedIsNew /\ LaterIsPending /\ Snapped
    BY <1>1 DEF AskedIsNew, LaterIsPending, Snapped
  <1>4. KnownLines
    BY <1>2 DEF KnownLines
  <1> QED
    BY <1>1, <1>3, <1>4 DEF Complete

LEMMA StepIsComplete ==
  ASSUME Sound, Complete, [Next]_vars
  PROVE  Complete'
  <1>1. CASE UNCHANGED vars
    <2>1. UNCHANGED <<trees, queue, log, notes>> /\ Past
      BY <1>1 DEF vars, Past
    <2> QED
      BY <1>1, <2>1, QuietKeeps DEF vars
  <1>2. CASE HumanWrites \/ \E a \in Agents : AgentWrites(a)
    BY <1>2, WritingIsComplete
  <1>3. ASSUME NEW a \in Agents, ReadHead(a) \/ ReadFile(a) \/ Request(a)
        PROVE  Complete'
    BY <1>3, ReadingIsComplete, RequestIsComplete
  <1>4. CASE Stage
    BY <1>4, StageIsComplete
  <1>5. CASE Commit
    BY <1>5, CommitIsComplete
  <1>6. ASSUME NEW i \in DOMAIN queue, CaptureCheck(i) \/ CaptureSkip(i) \/ CaptureRead(i)
        PROVE  Complete'
    BY <1>6, SeeingIsComplete
  <1>7. CASE Checkpoint
    BY <1>7, CheckpointIsComplete
  <1>8. CASE CommitEvent
    BY <1>8, CommitEventIsComplete
  <1> QED
    BY <1>1, <1>2, <1>3, <1>4, <1>5, <1>6, <1>7, <1>8 DEF Next

----------------------------------------------------------------------------
(* What follows from the invariant *)

LEMMA VersionContent ==
  ASSUME Shape, NEW s, Version(s, Len(by))
  PROVE  Content(s)
  <1>1. Len(by) \in Nat /\ MaxLines \in Nat /\ Len(by) <= MaxLines
    BY ShapeFacts DEF Shape
  <1>2. s \in Seq(1 .. Len(by)) /\ Len(s) <= Len(by)
    BY DEF Version
  <1>3. Len(s) \in Nat
    BY <1>2, LenProperties
  <1> QED
    BY <1>1, <1>2, <1>3 DEF Content

LEMMA SoundHasType ==
  ASSUME Sound
  PROVE  TypeOK
  <1> USE ShapeFacts
  <1>1. Shape /\ Versions /\ Logs /\ Queued
    BY DEF Sound
  <1>2. Content(work) /\ Content(index) /\ \A c \in DOMAIN trees : Content(trees[c])
    BY <1>1, VersionContent DEF Versions
  <1>3. ASSUME NEW r \in ToSet(queue)
        PROVE  /\ r.is \in {"request", "unseen", "checked", "commit"}
               /\ r.base \in DOMAIN trees
               /\ \A s \in ToSet(r.contents) : Content(s)
               /\ r.lines \subseteq DOMAIN by
    <2>1. PICK i \in DOMAIN queue : r = queue[i]
      BY <1>3 DEF ToSet
    <2>2. r.is \in {"request", "unseen", "checked", "commit"}
      BY <1>1, <2>1, QueueFacts
    <2>3. r.base \in DOMAIN trees
      BY <1>1, <2>1 DEF Queued
    <2>4. \A s \in ToSet(r.contents) : Content(s)
      <3> TAKE s \in ToSet(r.contents)
      <3>1. PICK k \in DOMAIN r.contents : s = r.contents[k]
        BY DEF ToSet
      <3>2. Version(s, Len(by))
        BY <1>1, <2>1, <3>1 DEF Versions
      <3> QED
        BY <1>1, <3>2, VersionContent
    <2>5. r.lines \subseteq DOMAIN by
      BY <1>1, <2>1 DEF Versions
    <2> QED
      BY <2>2, <2>3, <2>4, <2>5
  <1>4. ASSUME NEW c \in DOMAIN log, NEW x \in ToSet(log[c].initial) \cup ToSet(log[c].entry)
        PROVE  NamedOk(x)
    <2>1. Well(x, by, Free(c))
      BY <1>1, <1>4 DEF Logs, LogWell, Shape
    <2> QED
      BY <1>1, <2>1, VersionContent DEF Well, NamedOk
  <1>5. Len(notes) < Len(trees)
    BY <1>1 DEF Seen, Queued
  <1>6. ASSUME NEW a \in Agents
        PROVE  /\ edit[a].at \in {"idle", "pre_head", "pre_read", "editing", "post_head", "post_read"}
               /\ edit[a].base \in DOMAIN trees
               /\ Content(edit[a].content)
               /\ edit[a].lines \subseteq DOMAIN by
    <2>1. edit[a] \in Hook
      BY <1>1 DEF Shape
    <2>2. edit[a].at \in {"idle", "pre_head", "pre_read", "editing", "post_head", "post_read"}
      BY <2>1 DEF Hook
    <2>3. Content(edit[a].content)
      BY <1>1, VersionContent DEF Versions
    <2> HIDE ShapeFacts
    <2> QED
      BY <1>1, <2>2, <2>3 DEF Versions, Queued
  <1>7. modified \in 0 .. Len(trees) /\ deletes \in 0 .. MaxDeletes /\ edits \in 0 .. MaxEdits
        /\ doubtful \subseteq DOMAIN by /\ missed \subseteq DOMAIN by
    BY <1>1 DEF Shape
  <1> HIDE ShapeFacts
  <1> QED
    BY <1>2, <1>3, <1>4, <1>5, <1>6, <1>7 DEF TypeOK

LEMMA SoundNamesAuthors ==
  ASSUME Sound
  PROVE  AuthorsNamed
  <1> USE ShapeFacts
  <1>1. Shape /\ Logs /\ Queued /\ \A k \in DOMAIN notes : NoteRight(k)
    BY DEF Sound
  <1>2. LogNamesAuthors
    <2> SUFFICES ASSUME NEW c \in (DOMAIN log) \ (DOMAIN notes),
                        NEW x \in ToSet(log[c].initial) \cup ToSet(log[c].entry),
                        NEW l \in (DOMAIN x.names) \ doubtful,
                        c \in DOMAIN trees => l \notin ToSet(trees[c])
                 PROVE  x.names[l] = by[l]
      BY DEF LogNamesAuthors
    <2>1. c \in 1 .. MaxCommits /\ Seen <= c
      BY <1>1 DEF Shape, Seen
    <2>2. LogWell(log[c], by, Free(c)) /\ (Seen < c => log[c] = EmptyLog)
      BY <1>1, <2>1 DEF Logs
    <2>3. c = Seen
      <3>1. ToSet(EmptyLog.initial) \cup ToSet(EmptyLog.entry) = {}
        <4> HIDE ShapeFacts
        <4> QED
          BY DEF EmptyLog, ToSet
      <3>2. ~(Seen < c)
        BY <2>2, <3>1
      <3> QED
        BY <1>1, <2>1, <3>2
    <2>4. Free(c) = doubtful \cup ToSet(trees[c]) /\ c \in DOMAIN trees
      BY <1>1, <2>3 DEF Free, Queued
    <2> HIDE ShapeFacts
    <2> QED
      BY <2>2, <2>4 DEF LogWell, Well
  <1>3. NoteNamesAuthors
    BY <1>1 DEF NoteNamesAuthors, NoteRight
  <1> QED
    BY <1>2, <1>3, SoundHasType DEF AuthorsNamed

LEMMA CompleteKeepsUncommitted ==
  ASSUME Sound, Complete
  PROVE  UncommittedKept
  <1>1. Shape /\ Versions /\ Logs /\ Queued /\ Hooks /\ KnownLines
    BY DEF Sound, Complete
  <1> SUFFICES ASSUME queue = <<>>, \A a \in Agents : ~Open(a),
                      NEW l \in ToSet(work) \ ToSet(trees[HEAD]), Followed(l)
               PROVE  Known(log[HEAD]) # <<>> /\ l \in DOMAIN Known(log[HEAD])[1].names
    BY DEF UncommittedKept
  <1>2. HEAD = Seen
    <2>1. \A c \in DOMAIN trees : ~(Seen <= c /\ c < Len(trees))
      BY <1>1 DEF Queued
    <2>2. Seen \in DOMAIN trees /\ DOMAIN trees = 1 .. Len(trees) /\ Len(trees) \in Nat
      BY <1>1, ShapeFacts DEF Queued
    <2>3. Seen <= Seen /\ Seen <= Len(trees) /\ ~(Seen < Len(trees))
      BY <2>1, <2>2
    <2> QED
      BY <2>2, <2>3 DEF HEAD
  <1>3. l \in DOMAIN by /\ Needed(0, l)
    BY <1>1, LineFacts DEF Needed
  <1>4. ~Pending(0, l)
    <2>1. \A a \in Agents : edit[a].lines = {}
      BY <1>1 DEF Hooks, Open
    <2> QED
      BY <2>1 DEF Pending
  <1>5. l \in DOMAIN View.names
    BY <1>1, <1>2, <1>3, <1>4 DEF KnownLines
  <1>6. Seen \in DOMAIN trees /\ Version(trees[Seen], Len(by)) /\ LogWell(log[Seen], by, Free(Seen)) /\ by \in Authors
    BY <1>1, ViewFacts DEF Shape
  <1>7. /\ Known(log[Seen]) = <<>> => DOMAIN View.names = {}
        /\ Known(log[Seen]) # <<>> => Known(log[Seen])[1] = View
    BY <1>6, KnownFacts DEF View
  <1> QED
    BY <1>2, <1>5, <1>7

\* Sound and Complete hold in every state that can be reached.  Sound: the queue
\* leads from the commit whose working log is in use to HEAD, and each checkpoint
\* an agent asks for will find what others wrote known, committed or in doubt.
\* Complete: a line of an agent that a commit or the worktree still needs is known
\* to that log or is to be asked for, but for the exceptions of Followed.
THEOREM QueueAndLogAgree == Spec => [](Sound /\ Complete)
  <1>1. Init => Sound /\ Complete
    BY InitIsSound, InitIsComplete
  <1>2. Sound /\ Complete /\ [Next]_vars => (Sound /\ Complete)'
    BY StepIsSound, StepIsComplete
  <1> QED
    BY <1>1, <1>2, PTL DEF Spec

\* Neither a working log nor a note names an agent for a line it did not write,
\* but for lines that others wrote into an edit, however late the daemon carries
\* out checkpoints and commits, wherever writes and commits fall between an
\* agent's hooks, and whatever was staged, committed in part, deleted or carried
\* over.
THEOREM AuthorsAreNamed == Spec => []AuthorsNamed
  <1>1. Sound /\ Complete => AuthorsNamed
    BY SoundNamesAuthors
  <1> QED
    BY <1>1, QueueAndLogAgree, PTL

\* A line of an agent is claimed by the note of the commit that added it, unless
\* somebody else's edit was open when it was written, it was committed before the
\* agent's checkpoint was asked for or another commit was, or the worktree was
\* read at the wrong time or had lost a line of the commit.
THEOREM NotesAreComplete == Spec => []NoteIsComplete
  <1>1. Sound /\ Complete => NoteIsComplete
    BY DEF Complete, NoteIsComplete, NoteFull
  <1> QED
    BY <1>1, QueueAndLogAgree, PTL

\* A daemon with nothing left to do, while nobody is at work, knows every line that
\* an agent wrote and nobody committed, with the exceptions of NotesAreComplete.
THEOREM UncommittedLinesAreKept == Spec => []UncommittedKept
  <1>1. Sound /\ Complete => UncommittedKept
    BY CompleteKeepsUncommitted
  <1> QED
    BY <1>1, QueueAndLogAgree, PTL
=============================================================================
