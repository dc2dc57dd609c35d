------------------------ MODULE KernelQueueWakeups --------------------------
(***************************************************************************)
(* Proofs that no task of KernelQueue waits for an item or a place that is *)
(* there for it, for every number of tasks, length of the queue, block     *)
(* times and calls of tasks and interrupt handlers.                        *)
(***************************************************************************)
EXTENDS KernelQueueProofs, NaturalLemmas, FiniteSetTheorems

-----------------------------------------------------------------------------
(* Counting tasks.                                                         *)

\* A set of tasks is finite.
LEMMA TasksFinite ==
    ASSUME NEW A \in SUBSET Task
    PROVE  IsFiniteSet(A) /\ Cardinality(A) \in Nat /\ Cardinality(A) <= Cardinality(Task)
  BY QueueAssumption, FS_Subset, FS_CardinalityType

\* Positions of a list.
LEMMA IntervalCount ==
    ASSUME NEW n \in Nat
    PROVE  IsFiniteSet(1..n) /\ Cardinality(1..n) = n
<1>1. 1 \in Int /\ n \in Int
    OBVIOUS
<1>2. IsFiniteSet(1..n) /\ Cardinality(1..n) = IF 1 > n THEN 0 ELSE n - 1 + 1
    BY <1>1, FS_Interval
<1> QED BY <1>2

\* More tasks.
LEMMA SubsetCount ==
    ASSUME NEW B \in SUBSET Task, NEW A \in SUBSET B
    PROVE  Cardinality(A) \in Nat /\ Cardinality(B) \in Nat /\ Cardinality(A) <= Cardinality(B)
<1>1. IsFiniteSet(B) /\ Cardinality(B) \in Nat
    BY TasksFinite
<1>2. IsFiniteSet(A) /\ Cardinality(A) <= Cardinality(B)
    BY <1>1, FS_Subset
<1> QED BY <1>1, <1>2, FS_CardinalityType

\* One task less.
LEMMA RemoveCount ==
    ASSUME NEW A \in SUBSET Task, NEW t \in A
    PROVE  Cardinality(A) \in Nat /\ Cardinality(A \ {t}) = Cardinality(A) - 1
  BY TasksFinite, FS_RemoveElement

Distinct(s) == \A i, j \in 1..Len(s) : s[i] = s[j] => i = j

\* The first n tasks of a list, if they come to a set.
LEMMA AddCount ==
    ASSUME NEW B \in SUBSET Task, NEW A \in SUBSET B, NEW s \in Seq(Task), Distinct(s),
           NEW n \in 0..Len(s), \A i \in 1..n : s[i] \in B \ A
    PROVE  Cardinality(A) + n <= Cardinality(B)
<1>1. IsFiniteSet(B) /\ IsFiniteSet(B \ A) /\ Cardinality(B \ A) = Cardinality(B) - Cardinality(B \cap A)
    BY TasksFinite, FS_Difference
<1>2. B \cap A = A
    OBVIOUS
<1> DEFINE f == [i \in 1..n |-> s[i]]
<1>3. n \in Nat /\ 1..n \subseteq 1..Len(s)
    OBVIOUS
<1>4. f \in Injection(1..n, B \ A)
    BY <1>3 DEF Injection, IsInjective, Distinct
<1>5. Cardinality(1..n) <= Cardinality(B \ A)
    BY <1>1, <1>4, FS_Injection
<1>6. Cardinality(1..n) = n
    BY <1>3, IntervalCount
<1>7. Cardinality(A) \in Nat /\ Cardinality(B) \in Nat
    BY SubsetCount
<1>8. n <= Cardinality(B) - Cardinality(A)
    BY <1>1, <1>2, <1>5, <1>6
<1> QED BY <1>3, <1>7, <1>8

\* A list without duplicates is not longer than there are tasks.
LEMMA LengthCount ==
    ASSUME NEW s \in Seq(Task), Distinct(s)
    PROVE  Len(s) <= Cardinality(Task)
<1>1. Len(s) \in 0..Len(s) /\ {} \in SUBSET Task /\ Task \in SUBSET Task /\ \A i \in 1..Len(s) : s[i] \in Task \ {}
    OBVIOUS
<1>2. Cardinality({}) + Len(s) <= Cardinality(Task)
    BY <1>1, AddCount
<1> QED BY <1>2, FS_EmptySet

-----------------------------------------------------------------------------
(* Event lists.                                                            *)

\* Members lists what the positions hold.
LEMMA MemberAt ==
    ASSUME NEW s \in Seq(Task), NEW t
    PROVE  t \in Members(s) <=> \E i \in 1..Len(s) : s[i] = t
  BY DEF Members

\* A list whose first n tasks have been woken.
LEMMA WokenFacts ==
    ASSUME NEW s \in Seq(Task), Distinct(s), NEW n \in Nat
    PROVE  /\ Woken(s, n) \in Seq(Task) /\ Distinct(Woken(s, n))
           /\ Members(Woken(s, n)) \subseteq Members(s)
           /\ \A i \in 1..n : i \in 1..Len(s) => s[i] \notin Members(Woken(s, n))
           /\ Len(s) <= n => Woken(s, n) = << >>
<1> DEFINE r == Woken(s, n)
<1>1. /\ r \in Seq(Task) /\ Len(s) \in Nat /\ Len(r) = IF n <= Len(s) THEN Len(s) - n ELSE 0
      /\ \A i \in 1..Len(r) : i + n \in 1..Len(s) /\ r[i] = s[i + n]
    BY DEF Woken
<1>2. Distinct(r)
    <2> SUFFICES ASSUME NEW i \in 1..Len(r), NEW j \in 1..Len(r), r[i] = r[j] PROVE i = j
        BY DEF Distinct
    <2>1. i + n = j + n
        BY <1>1 DEF Distinct
    <2> QED BY <2>1
<1>3. ASSUME NEW t \in Members(r) PROVE \E i \in 1..Len(s) : s[i] = t /\ i > n
    <2>1. PICK i \in 1..Len(r) : r[i] = t
        BY <1>1, MemberAt
    <2>2. i + n \in 1..Len(s) /\ s[i + n] = t /\ i + n > n
        BY <1>1, <2>1
    <2> QED BY <2>2
<1>4. Members(r) \subseteq Members(s)
    BY <1>3, MemberAt
<1>5. ASSUME NEW i \in 1..n, i \in 1..Len(s) PROVE s[i] \notin Members(r)
    <2> SUFFICES ASSUME s[i] \in Members(r) PROVE FALSE
        OBVIOUS
    <2>1. PICK j \in 1..Len(s) : s[j] = s[i] /\ j > n
        BY <1>3
    <2> QED BY <2>1, <1>5 DEF Distinct
<1>6. Len(s) <= n => r = << >>
    BY <1>1
<1> QED BY <1>1, <1>2, <1>4, <1>5, <1>6

\* Concatenation, by positions.
LEMMA ConcatFacts ==
    ASSUME NEW a \in Seq(Task), NEW b \in Seq(Task)
    PROVE  /\ a \o b \in Seq(Task) /\ Len(a \o b) = Len(a) + Len(b) /\ Len(a) \in Nat /\ Len(b) \in Nat
           /\ \A i \in 1..Len(a) : (a \o b)[i] = a[i]
           /\ \A i \in (Len(a) + 1)..(Len(a) + Len(b)) : (a \o b)[i] = b[i - Len(a)]
  OBVIOUS

\* vListInsert puts the new item somewhere among the others.
LEMMA InsertedAt ==
    ASSUME NEW s \in Seq(Task), NEW t \in Task
    PROVE  /\ Inserted(s, t) \in Seq(Task) /\ Len(Inserted(s, t)) = Len(s) + 1
           /\ \E n \in 0..Len(s) :
                 /\ \A i \in 1..n : Inserted(s, t)[i] = s[i]
                 /\ Inserted(s, t)[n + 1] = t
                 /\ \A i \in (n + 2)..(Len(s) + 1) : Inserted(s, t)[i] = s[i - 1]
<1> DEFINE K == {i \in DOMAIN s : Priority[s[i]] >= Priority[t]}
           n == Cardinality(K)
           r == Inserted(s, t)
<1>1. n \in 0..Len(s) /\ Len(s) \in Nat
    <2>1. Len(s) \in Nat /\ K \in SUBSET (1..Len(s))
        OBVIOUS
    <2>2. IsFiniteSet(1..Len(s)) /\ Cardinality(1..Len(s)) = Len(s)
        BY <2>1, IntervalCount
    <2>3. Cardinality(K) <= Len(s) /\ IsFiniteSet(K)
        BY <2>1, <2>2, FS_Subset
    <2> QED BY <2>1, <2>3, FS_CardinalityType
<1>4. r = SubSeq(s, 1, n) \o <<t>> \o SubSeq(s, n + 1, Len(s))
    BY DEF Inserted
<1> HIDE DEF n, r
<1>7. /\ SubSeq(s, 1, n) \in Seq(Task) /\ Len(SubSeq(s, 1, n)) = n
      /\ \A i \in 1..n : SubSeq(s, 1, n)[i] = s[i]
    BY <1>1
<1>8. /\ SubSeq(s, n + 1, Len(s)) \in Seq(Task) /\ Len(SubSeq(s, n + 1, Len(s))) = Len(s) - n
      /\ \A i \in 1..(Len(s) - n) : SubSeq(s, n + 1, Len(s))[i] = s[n + i]
    BY <1>1
<1> DEFINE a == SubSeq(s, 1, n)
           b == SubSeq(s, n + 1, Len(s))
<1> HIDE DEF a, b
<1>9. /\ r \in Seq(Task) /\ Len(r) = Len(s) + 1
      /\ \A i \in 1..n : r[i] = s[i]
      /\ r[n + 1] = t
      /\ \A i \in (n + 2)..(Len(s) + 1) : r[i] = s[i - 1]
  <2>1. /\ a \in Seq(Task) /\ Len(a) = n /\ b \in Seq(Task) /\ Len(b) = Len(s) - n /\ r = a \o <<t>> \o b
        /\ (\A i \in 1..n : a[i] = s[i]) /\ \A i \in 1..(Len(s) - n) : b[i] = s[n + i]
      BY <1>4, <1>7, <1>8 DEF a, b
  <2> DEFINE c == a \o <<t>>
  <2>2. <<t>> \in Seq(Task) /\ Len(<<t>>) = 1 /\ <<t>>[1] = t
      OBVIOUS
  <2>3. /\ c \in Seq(Task) /\ Len(c) = n + 1 /\ c[n + 1] = t /\ r = c \o b
        /\ \A i \in 1..n : c[i] = s[i]
      <3>1. /\ c \in Seq(Task) /\ Len(c) = n + 1 /\ r = c \o b
            /\ \A i \in 1..n : c[i] = a[i]
          BY <2>1, <2>2, <1>1, ConcatFacts
      <3>2. n + 1 \in (Len(a) + 1)..(Len(a) + Len(<<t>>)) /\ (n + 1) - Len(a) = 1
          BY <2>1, <2>2, <1>1
      <3>3. c[n + 1] = <<t>>[1]
          BY <2>1, <2>2, <3>2, ConcatFacts
      <3> QED BY <3>1, <3>3, <2>1, <2>2
  <2> HIDE DEF c
  <2>4. /\ r \in Seq(Task) /\ Len(r) = Len(s) + 1
        /\ \A i \in 1..(n + 1) : r[i] = c[i]
        /\ \A i \in (n + 2)..(Len(s) + 1) : r[i] = b[i - (n + 1)]
      <3>1. /\ r \in Seq(Task) /\ Len(r) = Len(c) + Len(b)
            /\ \A i \in 1..Len(c) : r[i] = c[i]
            /\ \A i \in (Len(c) + 1)..(Len(c) + Len(b)) : r[i] = b[i - Len(c)]
          <4>1. c \in Seq(Task) /\ b \in Seq(Task) /\ r = c \o b
              BY <2>1, <2>3
          <4> QED BY <4>1, ConcatFacts
      <3>2. Len(c) = n + 1 /\ Len(c) + 1 = n + 2 /\ Len(c) + Len(b) = Len(s) + 1
          BY <2>1, <2>3, <1>1
      <3> QED BY <3>1, <3>2
  <2>5. \A i \in (n + 2)..(Len(s) + 1) : b[i - (n + 1)] = s[i - 1]
      <3> TAKE i \in (n + 2)..(Len(s) + 1)
      <3>1. i - (n + 1) \in 1..(Len(s) - n) /\ n + (i - (n + 1)) = i - 1
          BY <1>1
      <3> QED BY <3>1, <2>1
  <2>6. n + 1 \in 1..(n + 1) /\ \A i \in 1..n : i \in 1..(n + 1)
      BY <1>1
  <2> QED BY <2>3, <2>4, <2>5, <2>6
<1> QED BY <1>1, <1>9 DEF r

\* A new item joins the others.
LEMMA InsertedMembers ==
    ASSUME NEW s \in Seq(Task), NEW t \in Task,
           Distinct(s), t \notin Members(s)
    PROVE  Distinct(Inserted(s, t)) /\ Members(Inserted(s, t)) = Members(s) \cup {t}
<1> DEFINE r == Inserted(s, t)
<1>1. r \in Seq(Task) /\ Len(r) = Len(s) + 1 /\ Len(s) \in Nat
    BY InsertedAt
<1>2. PICK n \in 0..Len(s) :
         /\ \A i \in 1..n : r[i] = s[i]
         /\ r[n + 1] = t
         /\ \A i \in (n + 2)..(Len(s) + 1) : r[i] = s[i - 1]
    BY InsertedAt, ZenonT(60)
<1> HIDE DEF r
<1>3. \A i \in 1..Len(s) : s[i] # t
    BY MemberAt
<1>4. \A i \in 1..Len(r) : /\ i <= n => i \in 1..Len(s) /\ r[i] = s[i]
                           /\ i = n + 1 => r[i] = t
                           /\ i > n + 1 => i - 1 \in 1..Len(s) /\ r[i] = s[i - 1]
    BY <1>1, <1>2, SMTT(60)
<1>5. Distinct(r)
  <2> SUFFICES ASSUME NEW i \in 1..Len(r), NEW j \in 1..Len(r), r[i] = r[j]
               PROVE  i = j
      BY DEF Distinct
  <2>1. \A k, l \in 1..Len(s) : s[k] = s[l] => k = l
      BY DEF Distinct
  <2>2. n \in Nat /\ i \in Nat /\ j \in Nat
      BY <1>1
  <2>3. /\ i <= n => i \in 1..Len(s) /\ r[i] = s[i]
        /\ i = n + 1 => r[i] = t
        /\ i > n + 1 => i - 1 \in 1..Len(s) /\ r[i] = s[i - 1]
      BY <1>4
  <2>4. /\ j <= n => j \in 1..Len(s) /\ r[j] = s[j]
        /\ j = n + 1 => r[j] = t
        /\ j > n + 1 => j - 1 \in 1..Len(s) /\ r[j] = s[j - 1]
      BY <1>4
  <2> QED BY <1>3, <2>1, <2>2, <2>3, <2>4, SMTT(60)
<1>6. ASSUME NEW u PROVE u \in Members(r) <=> u \in Members(s) \cup {t}
  <2>1. ASSUME NEW i \in 1..Len(r), r[i] = u PROVE u \in Members(s) \cup {t}
      <3>1. u = t \/ \E k \in 1..Len(s) : s[k] = u
          <4>1. i \in Nat /\ n \in Nat
              BY <1>1
          <4>2. /\ i <= n => i \in 1..Len(s) /\ r[i] = s[i]
                /\ i = n + 1 => r[i] = t
                /\ i > n + 1 => i - 1 \in 1..Len(s) /\ r[i] = s[i - 1]
              BY <1>4
          <4> QED BY <2>1, <4>1, <4>2
      <3> QED BY <3>1, MemberAt
  <2>2. ASSUME NEW k \in 1..Len(s), s[k] = u PROVE \E i \in 1..Len(r) : r[i] = u
      <3>1. CASE k <= n
          <4>1. k \in 1..Len(r) /\ r[k] = u
              BY <3>1, <2>2, <1>1, <1>2
          <4> QED BY <4>1
      <3>2. CASE k > n
          <4>1. k + 1 \in 1..Len(r) /\ r[k + 1] = u
              <5>1. k + 1 \in (n + 2)..(Len(s) + 1) /\ (k + 1) - 1 = k
                  BY <3>2, <1>1
              <5>2. r[k + 1] = s[(k + 1) - 1]
                  BY <5>1, <1>2
              <5>3. k + 1 \in 1..Len(r)
                  BY <1>1
              <5> QED BY <5>1, <5>2, <5>3, <2>2
          <4> QED BY <4>1
      <3> QED BY <3>1, <3>2, <1>1
  <2>3. n + 1 \in 1..Len(r) /\ r[n + 1] = t
      BY <1>1, <1>2
  <2> QED BY <2>1, <2>2, <2>3, <1>1, MemberAt
<1> QED BY <1>5, <1>6 DEF r

\* Among the positions kept of a list some position is the j-th.
LEMMA RankedPosition ==
    ASSUME NEW l \in Nat, NEW kept \in SUBSET (1..l), NEW j \in 1..Cardinality(kept)
    PROVE  \E i \in kept : Cardinality({k \in kept : k <= i}) = j
<1> DEFINE B(i) == {k \in kept : k <= i}
           T == {i \in 0..l : Cardinality(B(i)) >= j}
<1>1. \A i \in Int : IsFiniteSet(B(i)) /\ Cardinality(B(i)) \in Nat
    <2>1. IsFiniteSet(kept)
        BY IntervalCount, FS_Subset
    <2> TAKE i \in Int
    <2>2. B(i) \in SUBSET kept
        OBVIOUS
    <2> HIDE DEF B
    <2> QED BY <2>1, <2>2, FS_Subset, FS_CardinalityType
<1>2. j \in Nat /\ j > 0 /\ j <= Cardinality(kept)
    <2>1. IsFiniteSet(kept)
        BY IntervalCount, FS_Subset
    <2>2. Cardinality(kept) \in Nat
        BY <2>1, FS_CardinalityType
    <2> QED BY <2>2
<1>kept. l \in Int /\ \A k \in kept : k \in Int /\ 1 <= k /\ k <= l
    <2>1. \A k \in kept : k \in 1..l
        OBVIOUS
    <2> QED BY <2>1
<1>3. l \in T
    <2>1. B(l) = kept
        BY <1>kept
    <2>2. l \in 0..l
        OBVIOUS
    <2> QED BY <2>1, <2>2, <1>2
<1>least. /\ T \subseteq 0..l /\ \A i \in T : Cardinality(B(i)) >= j
      /\ \A i \in 0..l : Cardinality(B(i)) >= j => i \in T
    OBVIOUS
<1> HIDE DEF T
<1>4. PICK i \in T : \A k \in T : i <= k
    <2>1. \A k \in 0..l : k \in Nat
        OBVIOUS
    <2>2. T \subseteq Nat /\ T # {}
        BY <1>3, <1>least, <2>1
    <2> QED BY <2>2, LeastNatural
<1>5. i # 0
    <2>3. \A k \in kept : ~(k <= 0)
        BY <1>kept
    <2>1. B(0) = {}
        BY <2>3
    <2>2. Cardinality(B(0)) = 0
        BY <2>1, FS_EmptySet
    <2> HIDE DEF B
    <2> QED BY <2>2, <1>2, <1>4, <1>least
<1>6. i \in Int /\ i - 1 \in Int /\ i \in 1..l /\ i - 1 \in 0..l /\ i - 1 \notin T
    <2>1. i \in 0..l
        BY <1>4, <1>least
    <2>2. i \in 1..l /\ i - 1 \in 0..l /\ ~(i <= i - 1)
        BY <2>1, <1>5
    <2> QED BY <2>2, <1>4
<1>cards. Cardinality(B(i)) \in Nat /\ Cardinality(B(i - 1)) \in Nat /\ IsFiniteSet(B(i - 1))
    <2> HIDE DEF B
    <2> QED BY <1>1, <1>6
<1>7. Cardinality(B(i - 1)) < j
    <2> HIDE DEF B
    <2>1. ~(Cardinality(B(i - 1)) >= j)
        BY <1>6, <1>least
    <2> QED BY <2>1, <1>2, <1>cards
<1>8. Cardinality(B(i)) >= j
    BY <1>4, <1>least
<1>9. i \in kept
    <2> SUFFICES ASSUME i \notin kept PROVE FALSE
        OBVIOUS
    <2>1. \A k \in kept : k <= i <=> k <= i - 1
        BY <1>kept, <1>6
    <2>2. B(i) = B(i - 1)
        BY <2>1
    <2> HIDE DEF B
    <2> QED BY <2>2, <1>cards, <1>2, <1>7, <1>8
<1>10. Cardinality(B(i)) = Cardinality(B(i - 1)) + 1
    <2>1. \A k \in kept : k <= i <=> (k <= i - 1 \/ k = i)
        BY <1>kept, <1>6
    <2>2. ~(i <= i - 1)
        BY <1>6
    <2>3. B(i) = B(i - 1) \cup {i} /\ i \notin B(i - 1)
        BY <1>9, <2>1, <2>2
    <2> HIDE DEF B
    <2> QED BY <2>3, <1>cards, FS_AddElement
<1>11. Cardinality(B(i)) = j
    <2> HIDE DEF B
    <2> QED BY <1>cards, <1>2, <1>7, <1>8, <1>10
<1> QED BY <1>9, <1>11

\* The tasks of a list whose block time has not run out stay in it, once each.
LEMMA WaitingFacts ==
    ASSUME NEW s \in Seq(Task), NEW n \in Nat, Distinct(s)
    PROVE  /\ Waiting(s, n) \in Seq(Task) /\ Distinct(Waiting(s, n))
           /\ Members(Waiting(s, n)) \subseteq Members(s)
           /\ s = << >> => Waiting(s, n) = << >>
<1> DEFINE kept == {i \in DOMAIN s : StillWaits(s[i], n)}
           Rank(i) == Cardinality({k \in kept : k <= i})
           at(j) == CHOOSE i \in kept : Rank(i) = j
           c == Cardinality(kept)
           r == Waiting(s, n)
<1>1. r = [j \in 1..c |-> s[at(j)]]
    BY DEF Waiting
<1>2. Len(s) \in Nat /\ kept \in SUBSET (1..Len(s)) /\ IsFiniteSet(kept) /\ c \in Nat
    <2>1. Len(s) \in Nat /\ kept \in SUBSET (1..Len(s))
        OBVIOUS
    <2> HIDE DEF kept
    <2> QED BY <2>1, IntervalCount, FS_Subset, FS_CardinalityType
<1>3. \A j \in 1..c : at(j) \in 1..Len(s) /\ Rank(at(j)) = j
    <2> HIDE DEF kept
    <2> TAKE j \in 1..c
    <2>1. \E i \in kept : Rank(i) = j
        BY <1>2, RankedPosition, ZenonT(60)
    <2> HIDE DEF Rank
    <2>2. at(j) \in kept /\ Rank(at(j)) = j
        BY <2>1
    <2> QED BY <2>2, <1>2
<1> HIDE DEF r, c, kept, at, Rank
<1>4. r \in Seq(Task) /\ Len(r) = c /\ \A j \in 1..c : r[j] = s[at(j)]
    BY <1>1, <1>2, <1>3
<1>5. Distinct(r)
    <2> SUFFICES ASSUME NEW i \in 1..Len(r), NEW j \in 1..Len(r), r[i] = r[j] PROVE i = j
        BY DEF Distinct
    <2>1. i \in 1..c /\ j \in 1..c /\ s[at(i)] = s[at(j)]
        BY <1>4
    <2>2. at(i) = at(j)
        BY <2>1, <1>3 DEF Distinct
    <2> QED BY <2>1, <2>2, <1>3
<1>6. Members(r) \subseteq Members(s)
    <2> SUFFICES ASSUME NEW u \in Members(r) PROVE u \in Members(s)
        OBVIOUS
    <2>1. PICK j \in 1..c : r[j] = u
        BY <1>4, MemberAt
    <2>2. at(j) \in 1..Len(s) /\ s[at(j)] = u
        BY <2>1, <1>3, <1>4
    <2> QED BY <2>2, MemberAt
<1>7. s = << >> => r = << >>
    <2> SUFFICES ASSUME s = << >> PROVE r = << >>
        OBVIOUS
    <2>1. \A j \in 1..c : at(j) \in 1..0
        BY <1>3
    <2>2. c = 0
        BY <2>1, <1>2
    <2> QED BY <2>2, <1>4
<1> QED BY <1>4, <1>5, <1>6, <1>7 DEF r

-----------------------------------------------------------------------------
(* What a step leaves as it was.                                           *)

\* A task in an event list: what it waits for, and that it has not looked again.
Waits(u, ops) ==
    /\ op[u] \in ops /\ xTicksToWait[u] # 0
    /\ pc[u] \in {"enter", "unlock_tx", "unlock_rx", "resume"}

ListPart ==
    /\ xTasksWaitingToReceive \in Seq(Task) /\ xTasksWaitingToSend \in Seq(Task)
    /\ Distinct(xTasksWaitingToReceive) /\ Distinct(xTasksWaitingToSend)
    /\ \A u \in Members(xTasksWaitingToReceive) : Waits(u, {"receive"})
    /\ \A u \in Members(xTasksWaitingToSend) : Waits(u, {"back", "front"})

WInv == QInv /\ LockPart /\ ListPart /\ PlaceInv /\ NoLostItem /\ NoLostRoom

\* What is left to show of a step: QInv and LockPart are KernelQueueProofs'.
Wakes == ListPart' /\ PlaceInv' /\ NoLostItem' /\ NoLostRoom'

\* Only the call of t goes on.
Others(t) ==
    \A u \in Task \ {t} : pc'[u] = pc[u] /\ op'[u] = op[u] /\ xTicksToWait'[u] = xTicksToWait[u]

\* Nobody enters an event list.
Shrinks ==
    /\ xTasksWaitingToReceive' \in Seq(Task) /\ xTasksWaitingToSend' \in Seq(Task)
    /\ Distinct(xTasksWaitingToReceive') /\ Distinct(xTasksWaitingToSend')
    /\ Members(xTasksWaitingToReceive') \subseteq Members(xTasksWaitingToReceive)
    /\ Members(xTasksWaitingToSend') \subseteq Members(xTasksWaitingToSend)
    /\ xTasksWaitingToReceive = << >> => xTasksWaitingToReceive' = << >>
    /\ xTasksWaitingToSend = << >> => xTasksWaitingToSend' = << >>

\* Lists that stay the same.
LEMMA SameShrinks ==
    ASSUME ListPart, UNCHANGED lists
    PROVE  Shrinks
  BY DEF ListPart, Shrinks, lists

\* Receivers are woken.
LEMMA ReceiversShrink ==
    ASSUME ListPart, NEW n \in Nat, UNCHANGED xTasksWaitingToSend,
           xTasksWaitingToReceive' = Woken(xTasksWaitingToReceive, n)
    PROVE  Shrinks
<1>1. xTasksWaitingToReceive \in Seq(Task) /\ Distinct(xTasksWaitingToReceive)
    BY DEF ListPart
<1>2. /\ xTasksWaitingToReceive' \in Seq(Task) /\ Distinct(xTasksWaitingToReceive')
      /\ Members(xTasksWaitingToReceive') \subseteq Members(xTasksWaitingToReceive)
      /\ Len(xTasksWaitingToReceive) <= n => xTasksWaitingToReceive' = << >>
    BY <1>1, WokenFacts
<1> QED BY <1>2 DEF ListPart, Shrinks

\* Senders are woken.
LEMMA SendersShrink ==
    ASSUME ListPart, NEW n \in Nat, UNCHANGED xTasksWaitingToReceive,
           xTasksWaitingToSend' = Woken(xTasksWaitingToSend, n)
    PROVE  Shrinks
<1>1. xTasksWaitingToSend \in Seq(Task) /\ Distinct(xTasksWaitingToSend)
    BY DEF ListPart
<1>2. /\ xTasksWaitingToSend' \in Seq(Task) /\ Distinct(xTasksWaitingToSend')
      /\ Members(xTasksWaitingToSend') \subseteq Members(xTasksWaitingToSend)
      /\ Len(xTasksWaitingToSend) <= n => xTasksWaitingToSend' = << >>
    BY <1>1, WokenFacts
<1> QED BY <1>2 DEF ListPart, Shrinks

\* Ticks are counted.
LEMMA TicksShrink ==
    ASSUME ListPart, NEW n \in Nat, CountTicks(n)
    PROVE  Shrinks
<1>1. /\ xTasksWaitingToSend \in Seq(Task) /\ Distinct(xTasksWaitingToSend)
      /\ xTasksWaitingToReceive \in Seq(Task) /\ Distinct(xTasksWaitingToReceive)
    BY DEF ListPart
<1>2. /\ xTasksWaitingToSend' = Waiting(xTasksWaitingToSend, n)
      /\ xTasksWaitingToReceive' = Waiting(xTasksWaitingToReceive, n)
    BY DEF CountTicks
<1> QED BY <1>1, <1>2, WaitingFacts DEF Shrinks

\* Who stays in a list waits as before.
LEMMA ListStep ==
    ASSUME ListPart, Shrinks, NEW t, Others(t),
           InList(t)' => /\ op'[t] = op[t] /\ xTicksToWait'[t] = xTicksToWait[t]
                         /\ pc'[t] \in {"enter", "unlock_tx", "unlock_rx", "resume"}
    PROVE  ListPart'
<1>1. \A u \in Members(xTasksWaitingToReceive') :
         u \in Task /\ Waits(u, {"receive"}) /\ u \in Members(xTasksWaitingToReceive)
    <2>1. \A u \in Members(xTasksWaitingToReceive') : u \in Task
        BY MemberAt DEF Shrinks
    <2> QED BY <2>1 DEF ListPart, Shrinks
<1>2. \A u \in Members(xTasksWaitingToSend') :
         u \in Task /\ Waits(u, {"back", "front"}) /\ u \in Members(xTasksWaitingToSend)
    <2>1. \A u \in Members(xTasksWaitingToSend') : u \in Task
        BY MemberAt DEF Shrinks
    <2> QED BY <2>1 DEF ListPart, Shrinks
<1>3. \A u \in Members(xTasksWaitingToReceive') : Waits(u, {"receive"})'
    BY <1>1 DEF Others, InList, Waits
<1>4. \A u \in Members(xTasksWaitingToSend') : Waits(u, {"back", "front"})'
    BY <1>2 DEF Others, InList, Waits
<1> QED BY <1>3, <1>4 DEF ListPart, Shrinks, Distinct

\* Nobody but t stops coming.
LEMMA ComingStep ==
    ASSUME Shrinks, NEW t, Others(t), NEW ops
    PROVE  Coming(ops) \ {t} \subseteq Coming(ops)'
<1>1. \A u : InList(u)' => InList(u)
    BY DEF Shrinks, InList
<1> QED BY <1>1 DEF Others, Coming

\* Those coming can be counted.
LEMMA ComingType ==
    ASSUME NEW ops
    PROVE  /\ Coming(ops) \in SUBSET Task /\ Coming(ops)' \in SUBSET Task
           /\ Cardinality(Coming(ops)) \in Nat /\ Cardinality(Coming(ops)') \in Nat
<1>1. Coming(ops) \in SUBSET Task /\ Coming(ops)' \in SUBSET Task
    BY DEF Coming
<1> QED BY <1>1, TasksFinite

\* Where nobody stops coming, no fewer come.
LEMMA ComingGrows ==
    ASSUME NEW ops, Coming(ops) \subseteq Coming(ops)'
    PROVE  Cardinality(Coming(ops)) <= Cardinality(Coming(ops)')
<1> HIDE DEF Coming
<1> QED BY ComingType, SubsetCount

\* Where at most t stops coming, at most one fewer come.
LEMMA ComingLess ==
    ASSUME NEW ops, NEW t \in Coming(ops), Coming(ops) \ {t} \subseteq Coming(ops)'
    PROVE  Cardinality(Coming(ops)) - 1 <= Cardinality(Coming(ops)')
<1> HIDE DEF Coming
<1>1. Cardinality(Coming(ops) \ {t}) = Cardinality(Coming(ops)) - 1
    BY ComingType, RemoveCount
<1>2. Cardinality(Coming(ops) \ {t}) <= Cardinality(Coming(ops)')
    BY ComingType, SubsetCount
<1> QED BY <1>1, <1>2

-----------------------------------------------------------------------------
(* Steps after which the queue holds what it held.                         *)

\* The types the counting depends on.
LEMMA NumberTypes ==
    ASSUME WInv
    PROVE  /\ uxMessagesWaiting \in Nat /\ uxMessagesWaiting <= uxLength
           /\ uxLength \in Nat /\ NumberOfTasks \in Nat /\ cTxLock \in Int /\ cRxLock \in Int
           /\ cTxLock >= -1 /\ cRxLock >= -1 /\ Cardinality(Task) \in Nat /\ Cardinality(Task) <= NumberOfTasks
<1>1. Cardinality(Task) \in Nat
    BY TasksFinite
<1> QED BY <1>1, QueueAssumption DEF WInv, QInv, StorageType, LockPart

\* A queue that is locked or stays as it is.
LockKept(lock, next) == next = lock \/ (lock = -1 /\ next = 0)

\* Nobody is left behind when t goes on, or stops because there is nothing to take.
LEMMA KeptStep ==
    ASSUME WInv, Shrinks, NEW t, Others(t), UNCHANGED uxMessagesWaiting,
           LockKept(cTxLock, cTxLock'), LockKept(cRxLock, cRxLock'),
           t \in Coming({"receive"}) => t \in Coming({"receive"})' \/ uxMessagesWaiting = 0,
           t \in Coming({"back", "front"}) => t \in Coming({"back", "front"})' \/ uxMessagesWaiting = uxLength
    PROVE  NoLostItem' /\ NoLostRoom'
<1>types. /\ uxMessagesWaiting \in Nat /\ uxLength \in Nat /\ NumberOfTasks \in Nat
      /\ cTxLock \in Int /\ cRxLock \in Int /\ cTxLock >= -1 /\ cRxLock >= -1
    BY NumberTypes
<1>1. NoLostItem'
  <2> DEFINE c == Cardinality(Coming({"receive"}))
             d == Cardinality(Coming({"receive"})')
  <2>1. c \in Nat /\ d \in Nat
      BY ComingType
  <2>2. uxMessagesWaiting = 0 \/ c <= d
      <3> SUFFICES ASSUME uxMessagesWaiting # 0 PROVE c <= d
          OBVIOUS
      <3>1. Coming({"receive"}) \subseteq Coming({"receive"})'
          BY ComingStep
      <3> QED BY <3>1, ComingGrows
  <2> HIDE DEF c, d
  <2>3. xTasksWaitingToReceive # << >> =>
           \/ uxMessagesWaiting <= c + (IF cTxLock > 0 THEN cTxLock ELSE 0)
           \/ cTxLock >= NumberOfTasks
      BY DEF WInv, NoLostItem, c
  <2>4. xTasksWaitingToReceive' # << >> =>
           \/ uxMessagesWaiting' <= d + (IF cTxLock' > 0 THEN cTxLock' ELSE 0)
           \/ cTxLock' >= NumberOfTasks
      BY <1>types, <2>1, <2>2, <2>3 DEF Shrinks, LockKept
  <2> QED BY <2>4 DEF NoLostItem, d
<1>2. NoLostRoom'
  <2> DEFINE c == Cardinality(Coming({"back", "front"}))
             d == Cardinality(Coming({"back", "front"})')
  <2>1. c \in Nat /\ d \in Nat
      BY ComingType
  <2>2. uxMessagesWaiting = uxLength \/ c <= d
      <3> SUFFICES ASSUME uxMessagesWaiting # uxLength PROVE c <= d
          OBVIOUS
      <3>1. Coming({"back", "front"}) \subseteq Coming({"back", "front"})'
          BY ComingStep
      <3> QED BY <3>1, ComingGrows
  <2> HIDE DEF c, d
  <2>3. xTasksWaitingToSend # << >> =>
           \/ uxLength - uxMessagesWaiting <= c + (IF cRxLock > 0 THEN cRxLock ELSE 0)
           \/ cRxLock >= NumberOfTasks
      BY DEF WInv, NoLostRoom, c
  <2>4. xTasksWaitingToSend' # << >> =>
           \/ uxLength - uxMessagesWaiting' <= d + (IF cRxLock' > 0 THEN cRxLock' ELSE 0)
           \/ cRxLock' >= NumberOfTasks
      BY <1>types, <2>1, <2>2, <2>3 DEF Shrinks, LockKept
  <2> QED BY <2>4 DEF NoLostRoom, d
<1> QED BY <1>1, <1>2

-----------------------------------------------------------------------------
(* Who runs.                                                               *)

\* A task outside its suspended section runs only while nobody is inside one.
LEMMA Unowned ==
    ASSUME WInv, NEW t \in Task, NEW l \in PC, At(t, l), l \notin Owned
    PROVE  /\ owner = NoTask /\ ~InList(t) /\ cTxLock = -1 /\ cRxLock = -1
           /\ \A u \in Task : pc[u] \notin Owned
  BY NoTaskIsNone DEF WInv, LockPart, LockInv, At, Runs

\* A task inside it is the only one there.
LEMMA OwnsAlone ==
    ASSUME WInv, NEW t \in Task, NEW l \in Owned, At(t, l)
    PROVE  owner = t /\ \A u \in Task \ {t} : pc[u] \notin Owned
  BY NoTaskIsNone DEF WInv, LockPart, LockInv, At, Runs

\* Who runs is alone between its test and its event list.
LEMMA PlaceStep ==
    ASSUME WInv, NEW t \in Task, NEW l \in PC, At(t, l), Others(t), pc'[t] \notin {"test", "place"}
    PROVE  PlaceInv'
<1>1. \A u \in Task \ {t} : pc[u] \notin Owned
    BY Unowned, OwnsAlone
<1>2. \A u \in Task : pc'[u] \notin {"test", "place"}
    BY <1>1 DEF Others, Owned
<1> QED BY <1>2 DEF PlaceInv

\* A task is in no list until it has entered one.
LEMMA NotListed ==
    ASSUME WInv, NEW t \in Task, pc[t] \notin {"enter", "unlock_tx", "unlock_rx", "resume"}
    PROVE  ~InList(t)
  BY DEF WInv, ListPart, Waits, InList

-----------------------------------------------------------------------------
(* The steps of a call, one by one.                                        *)

\* The arrays a step changes at t.
LEMMA CallTypes ==
    ASSUME WInv
    PROVE  pc \in [Task -> PC] /\ op \in [Task -> Sends \cup {"receive", "none"}]
           /\ xTicksToWait \in [Task -> 0..MaxDelay]
  BY DEF WInv, QInv, CallType

\* A call begins.
LEMMA CallWakes ==
    ASSUME WInv, NEW t \in Task, NEW o, NEW w, NEW m, Call(t, o, w, m)
    PROVE  Wakes
<1>1. Others(t) /\ pc'[t] = "enter" /\ pc[t] = "idle"
    BY CallTypes DEF Others, Call
<1>2. Shrinks /\ UNCHANGED <<uxMessagesWaiting, cTxLock, cRxLock, lists>>
    <2>1. UNCHANGED lists /\ ListPart
        BY DEF Call, WInv
    <2> QED BY <2>1, SameShrinks DEF Call, storage, locks
<1>3. ~InList(t) /\ ~InList(t)'
    <2>1. ~InList(t)
        BY <1>1, NotListed
    <2> QED BY <2>1, <1>2 DEF InList, lists
<1>4. ListPart'
    BY <1>1, <1>2, <1>3, ListStep DEF WInv
<1>5. PlaceInv'
    <2>1. "idle" \in PC /\ At(t, "idle")
        BY DEF PC, At, Call
    <2> QED BY <2>1, <1>1, PlaceStep
<1>6. t \notin Coming({"receive"}) /\ t \notin Coming({"back", "front"})
    BY <1>1 DEF Coming
<1>7. UNCHANGED uxMessagesWaiting /\ LockKept(cTxLock, cTxLock') /\ LockKept(cRxLock, cRxLock')
    BY <1>2 DEF LockKept
<1>8. NoLostItem' /\ NoLostRoom'
    BY <1>1, <1>2, <1>6, <1>7, KeptStep
<1> QED BY <1>4, <1>5, <1>8 DEF Wakes

\* A call looks at the queue and finds nothing to take.
LEMMA StopsWakes ==
    ASSUME WInv, NEW t \in Task, NEW l \in {"enter", "expired"}, At(t, l), Others(t),
           op[t] = "receive" => Blocked(t),
           op[t] # "receive" => Blocked(t) \/ l = "expired",
           UNCHANGED <<storage, locks, lists>>, pc'[t] \in {"idle", "suspend"}
    PROVE  Wakes
<1>1. l \in PC /\ l \notin Owned
    BY DEF PC, Owned
<1>2. ~InList(t) /\ ~InList(t)'
    <2>1. ~InList(t)
        BY <1>1, Unowned
    <2> QED BY <2>1 DEF InList, lists
<1>3. Shrinks
    BY SameShrinks DEF WInv
<1>4. ListPart'
    BY <1>2, <1>3, ListStep DEF WInv
<1>5. PlaceInv'
    BY <1>1, PlaceStep
<1>6. UNCHANGED uxMessagesWaiting /\ LockKept(cTxLock, cTxLock') /\ LockKept(cRxLock, cRxLock')
    BY DEF storage, locks, LockKept
<1>7. t \in Coming({"receive"}) => uxMessagesWaiting = 0
    BY DEF Coming, Blocked
<1>8. t \in Coming({"back", "front"}) => uxMessagesWaiting = uxLength
    <2>1. uxMessagesWaiting \in Nat /\ uxLength \in Nat /\ uxMessagesWaiting <= uxLength
        BY NumberTypes
    <2> QED BY <2>1 DEF Coming, Blocked, HasRoom, At
<1>9. NoLostItem' /\ NoLostRoom'
    BY <1>3, <1>6, <1>7, <1>8, KeptStep
<1> QED BY <1>4, <1>5, <1>9 DEF Wakes

\* A call fails at once.
LEMMA EnterFailWakes ==
    ASSUME WInv, NEW t \in Task, EnterFail(t)
    PROVE  Wakes
<1>1. Others(t) /\ pc'[t] = "idle"
    BY CallTypes DEF Others, EnterFail, Return
<1> QED BY <1>1, StopsWakes DEF EnterFail

\* A call goes on to wait.
LEMMA EnterWaitWakes ==
    ASSUME WInv, NEW t \in Task, EnterWait(t)
    PROVE  Wakes
<1>1. Others(t) /\ pc'[t] = "suspend"
    BY CallTypes DEF Others, EnterWait, Goto, caller
<1> QED BY <1>1, StopsWakes DEF EnterWait

\* A call fails after its block time.
LEMMA ExpiredFailWakes ==
    ASSUME WInv, NEW t \in Task, ExpiredFail(t)
    PROVE  Wakes
<1>1. Others(t) /\ pc'[t] = "idle"
    BY CallTypes DEF Others, ExpiredFail, Return
<1> QED BY <1>1, StopsWakes DEF ExpiredFail

\* A task that goes on with its call leaves nobody behind.
LEMMA GoesOnWakes ==
    ASSUME WInv, NEW t \in Task, NEW l \in PC, At(t, l), Others(t), Shrinks,
           UNCHANGED uxMessagesWaiting, LockKept(cTxLock, cTxLock'), LockKept(cRxLock, cRxLock'),
           op'[t] = op[t],
           xTicksToWait'[t] = xTicksToWait[t] \/ l \notin {"enter", "unlock_tx", "unlock_rx", "resume", "expired"},
           InList(t) => pc'[t] \in {"enter", "unlock_tx", "unlock_rx", "resume"},
           \A ops \in {{"receive"}, {"back", "front"}} : t \in Coming(ops) => t \in Coming(ops)'
    PROVE  ListPart' /\ NoLostItem' /\ NoLostRoom'
<1>1. InList(t)' => InList(t)
    BY DEF InList, Shrinks
<1>2. InList(t)' => xTicksToWait'[t] = xTicksToWait[t]
    BY <1>1, NotListed DEF At
<1>3. ListPart'
    BY <1>1, <1>2, ListStep DEF WInv
<1>4. NoLostItem' /\ NoLostRoom'
    BY KeptStep
<1> QED BY <1>3, <1>4

\* vTaskSuspendAll.
LEMMA SuspendWakes ==
    ASSUME WInv, NEW t \in Task, vTaskSuspendAll(t)
    PROVE  Wakes
<1>1. Others(t) /\ pc'[t] = "lock" /\ op'[t] = op[t] /\ xTicksToWait'[t] = xTicksToWait[t]
    BY CallTypes DEF Others, vTaskSuspendAll, Goto, caller, timeout
<1>2. Shrinks /\ UNCHANGED uxMessagesWaiting /\ LockKept(cTxLock, cTxLock') /\ LockKept(cRxLock, cRxLock')
    BY SameShrinks DEF vTaskSuspendAll, WInv, storage, locks, LockKept
<1>3. "suspend" \in PC /\ At(t, "suspend") /\ "suspend" \notin Owned
    BY DEF PC, Owned, vTaskSuspendAll
<1>4. ~InList(t)
    BY <1>3, Unowned
<1>5. \A ops : t \notin Coming(ops)
    BY <1>3 DEF Coming, At
<1>6. ListPart' /\ NoLostItem' /\ NoLostRoom'
    BY <1>1, <1>2, <1>3, <1>4, <1>5, GoesOnWakes
<1>7. PlaceInv'
    BY <1>1, <1>3, PlaceStep
<1> QED BY <1>6, <1>7 DEF Wakes

\* A receive looks once more.
LEMMA ExpiredRetryWakes ==
    ASSUME WInv, NEW t \in Task, ExpiredRetry(t)
    PROVE  Wakes
<1>1. Others(t) /\ pc'[t] = "enter" /\ op'[t] = op[t] /\ xTicksToWait'[t] = xTicksToWait[t]
    BY CallTypes DEF Others, ExpiredRetry, Goto, caller, timeout
<1>2. Shrinks /\ UNCHANGED <<uxMessagesWaiting, lists>> /\ LockKept(cTxLock, cTxLock') /\ LockKept(cRxLock, cRxLock')
    BY SameShrinks DEF ExpiredRetry, WInv, storage, locks, LockKept
<1>3. "expired" \in PC /\ At(t, "expired")
    BY DEF PC, ExpiredRetry
<1>4. \A ops : t \in Coming(ops) => t \in Coming(ops)'
    BY <1>1, <1>2 DEF Coming, InList, lists
<1>5. ListPart' /\ NoLostItem' /\ NoLostRoom'
    BY <1>1, <1>2, <1>3, <1>4, GoesOnWakes
<1>6. PlaceInv'
    BY <1>1, <1>3, PlaceStep
<1> QED BY <1>5, <1>6 DEF Wakes

\* prvLockQueue and xTaskCheckForTimeOut.
LEMMA LockQueueWakes ==
    ASSUME WInv, NEW t \in Task, LockQueue(t)
    PROVE  Wakes
<1>1. Others(t) /\ op'[t] = op[t]
    BY CallTypes DEF Others, LockQueue, Goto, caller
<1>2. Shrinks /\ UNCHANGED uxMessagesWaiting /\ LockKept(cTxLock, cTxLock') /\ LockKept(cRxLock, cRxLock')
    BY SameShrinks DEF LockQueue, WInv, storage, LockKept
<1>3. "lock" \in PC /\ At(t, "lock") /\ "lock" \in Owned /\ pc[t] = "lock"
    BY DEF PC, Owned, LockQueue, At
<1>4. ~InList(t)
    BY <1>3, NotListed
<1>5. \A ops : t \notin Coming(ops)
    BY <1>3 DEF Coming
<1>6. ListPart' /\ NoLostItem' /\ NoLostRoom'
    BY <1>1, <1>2, <1>3, <1>4, <1>5, GoesOnWakes
<1>7. PlaceInv'
    <2>1. \A u \in Task \ {t} : pc[u] \notin Owned
        BY <1>3, OwnsAlone
    <2>2. \A u \in Task \ {t} : pc'[u] \notin {"test", "place"}
        BY <2>1, <1>1 DEF Others, Owned
    <2>3. pc'[t] # "place" /\ (pc'[t] = "test" => xTicksToWait'[t] # 0)
        BY CallTypes DEF LockQueue, Goto
    <2> QED BY <2>2, <2>3 DEF PlaceInv
<1> QED BY <1>6, <1>7 DEF Wakes

\* prvIsQueueFull or prvIsQueueEmpty.
LEMMA TestQueueWakes ==
    ASSUME WInv, NEW t \in Task, TestQueue(t)
    PROVE  Wakes
<1>1. Others(t) /\ op'[t] = op[t] /\ xTicksToWait'[t] = xTicksToWait[t]
    BY CallTypes DEF Others, TestQueue, Goto, caller, timeout
<1>2. Shrinks /\ UNCHANGED uxMessagesWaiting /\ LockKept(cTxLock, cTxLock') /\ LockKept(cRxLock, cRxLock')
    BY SameShrinks DEF TestQueue, WInv, storage, locks, LockKept
<1>3. "test" \in PC /\ At(t, "test") /\ "test" \in Owned /\ pc[t] = "test"
    BY DEF PC, Owned, TestQueue, At
<1>4. ~InList(t)
    BY <1>3, NotListed
<1>5. \A ops : t \notin Coming(ops)
    BY <1>3 DEF Coming
<1>6. ListPart' /\ NoLostItem' /\ NoLostRoom'
    BY <1>1, <1>2, <1>3, <1>4, <1>5, GoesOnWakes
<1>7. PlaceInv'
    <2>1. \A u \in Task \ {t} : pc[u] \notin Owned
        BY <1>3, OwnsAlone
    <2>2. \A u \in Task \ {t} : pc'[u] \notin {"test", "place"}
        BY <2>1, <1>1 DEF Others, Owned
    <2>3. xTicksToWait'[t] # 0 /\ cTxLock >= 0 /\ cRxLock >= 0
        BY <1>1, <1>3 DEF WInv, PlaceInv, LockPart, LockInv
    <2>4. pc'[t] = "place" => Blocked(t)
        BY CallTypes DEF TestQueue, Goto
    <2>5. op[t] \in Sends \cup {"receive"}
        BY <1>3, CallTypes DEF WInv, QInv, CallPart, CallOK
    <2>6. pc'[t] = "place" =>
             /\ op[t] = "receive" => uxMessagesWaiting <= cTxLock
             /\ op[t] # "receive" => op[t] \in {"back", "front"} /\ uxLength - uxMessagesWaiting <= cRxLock
        BY <2>3, <2>4, <2>5, NumberTypes DEF Blocked, HasRoom, Sends
    <2>7. UNCHANGED <<uxMessagesWaiting, cTxLock, cRxLock>>
        BY DEF TestQueue, storage, locks
    <2> QED BY <1>1, <2>2, <2>3, <2>6, <2>7 DEF PlaceInv
<1> QED BY <1>6, <1>7 DEF Wakes

\* xTaskResumeAll.
LEMMA ResumeWakes ==
    ASSUME WInv, NEW t \in Task, xTaskResumeAll(t)
    PROVE  Wakes
<1>1. /\ Others(t) /\ op'[t] = op[t] /\ xTicksToWait'[t] = xTicksToWait[t]
      /\ pc'[t] = IF xTicksToWait[t] = 0 THEN "expired" ELSE "enter"
    BY CallTypes DEF Others, xTaskResumeAll, Goto, CountTicks
<1>2. Shrinks /\ UNCHANGED uxMessagesWaiting /\ LockKept(cTxLock, cTxLock') /\ LockKept(cRxLock, cRxLock')
    <2>1. xPendedTicks \in Nat /\ ListPart /\ CountTicks(xPendedTicks)
        BY DelayType DEF WInv, QInv, CallType, xTaskResumeAll
    <2>2. Shrinks
        BY <2>1, TicksShrink
    <2> QED BY <2>2 DEF xTaskResumeAll, storage, locks, LockKept
<1>3. "resume" \in PC /\ At(t, "resume") /\ pc[t] = "resume"
    BY DEF PC, xTaskResumeAll, At
<1>4. InList(t) => xTicksToWait[t] # 0
    BY DEF WInv, ListPart, Waits, InList
<1>5. InList(t)' => InList(t)
    BY <1>2 DEF InList, Shrinks
<1>6. \A ops : t \in Coming(ops) => t \in Coming(ops)'
    BY <1>1, <1>3, <1>5 DEF Coming
<1>7. ListPart' /\ NoLostItem' /\ NoLostRoom'
    BY <1>1, <1>2, <1>3, <1>4, <1>6, GoesOnWakes
<1>8. PlaceInv'
    BY <1>1, <1>3, PlaceStep
<1> QED BY <1>7, <1>8 DEF Wakes

\* A tick.
LEMMA TickWakes ==
    ASSUME WInv, Tick
    PROVE  Wakes
<1>1. Others(NoTask) /\ UNCHANGED <<pc, op, xTicksToWait, uxMessagesWaiting, cTxLock, cRxLock>>
    BY DEF Others, Tick, CountTicks, storage, locks, caller, timeout
<1>2. Shrinks
    <2>1. CASE owner = NoTask
        <3>1. ListPart /\ CountTicks(1) /\ 1 \in Nat
            BY <2>1 DEF WInv, Tick
        <3> QED BY <3>1, TicksShrink
    <2>2. CASE owner # NoTask
        BY <2>2, SameShrinks DEF WInv, Tick
    <2> QED BY <2>1, <2>2
<1>3. ~InList(NoTask)'
    BY <1>2, MemberAt, NoTaskIsNone DEF InList, Shrinks
<1>4. ListPart'
    BY <1>1, <1>2, <1>3, ListStep DEF WInv
<1>5. PlaceInv'
    BY <1>1 DEF WInv, PlaceInv
<1>6. \A ops : NoTask \notin Coming(ops)
    BY NoTaskIsNone DEF Coming
<1>7. LockKept(cTxLock, cTxLock') /\ LockKept(cRxLock, cRxLock')
    BY <1>1 DEF LockKept
<1>8. NoLostItem' /\ NoLostRoom'
    BY <1>1, <1>2, <1>6, <1>7, KeptStep
<1> QED BY <1>4, <1>5, <1>8 DEF Wakes

-----------------------------------------------------------------------------
(* Steps that wake tasks.                                                  *)

\* The receivers that leave their list come for what there is.
LEMMA ReceiversCome ==
    ASSUME WInv, NEW n \in Nat, UNCHANGED xTasksWaitingToSend,
           xTasksWaitingToReceive' = Woken(xTasksWaitingToReceive, n), xTasksWaitingToReceive' # << >>,
           NEW t, Others(t),
           InList(t) => /\ op'[t] = op[t] /\ xTicksToWait'[t] = xTicksToWait[t]
                        /\ pc'[t] \in {"enter", "unlock_tx", "unlock_rx", "resume"},
           t \in Coming({"receive"}) => t \in Coming({"receive"})'
    PROVE  Cardinality(Coming({"receive"})) + n <= Cardinality(Coming({"receive"})')
<1> DEFINE s == xTasksWaitingToReceive
<1>1. /\ s \in Seq(Task) /\ Distinct(s) /\ ListPart
      /\ \A u \in Members(s) : Waits(u, {"receive"})
      /\ \A u \in Members(xTasksWaitingToSend) : Waits(u, {"back", "front"})
    BY DEF WInv, ListPart
<1>2. Shrinks
    BY <1>1, ReceiversShrink
<1>3. Coming({"receive"}) \subseteq Coming({"receive"})'
    BY <1>2, ComingStep
<1>4. n \in 0..Len(s)
    <2>1. ~(Len(s) <= n) /\ Len(s) \in Nat
        BY <1>1, WokenFacts
    <2> QED BY <2>1
<1>5. ASSUME NEW u \in Task, u \in Members(xTasksWaitingToReceive), u \notin Members(xTasksWaitingToReceive')
      PROVE  u \in Coming({"receive"})' /\ u \notin Coming({"receive"})
    <2>1. InList(u) /\ Waits(u, {"receive"})
        BY <1>1, <1>5 DEF InList
    <2>2. u \notin Members(xTasksWaitingToSend)
        BY <1>1, <2>1 DEF Waits
    <2>3. ~InList(u)'
        BY <1>5, <2>2 DEF InList
    <2>4. /\ op'[u] = op[u] /\ xTicksToWait'[u] = xTicksToWait[u]
          /\ pc'[u] \in {"enter", "unlock_tx", "unlock_rx", "resume"}
        BY <1>5, <2>1 DEF Others, Waits
    <2> QED BY <2>1, <2>3, <2>4 DEF Coming, Waits
<1>6. ASSUME NEW i \in 1..n
      PROVE  s[i] \in Coming({"receive"})' \ Coming({"receive"})
    <2>1. i \in 1..Len(s) /\ s[i] \in Task /\ s[i] \in Members(s)
        BY <1>1, <1>4, MemberAt
    <2>2. s[i] \notin Members(Woken(s, n))
        BY <1>1, <2>1, WokenFacts
    <2> QED BY <2>1, <2>2, <1>5
<1> HIDE DEF s
<1>7. Coming({"receive"})' \in SUBSET Task
    BY ComingType
<1> QED BY <1>1, <1>3, <1>4, <1>6, <1>7, AddCount

\* The senders that leave their list come for what there is.
LEMMA SendersCome ==
    ASSUME WInv, NEW n \in Nat, UNCHANGED xTasksWaitingToReceive,
           xTasksWaitingToSend' = Woken(xTasksWaitingToSend, n), xTasksWaitingToSend' # << >>,
           NEW t, Others(t),
           InList(t) => /\ op'[t] = op[t] /\ xTicksToWait'[t] = xTicksToWait[t]
                        /\ pc'[t] \in {"enter", "unlock_tx", "unlock_rx", "resume"},
           t \in Coming({"back", "front"}) => t \in Coming({"back", "front"})'
    PROVE  Cardinality(Coming({"back", "front"})) + n <= Cardinality(Coming({"back", "front"})')
<1> DEFINE s == xTasksWaitingToSend
<1>1. /\ s \in Seq(Task) /\ Distinct(s) /\ ListPart
      /\ \A u \in Members(s) : Waits(u, {"back", "front"})
      /\ \A u \in Members(xTasksWaitingToReceive) : Waits(u, {"receive"})
    BY DEF WInv, ListPart
<1>2. Shrinks
    BY <1>1, SendersShrink
<1>3. Coming({"back", "front"}) \subseteq Coming({"back", "front"})'
    BY <1>2, ComingStep
<1>4. n \in 0..Len(s)
    <2>1. ~(Len(s) <= n) /\ Len(s) \in Nat
        BY <1>1, WokenFacts
    <2> QED BY <2>1
<1>5. ASSUME NEW u \in Task, u \in Members(xTasksWaitingToSend), u \notin Members(xTasksWaitingToSend')
      PROVE  u \in Coming({"back", "front"})' /\ u \notin Coming({"back", "front"})
    <2>1. InList(u) /\ Waits(u, {"back", "front"})
        BY <1>1, <1>5 DEF InList
    <2>2. u \notin Members(xTasksWaitingToReceive)
        BY <1>1, <2>1 DEF Waits
    <2>3. ~InList(u)'
        BY <1>5, <2>2 DEF InList
    <2>4. /\ op'[u] = op[u] /\ xTicksToWait'[u] = xTicksToWait[u]
          /\ pc'[u] \in {"enter", "unlock_tx", "unlock_rx", "resume"}
        BY <1>5, <2>1 DEF Others, Waits
    <2> QED BY <2>1, <2>3, <2>4 DEF Coming, Waits
<1>6. ASSUME NEW i \in 1..n
      PROVE  s[i] \in Coming({"back", "front"})' \ Coming({"back", "front"})
    <2>1. i \in 1..Len(s) /\ s[i] \in Task /\ s[i] \in Members(s)
        BY <1>1, <1>4, MemberAt
    <2>2. s[i] \notin Members(Woken(s, n))
        BY <1>1, <2>1, WokenFacts
    <2> QED BY <2>1, <2>2, <1>5
<1> HIDE DEF s
<1>7. Coming({"back", "front"})' \in SUBSET Task
    BY ComingType
<1> QED BY <1>1, <1>3, <1>4, <1>6, <1>7, AddCount

\* An item more, and a waiting receiver is woken.
LEMMA ItemArrives ==
    ASSUME WInv, UNCHANGED <<xTasksWaitingToSend, cTxLock>>, cTxLock = -1,
           xTasksWaitingToReceive' = Woken(xTasksWaitingToReceive, 1),
           uxMessagesWaiting' \in Nat, uxMessagesWaiting' <= uxMessagesWaiting + 1,
           NEW t, Others(t), ~InList(t), t \notin Coming({"receive"})
    PROVE  NoLostItem'
<1> SUFFICES ASSUME xTasksWaitingToReceive' # << >>
             PROVE  uxMessagesWaiting'
                       <= Cardinality(Coming({"receive"})') + (IF cTxLock' > 0 THEN cTxLock' ELSE 0)
    BY DEF NoLostItem
<1> DEFINE c == Cardinality(Coming({"receive"}))
           d == Cardinality(Coming({"receive"})')
<1>1. c \in Nat /\ d \in Nat
    BY ComingType
<1>2. c + 1 <= d
    BY ReceiversCome
<1>3. xTasksWaitingToReceive # << >>
    <2>1. Shrinks
        BY ReceiversShrink DEF WInv
    <2> QED BY <2>1 DEF Shrinks
<1>4. uxMessagesWaiting <= c + (IF cTxLock > 0 THEN cTxLock ELSE 0) \/ cTxLock >= NumberOfTasks
    BY <1>3 DEF WInv, NoLostItem
<1> HIDE DEF c, d
<1>5. uxMessagesWaiting' <= d
    BY <1>1, <1>2, <1>4, NumberTypes, SMTT(30)
<1> QED BY <1>1, <1>5 DEF d

\* An item less, taken by t if t stops coming.
LEMMA ItemTaken ==
    ASSUME WInv, Shrinks, UNCHANGED cTxLock, uxMessagesWaiting' \in Nat, uxMessagesWaiting' <= uxMessagesWaiting,
           NEW t, Others(t),
           t \in Coming({"receive"}) => t \in Coming({"receive"})' \/ uxMessagesWaiting' = uxMessagesWaiting - 1
    PROVE  NoLostItem'
<1> SUFFICES ASSUME xTasksWaitingToReceive' # << >>
             PROVE  \/ uxMessagesWaiting'
                          <= Cardinality(Coming({"receive"})') + (IF cTxLock' > 0 THEN cTxLock' ELSE 0)
                    \/ cTxLock' >= NumberOfTasks
    BY DEF NoLostItem
<1> DEFINE c == Cardinality(Coming({"receive"}))
           d == Cardinality(Coming({"receive"})')
<1>1. c \in Nat /\ d \in Nat
    BY ComingType
<1>2. c <= d \/ (c - 1 <= d /\ uxMessagesWaiting' = uxMessagesWaiting - 1)
    <2>1. Coming({"receive"}) \ {t} \subseteq Coming({"receive"})'
        BY ComingStep
    <2>2. CASE t \in Coming({"receive"}) => t \in Coming({"receive"})'
        <3>1. Coming({"receive"}) \subseteq Coming({"receive"})'
            BY <2>1, <2>2
        <3> QED BY <3>1, ComingGrows
    <2>3. CASE t \in Coming({"receive"}) /\ t \notin Coming({"receive"})'
        BY <2>1, <2>3, ComingLess
    <2> QED BY <2>2, <2>3
<1>3. xTasksWaitingToReceive # << >>
    BY DEF Shrinks
<1>4. uxMessagesWaiting <= c + (IF cTxLock > 0 THEN cTxLock ELSE 0) \/ cTxLock >= NumberOfTasks
    BY <1>3 DEF WInv, NoLostItem
<1> HIDE DEF c, d
<1>5. \/ uxMessagesWaiting' <= d + (IF cTxLock > 0 THEN cTxLock ELSE 0)
      \/ cTxLock >= NumberOfTasks
    BY <1>1, <1>2, <1>4, NumberTypes, SMTT(30)
<1> QED BY <1>5 DEF d

\* An item more while the queue is locked: the locker will wake a receiver for it.
LEMMA ItemCounted ==
    ASSUME WInv, UNCHANGED <<lists, pc, op, xTicksToWait>>, cTxLock # -1,
           uxMessagesWaiting' \in Nat, uxMessagesWaiting' <= uxMessagesWaiting + 1, cTxLock' = Counted(cTxLock)
    PROVE  NoLostItem'
<1> SUFFICES ASSUME xTasksWaitingToReceive' # << >>
             PROVE  \/ uxMessagesWaiting'
                          <= Cardinality(Coming({"receive"})') + (IF cTxLock' > 0 THEN cTxLock' ELSE 0)
                    \/ cTxLock' >= NumberOfTasks
    BY DEF NoLostItem
<1> DEFINE c == Cardinality(Coming({"receive"}))
<1>1. c \in Nat /\ Coming({"receive"})' = Coming({"receive"})
    BY ComingType DEF Coming, InList, lists
<1>2. uxMessagesWaiting <= c + (IF cTxLock > 0 THEN cTxLock ELSE 0) \/ cTxLock >= NumberOfTasks
    BY DEF WInv, NoLostItem, lists
<1>3. \/ uxMessagesWaiting' <= c + (IF cTxLock' > 0 THEN cTxLock' ELSE 0)
      \/ cTxLock' >= NumberOfTasks
    <2> HIDE DEF c
    <2> QED BY <1>1, <1>2, NumberTypes DEF Counted
<1> QED BY <1>1, <1>3

\* A place more, and a waiting sender is woken.
LEMMA RoomArrives ==
    ASSUME WInv, UNCHANGED <<xTasksWaitingToReceive, cRxLock>>, cRxLock = -1,
           xTasksWaitingToSend' = Woken(xTasksWaitingToSend, 1),
           uxMessagesWaiting' \in Nat, uxMessagesWaiting <= uxMessagesWaiting' + 1,
           NEW t, Others(t), ~InList(t), t \notin Coming({"back", "front"})
    PROVE  NoLostRoom'
<1> SUFFICES ASSUME xTasksWaitingToSend' # << >>
             PROVE  uxLength - uxMessagesWaiting'
                       <= Cardinality(Coming({"back", "front"})') + (IF cRxLock' > 0 THEN cRxLock' ELSE 0)
    BY DEF NoLostRoom
<1> DEFINE c == Cardinality(Coming({"back", "front"}))
           d == Cardinality(Coming({"back", "front"})')
<1>1. c \in Nat /\ d \in Nat
    BY ComingType
<1>2. c + 1 <= d
    BY SendersCome
<1>3. xTasksWaitingToSend # << >>
    <2>1. Shrinks
        BY SendersShrink DEF WInv
    <2> QED BY <2>1 DEF Shrinks
<1>4. uxLength - uxMessagesWaiting <= c + (IF cRxLock > 0 THEN cRxLock ELSE 0) \/ cRxLock >= NumberOfTasks
    BY <1>3 DEF WInv, NoLostRoom
<1> HIDE DEF c, d
<1>5. uxLength - uxMessagesWaiting' <= d
    BY <1>1, <1>2, <1>4, NumberTypes, SMTT(30)
<1> QED BY <1>1, <1>5 DEF d

\* A place less, taken by t if t stops coming.
LEMMA RoomTaken ==
    ASSUME WInv, Shrinks, UNCHANGED cRxLock, uxMessagesWaiting' \in Nat, uxMessagesWaiting <= uxMessagesWaiting',
           NEW t, Others(t),
           t \in Coming({"back", "front"}) =>
              t \in Coming({"back", "front"})' \/ uxMessagesWaiting' = uxMessagesWaiting + 1
    PROVE  NoLostRoom'
<1> SUFFICES ASSUME xTasksWaitingToSend' # << >>
             PROVE  \/ uxLength - uxMessagesWaiting'
                          <= Cardinality(Coming({"back", "front"})') + (IF cRxLock' > 0 THEN cRxLock' ELSE 0)
                    \/ cRxLock' >= NumberOfTasks
    BY DEF NoLostRoom
<1> DEFINE c == Cardinality(Coming({"back", "front"}))
           d == Cardinality(Coming({"back", "front"})')
<1>1. c \in Nat /\ d \in Nat
    BY ComingType
<1>2. c <= d \/ (c - 1 <= d /\ uxMessagesWaiting' = uxMessagesWaiting + 1)
    <2>1. Coming({"back", "front"}) \ {t} \subseteq Coming({"back", "front"})'
        BY ComingStep
    <2>2. CASE t \in Coming({"back", "front"}) => t \in Coming({"back", "front"})'
        <3>1. Coming({"back", "front"}) \subseteq Coming({"back", "front"})'
            BY <2>1, <2>2
        <3> QED BY <3>1, ComingGrows
    <2>3. CASE t \in Coming({"back", "front"}) /\ t \notin Coming({"back", "front"})'
        BY <2>1, <2>3, ComingLess
    <2> QED BY <2>2, <2>3
<1>3. xTasksWaitingToSend # << >>
    BY DEF Shrinks
<1>4. uxLength - uxMessagesWaiting <= c + (IF cRxLock > 0 THEN cRxLock ELSE 0) \/ cRxLock >= NumberOfTasks
    BY <1>3 DEF WInv, NoLostRoom
<1> HIDE DEF c, d
<1>5. \/ uxLength - uxMessagesWaiting' <= d + (IF cRxLock > 0 THEN cRxLock ELSE 0)
      \/ cRxLock >= NumberOfTasks
    BY <1>1, <1>2, <1>4, NumberTypes, SMTT(30)
<1> QED BY <1>5 DEF d

\* A place more while the queue is locked: the locker will wake a sender for it.
LEMMA RoomCounted ==
    ASSUME WInv, UNCHANGED <<lists, pc, op, xTicksToWait>>, cRxLock # -1,
           uxMessagesWaiting' \in Nat, uxMessagesWaiting <= uxMessagesWaiting' + 1, cRxLock' = Counted(cRxLock)
    PROVE  NoLostRoom'
<1> SUFFICES ASSUME xTasksWaitingToSend' # << >>
             PROVE  \/ uxLength - uxMessagesWaiting'
                          <= Cardinality(Coming({"back", "front"})') + (IF cRxLock' > 0 THEN cRxLock' ELSE 0)
                    \/ cRxLock' >= NumberOfTasks
    BY DEF NoLostRoom
<1> DEFINE c == Cardinality(Coming({"back", "front"}))
<1>1. c \in Nat /\ Coming({"back", "front"})' = Coming({"back", "front"})
    BY ComingType DEF Coming, InList, lists
<1>2. uxLength - uxMessagesWaiting <= c + (IF cRxLock > 0 THEN cRxLock ELSE 0) \/ cRxLock >= NumberOfTasks
    BY DEF WInv, NoLostRoom, lists
<1>3. \/ uxLength - uxMessagesWaiting' <= c + (IF cRxLock' > 0 THEN cRxLock' ELSE 0)
      \/ cRxLock' >= NumberOfTasks
    <2> HIDE DEF c
    <2> QED BY <1>1, <1>2, NumberTypes, SMTT(30) DEF Counted
<1> QED BY <1>1, <1>3

\* An item is put in the queue.
LEMMA PutCount ==
    ASSUME WInv, NEW o \in Sends, NEW m, prvCopyDataToQueue(o, m), HasRoom(o)
    PROVE  /\ uxMessagesWaiting' \in Nat /\ uxMessagesWaiting <= uxMessagesWaiting'
           /\ uxMessagesWaiting' <= uxMessagesWaiting + 1
           /\ o # "overwrite" => uxMessagesWaiting' = uxMessagesWaiting + 1
  BY NumberTypes DEF prvCopyDataToQueue

\* A send that finds room.
LEMMA EnterSendWakes ==
    ASSUME WInv, NEW t \in Task, EnterSend(t)
    PROVE  Wakes
<1>1. Others(t) /\ pc'[t] = "idle" /\ op[t] \in Sends
    BY CallTypes DEF Others, EnterSend, Return
<1>2. "enter" \in PC /\ "enter" \notin Owned /\ At(t, "enter")
    BY DEF PC, Owned, EnterSend
<1>3. owner = NoTask /\ ~InList(t) /\ cTxLock = -1 /\ cRxLock = -1
    BY <1>2, Unowned
<1>4. /\ xTasksWaitingToReceive' = Woken(xTasksWaitingToReceive, 1)
      /\ UNCHANGED <<xTasksWaitingToSend, cTxLock, cRxLock>>
    BY DEF EnterSend, UnblockReceiver, locks
<1>5. Shrinks
    BY <1>4, ReceiversShrink DEF WInv
<1>6. ~InList(t)'
    BY <1>3, <1>5 DEF InList, Shrinks
<1>7. ListPart'
    BY <1>1, <1>5, <1>6, ListStep DEF WInv
<1>8. PlaceInv'
    BY <1>1, <1>2, PlaceStep
<1>9. /\ uxMessagesWaiting' \in Nat /\ uxMessagesWaiting <= uxMessagesWaiting'
      /\ uxMessagesWaiting' <= uxMessagesWaiting + 1
      /\ op[t] # "overwrite" => uxMessagesWaiting' = uxMessagesWaiting + 1
    <2>1. HasRoom(op[t]) /\ prvCopyDataToQueue(op[t], item[t])
        BY <1>1 DEF EnterSend, Blocked, Sends
    <2> QED BY <1>1, <2>1, PutCount
<1>10. t \notin Coming({"receive"})
    BY <1>1 DEF Coming, Sends
<1>11. NoLostItem'
    BY <1>1, <1>3, <1>4, <1>9, <1>10, ItemArrives
<1>12. t \in Coming({"back", "front"}) => uxMessagesWaiting' = uxMessagesWaiting + 1
    BY <1>9 DEF Coming
<1>13. NoLostRoom'
    BY <1>1, <1>4, <1>5, <1>9, <1>12, RoomTaken
<1> QED BY <1>7, <1>8, <1>11, <1>13 DEF Wakes

\* A receive that finds an item.
LEMMA EnterReceiveWakes ==
    ASSUME WInv, NEW t \in Task, EnterReceive(t)
    PROVE  Wakes
<1>1. Others(t) /\ pc'[t] = "idle" /\ op[t] = "receive"
    BY CallTypes DEF Others, EnterReceive, Return
<1>2. "enter" \in PC /\ "enter" \notin Owned /\ At(t, "enter")
    BY DEF PC, Owned, EnterReceive
<1>3. owner = NoTask /\ ~InList(t) /\ cTxLock = -1 /\ cRxLock = -1
    BY <1>2, Unowned
<1>4. /\ xTasksWaitingToSend' = Woken(xTasksWaitingToSend, 1)
      /\ UNCHANGED <<xTasksWaitingToReceive, cTxLock, cRxLock>>
    BY DEF EnterReceive, UnblockSender, locks
<1>5. Shrinks
    BY <1>4, SendersShrink DEF WInv
<1>6. ~InList(t)'
    BY <1>3, <1>5 DEF InList, Shrinks
<1>7. ListPart'
    BY <1>1, <1>5, <1>6, ListStep DEF WInv
<1>8. PlaceInv'
    BY <1>1, <1>2, PlaceStep
<1>9. /\ uxMessagesWaiting' \in Nat /\ uxMessagesWaiting' <= uxMessagesWaiting
      /\ uxMessagesWaiting <= uxMessagesWaiting' + 1 /\ uxMessagesWaiting' = uxMessagesWaiting - 1
    BY <1>1, NumberTypes DEF EnterReceive, Blocked, prvCopyDataFromQueue
<1>10. t \notin Coming({"back", "front"})
    BY <1>1 DEF Coming
<1>11. NoLostRoom'
    BY <1>1, <1>3, <1>4, <1>9, <1>10, RoomArrives
<1>12. NoLostItem'
    BY <1>1, <1>4, <1>5, <1>9, ItemTaken
<1> QED BY <1>7, <1>8, <1>11, <1>12 DEF Wakes

\* No call of a task goes on while an interrupt handler runs.
LEMMA HandlerLists ==
    ASSUME WInv, Shrinks, UNCHANGED <<pc, op, xTicksToWait>>
    PROVE  /\ Others(NoTask) /\ ~InList(NoTask) /\ (\A ops : NoTask \notin Coming(ops))
           /\ ListPart'
<1>1. Others(NoTask)
    BY DEF Others
<1>2. ~InList(NoTask) /\ ~InList(NoTask)'
    BY MemberAt, NoTaskIsNone, SMTT(30) DEF InList, Shrinks, WInv, ListPart
<1>3. ListPart'
    BY <1>1, <1>2, ListStep DEF WInv
<1> QED BY <1>1, <1>2, <1>3, NoTaskIsNone DEF Coming

\* An interrupt handler sends.
LEMMA IsrSendWakes ==
    ASSUME WInv, NEW o \in Sends, NEW m, xQueueGenericSendFromISR(o, m)
    PROVE  Wakes
<1>1. UNCHANGED <<pc, op, xTicksToWait, cRxLock>>
    BY DEF xQueueGenericSendFromISR, caller, timeout, UnblockReceiver, locks
<1>2. Shrinks
    <2>1. CASE cTxLock = -1
        BY <2>1, ReceiversShrink DEF xQueueGenericSendFromISR, UnblockReceiver, WInv
    <2>2. CASE cTxLock # -1
        BY <2>2, SameShrinks DEF xQueueGenericSendFromISR, WInv
    <2> QED BY <2>1, <2>2
<1>3. /\ Others(NoTask) /\ ~InList(NoTask) /\ (\A ops : NoTask \notin Coming(ops))
      /\ ListPart'
    BY <1>1, <1>2, HandlerLists
<1>4. /\ uxMessagesWaiting' \in Nat /\ uxMessagesWaiting <= uxMessagesWaiting'
      /\ uxMessagesWaiting' <= uxMessagesWaiting + 1
    BY PutCount DEF xQueueGenericSendFromISR
<1>5. NoLostRoom'
    BY <1>1, <1>2, <1>3, <1>4, RoomTaken
<1>6. NoLostItem'
    <2>1. CASE cTxLock = -1
        <3>1. /\ xTasksWaitingToReceive' = Woken(xTasksWaitingToReceive, 1)
              /\ UNCHANGED <<xTasksWaitingToSend, cTxLock>>
            BY <2>1 DEF xQueueGenericSendFromISR, UnblockReceiver, locks
        <3> QED BY <2>1, <3>1, <1>3, <1>4, ItemArrives
    <2>2. CASE cTxLock # -1
        <3>1. UNCHANGED lists /\ cTxLock' = Counted(cTxLock)
            BY <2>2 DEF xQueueGenericSendFromISR
        <3> QED BY <2>2, <3>1, <1>1, <1>4, ItemCounted
    <2> QED BY <2>1, <2>2
<1>7. PlaceInv'
    <2> SUFFICES ASSUME NEW u \in Task, pc[u] \in {"test", "place"}
                 PROVE  /\ xTicksToWait[u] # 0
                        /\ pc[u] = "place" /\ op[u] = "receive" =>
                              uxMessagesWaiting' <= cTxLock' \/ cTxLock' >= NumberOfTasks
                        /\ pc[u] = "place" /\ op[u] # "receive" =>
                              /\ op[u] \in {"back", "front"}
                              /\ uxLength - uxMessagesWaiting' <= cRxLock' \/ cRxLock' >= NumberOfTasks
        BY <1>1 DEF PlaceInv
    <2>1. cTxLock' = Counted(cTxLock) /\ cRxLock' = cRxLock
        BY <1>1 DEF xQueueGenericSendFromISR, WInv, LockPart, LockInv
    <2>2. /\ xTicksToWait[u] # 0
          /\ pc[u] = "place" /\ op[u] = "receive" => uxMessagesWaiting <= cTxLock \/ cTxLock >= NumberOfTasks
          /\ pc[u] = "place" /\ op[u] # "receive" =>
                /\ op[u] \in {"back", "front"}
                /\ uxLength - uxMessagesWaiting <= cRxLock \/ cRxLock >= NumberOfTasks
        BY DEF WInv, PlaceInv
    <2>3. /\ uxMessagesWaiting <= cTxLock \/ cTxLock >= NumberOfTasks =>
                uxMessagesWaiting' <= cTxLock' \/ cTxLock' >= NumberOfTasks
          /\ uxLength - uxMessagesWaiting <= cRxLock \/ cRxLock >= NumberOfTasks =>
                uxLength - uxMessagesWaiting' <= cRxLock' \/ cRxLock' >= NumberOfTasks
        BY <2>1, <1>4, NumberTypes DEF Counted
    <2> QED BY <2>2, <2>3
<1> QED BY <1>3, <1>5, <1>6, <1>7 DEF Wakes

\* An interrupt handler receives.
LEMMA IsrReceiveWakes ==
    ASSUME WInv, xQueueReceiveFromISR
    PROVE  Wakes
<1>1. UNCHANGED <<pc, op, xTicksToWait, cTxLock>>
    BY DEF xQueueReceiveFromISR, caller, timeout, UnblockSender, locks
<1>2. Shrinks
    <2>1. CASE cRxLock = -1
        BY <2>1, SendersShrink DEF xQueueReceiveFromISR, UnblockSender, WInv
    <2>2. CASE cRxLock # -1
        BY <2>2, SameShrinks DEF xQueueReceiveFromISR, WInv
    <2> QED BY <2>1, <2>2
<1>3. /\ Others(NoTask) /\ ~InList(NoTask) /\ (\A ops : NoTask \notin Coming(ops))
      /\ ListPart'
    BY <1>1, <1>2, HandlerLists
<1>4. /\ uxMessagesWaiting' \in Nat /\ uxMessagesWaiting' <= uxMessagesWaiting
      /\ uxMessagesWaiting <= uxMessagesWaiting' + 1
    BY NumberTypes DEF xQueueReceiveFromISR, prvCopyDataFromQueue
<1>5. NoLostItem'
    BY <1>1, <1>2, <1>3, <1>4, ItemTaken
<1>6. NoLostRoom'
    <2>1. CASE cRxLock = -1
        <3>1. /\ xTasksWaitingToSend' = Woken(xTasksWaitingToSend, 1)
              /\ UNCHANGED <<xTasksWaitingToReceive, cRxLock>>
            BY <2>1 DEF xQueueReceiveFromISR, UnblockSender, locks
        <3> QED BY <2>1, <3>1, <1>3, <1>4, RoomArrives
    <2>2. CASE cRxLock # -1
        <3>1. UNCHANGED lists /\ cRxLock' = Counted(cRxLock)
            BY <2>2 DEF xQueueReceiveFromISR
        <3> QED BY <2>2, <3>1, <1>1, <1>4, RoomCounted
    <2> QED BY <2>1, <2>2
<1>7. PlaceInv'
    <2> SUFFICES ASSUME NEW u \in Task, pc[u] \in {"test", "place"}
                 PROVE  /\ xTicksToWait[u] # 0
                        /\ pc[u] = "place" /\ op[u] = "receive" =>
                              uxMessagesWaiting' <= cTxLock' \/ cTxLock' >= NumberOfTasks
                        /\ pc[u] = "place" /\ op[u] # "receive" =>
                              /\ op[u] \in {"back", "front"}
                              /\ uxLength - uxMessagesWaiting' <= cRxLock' \/ cRxLock' >= NumberOfTasks
        BY <1>1 DEF PlaceInv
    <2>1. cRxLock' = Counted(cRxLock) /\ cTxLock' = cTxLock
        BY <1>1 DEF xQueueReceiveFromISR, WInv, LockPart, LockInv
    <2>2. /\ xTicksToWait[u] # 0
          /\ pc[u] = "place" /\ op[u] = "receive" => uxMessagesWaiting <= cTxLock \/ cTxLock >= NumberOfTasks
          /\ pc[u] = "place" /\ op[u] # "receive" =>
                /\ op[u] \in {"back", "front"}
                /\ uxLength - uxMessagesWaiting <= cRxLock \/ cRxLock >= NumberOfTasks
        BY DEF WInv, PlaceInv
    <2>3. /\ uxMessagesWaiting <= cTxLock \/ cTxLock >= NumberOfTasks =>
                uxMessagesWaiting' <= cTxLock' \/ cTxLock' >= NumberOfTasks
          /\ uxLength - uxMessagesWaiting <= cRxLock \/ cRxLock >= NumberOfTasks =>
                uxLength - uxMessagesWaiting' <= cRxLock' \/ cRxLock' >= NumberOfTasks
        BY <2>1, <1>4, NumberTypes DEF Counted
    <2> QED BY <2>2, <2>3
<1> QED BY <1>3, <1>5, <1>6, <1>7 DEF Wakes

\* prvUnlockQueue, first half: one receiver is woken for each item counted.
LEMMA UnlockTxWakes ==
    ASSUME WInv, NEW t \in Task, UnlockTx(t)
    PROVE  Wakes
<1>1. /\ Others(t) /\ op'[t] = op[t] /\ xTicksToWait'[t] = xTicksToWait[t] /\ pc'[t] = "unlock_rx"
    BY CallTypes DEF Others, UnlockTx, Goto, caller, timeout
<1>2. "unlock_tx" \in PC /\ At(t, "unlock_tx") /\ pc[t] = "unlock_tx"
    BY DEF PC, UnlockTx, At
<1>3. cTxLock \in Nat
    BY <1>2, NumberTypes DEF WInv, LockPart, LockInv
<1>4. /\ xTasksWaitingToReceive' = Woken(xTasksWaitingToReceive, cTxLock) /\ cTxLock' = -1
      /\ UNCHANGED <<xTasksWaitingToSend, cRxLock, uxMessagesWaiting>>
    BY DEF UnlockTx, storage
<1>5. PICK n \in Nat : n = cTxLock
    BY <1>3
<1>6. xTasksWaitingToReceive' = Woken(xTasksWaitingToReceive, n)
    BY <1>4, <1>5
<1>7. Shrinks
    BY <1>4, <1>6, ReceiversShrink DEF WInv
<1>8. ListPart'
    BY <1>1, <1>7, ListStep DEF WInv
<1>9. PlaceInv'
    BY <1>1, <1>2, PlaceStep
<1>10. \A ops : t \in Coming(ops) => t \in Coming(ops)'
    <2>1. InList(t)' => InList(t)
        BY <1>7 DEF InList, Shrinks
    <2> QED BY <2>1, <1>1, <1>2 DEF Coming
<1>11. NoLostRoom'
    BY <1>1, <1>4, <1>7, <1>10, NumberTypes, RoomTaken
<1>12. NoLostItem'
  <2> SUFFICES ASSUME xTasksWaitingToReceive' # << >>
               PROVE  uxMessagesWaiting'
                         <= Cardinality(Coming({"receive"})') + (IF cTxLock' > 0 THEN cTxLock' ELSE 0)
      BY DEF NoLostItem
  <2> DEFINE c == Cardinality(Coming({"receive"}))
             d == Cardinality(Coming({"receive"})')
  <2>1. c \in Nat /\ d \in Nat
      BY ComingType
  <2>2. c + n <= d
      BY <1>1, <1>4, <1>6, <1>10, ReceiversCome
  <2>3. xTasksWaitingToReceive # << >>
      BY <1>7 DEF Shrinks
  <2>4. uxMessagesWaiting <= c + (IF cTxLock > 0 THEN cTxLock ELSE 0) \/ cTxLock >= NumberOfTasks
      BY <2>3 DEF WInv, NoLostItem
  <2>5. ~(n >= NumberOfTasks)
      <3>1. xTasksWaitingToReceive \in Seq(Task) /\ Distinct(xTasksWaitingToReceive)
          BY DEF WInv, ListPart
      <3>2. Len(xTasksWaitingToReceive) <= Cardinality(Task) /\ Len(xTasksWaitingToReceive) \in Nat
          BY <3>1, LengthCount
      <3>3. ~(Len(xTasksWaitingToReceive) <= n)
          BY <3>1, <1>6, WokenFacts
      <3> QED BY <3>2, <3>3, NumberTypes
  <2> HIDE DEF c, d
  <2>6. uxMessagesWaiting' <= d
      BY <1>4, <1>5, <2>1, <2>2, <2>4, <2>5, NumberTypes
  <2> QED BY <1>4, <2>1, <2>6 DEF d
<1> QED BY <1>8, <1>9, <1>11, <1>12 DEF Wakes

\* prvUnlockQueue, second half: one sender is woken for each place counted.
LEMMA UnlockRxWakes ==
    ASSUME WInv, NEW t \in Task, UnlockRx(t)
    PROVE  Wakes
<1>1. /\ Others(t) /\ op'[t] = op[t] /\ xTicksToWait'[t] = xTicksToWait[t] /\ pc'[t] = "resume"
    BY CallTypes DEF Others, UnlockRx, Goto, caller, timeout
<1>2. "unlock_rx" \in PC /\ At(t, "unlock_rx") /\ pc[t] = "unlock_rx"
    BY DEF PC, UnlockRx, At
<1>3. cRxLock \in Nat
    BY <1>2, NumberTypes DEF WInv, LockPart, LockInv
<1>4. /\ xTasksWaitingToSend' = Woken(xTasksWaitingToSend, cRxLock) /\ cRxLock' = -1
      /\ UNCHANGED <<xTasksWaitingToReceive, cTxLock, uxMessagesWaiting>>
    BY DEF UnlockRx, storage
<1>5. PICK n \in Nat : n = cRxLock
    BY <1>3
<1>6. xTasksWaitingToSend' = Woken(xTasksWaitingToSend, n)
    BY <1>4, <1>5
<1>7. Shrinks
    BY <1>4, <1>6, SendersShrink DEF WInv
<1>8. ListPart'
    BY <1>1, <1>7, ListStep DEF WInv
<1>9. PlaceInv'
    BY <1>1, <1>2, PlaceStep
<1>10. \A ops : t \in Coming(ops) => t \in Coming(ops)'
    <2>1. InList(t)' => InList(t)
        BY <1>7 DEF InList, Shrinks
    <2> QED BY <2>1, <1>1, <1>2 DEF Coming
<1>11. NoLostItem'
    BY <1>1, <1>4, <1>7, <1>10, NumberTypes, ItemTaken
<1>12. NoLostRoom'
  <2> SUFFICES ASSUME xTasksWaitingToSend' # << >>
               PROVE  uxLength - uxMessagesWaiting'
                         <= Cardinality(Coming({"back", "front"})') + (IF cRxLock' > 0 THEN cRxLock' ELSE 0)
      BY DEF NoLostRoom
  <2> DEFINE c == Cardinality(Coming({"back", "front"}))
             d == Cardinality(Coming({"back", "front"})')
  <2>1. c \in Nat /\ d \in Nat
      BY ComingType
  <2>2. c + n <= d
      BY <1>1, <1>4, <1>6, <1>10, SendersCome
  <2>3. xTasksWaitingToSend # << >>
      BY <1>7 DEF Shrinks
  <2>4. uxLength - uxMessagesWaiting <= c + (IF cRxLock > 0 THEN cRxLock ELSE 0) \/ cRxLock >= NumberOfTasks
      BY <2>3 DEF WInv, NoLostRoom
  <2>5. ~(n >= NumberOfTasks)
      <3>1. xTasksWaitingToSend \in Seq(Task) /\ Distinct(xTasksWaitingToSend)
          BY DEF WInv, ListPart
      <3>2. Len(xTasksWaitingToSend) <= Cardinality(Task) /\ Len(xTasksWaitingToSend) \in Nat
          BY <3>1, LengthCount
      <3>3. ~(Len(xTasksWaitingToSend) <= n)
          BY <3>1, <1>6, WokenFacts
      <3> QED BY <3>2, <3>3, NumberTypes
  <2> HIDE DEF c, d
  <2>6. uxLength - uxMessagesWaiting' <= d
      BY <1>4, <1>5, <2>1, <2>2, <2>4, <2>5, NumberTypes
  <2> QED BY <1>4, <2>1, <2>6 DEF d
<1> QED BY <1>8, <1>9, <1>11, <1>12 DEF Wakes

\* A task enters its event list, where what has arrived since it looked is counted.
LEMMA PlaceWakes ==
    ASSUME WInv, NEW t \in Task, vTaskPlaceOnEventList(t)
    PROVE  Wakes
<1>1. /\ Others(t) /\ op'[t] = op[t] /\ xTicksToWait'[t] = xTicksToWait[t] /\ pc'[t] = "unlock_tx"
    BY CallTypes DEF Others, vTaskPlaceOnEventList, Goto, caller, timeout
<1>2. "place" \in PC /\ At(t, "place") /\ pc[t] = "place"
    BY DEF PC, vTaskPlaceOnEventList, At
<1>3. UNCHANGED <<cTxLock, cRxLock, uxMessagesWaiting>>
    BY DEF vTaskPlaceOnEventList, storage, locks
<1>4. PlaceInv'
    BY <1>1, <1>2, PlaceStep
<1>5. ~InList(t)
    BY <1>2, NotListed
<1>6. /\ xTasksWaitingToReceive \in Seq(Task) /\ Distinct(xTasksWaitingToReceive)
      /\ xTasksWaitingToSend \in Seq(Task) /\ Distinct(xTasksWaitingToSend)
      /\ t \notin Members(xTasksWaitingToReceive) /\ t \notin Members(xTasksWaitingToSend)
    BY <1>5 DEF WInv, ListPart, InList
<1>7. /\ xTicksToWait[t] # 0
      /\ op[t] = "receive" => uxMessagesWaiting <= cTxLock \/ cTxLock >= NumberOfTasks
      /\ op[t] # "receive" => /\ op[t] \in {"back", "front"}
                              /\ uxLength - uxMessagesWaiting <= cRxLock \/ cRxLock >= NumberOfTasks
    BY <1>2 DEF WInv, PlaceInv
<1>8. /\ xTasksWaitingToReceive' \in Seq(Task) /\ Distinct(xTasksWaitingToReceive')
      /\ xTasksWaitingToSend' \in Seq(Task) /\ Distinct(xTasksWaitingToSend')
      /\ Members(xTasksWaitingToReceive') =
            Members(xTasksWaitingToReceive) \cup (IF op[t] = "receive" THEN {t} ELSE {})
      /\ Members(xTasksWaitingToSend') =
            Members(xTasksWaitingToSend) \cup (IF op[t] = "receive" THEN {} ELSE {t})
    <2>1. CASE op[t] = "receive"
        <3>1. /\ xTasksWaitingToReceive' = Inserted(xTasksWaitingToReceive, t)
              /\ xTasksWaitingToSend' = xTasksWaitingToSend
            BY <2>1 DEF vTaskPlaceOnEventList
        <3> QED BY <2>1, <3>1, <1>6, InsertedAt, InsertedMembers
    <2>2. CASE op[t] # "receive"
        <3>1. /\ xTasksWaitingToSend' = Inserted(xTasksWaitingToSend, t)
              /\ xTasksWaitingToReceive' = xTasksWaitingToReceive
            BY <2>2 DEF vTaskPlaceOnEventList
        <3> QED BY <2>2, <3>1, <1>6, InsertedAt, InsertedMembers
    <2> QED BY <2>1, <2>2
<1>9. ListPart'
  <2>1. \A u \in Members(xTasksWaitingToReceive') \cup Members(xTasksWaitingToSend') : u \in Task
      BY <1>8, MemberAt
  <2>2. \A u \in Members(xTasksWaitingToReceive') : Waits(u, {"receive"})'
      BY <1>1, <1>7, <1>8, <2>1 DEF WInv, ListPart, Waits, Others
  <2>3. \A u \in Members(xTasksWaitingToSend') : Waits(u, {"back", "front"})'
      BY <1>1, <1>7, <1>8, <2>1 DEF WInv, ListPart, Waits, Others
  <2> QED BY <1>8, <2>2, <2>3 DEF ListPart, Distinct
<1>10. \A ops : Coming(ops) \subseteq Coming(ops)'
  <2>1. \A u : u # t /\ InList(u)' => InList(u)
      BY <1>8 DEF InList
  <2>2. \A ops : t \notin Coming(ops)
      BY <1>2 DEF Coming
  <2> QED BY <1>1, <2>1, <2>2 DEF Coming, Others
<1>11. NoLostItem'
  <2> DEFINE c == Cardinality(Coming({"receive"}))
             d == Cardinality(Coming({"receive"})')
  <2>1. c \in Nat /\ d \in Nat /\ c <= d
      BY <1>10, ComingType, ComingGrows
  <2> HIDE DEF c, d
  <2>2. CASE op[t] = "receive"
      <3>1. uxMessagesWaiting <= d + (IF cTxLock > 0 THEN cTxLock ELSE 0) \/ cTxLock >= NumberOfTasks
          BY <1>7, <2>1, <2>2, NumberTypes
      <3> QED BY <3>1, <1>3 DEF NoLostItem, d
  <2>3. CASE op[t] # "receive"
      <3>1. UNCHANGED xTasksWaitingToReceive
          BY <2>3 DEF vTaskPlaceOnEventList
      <3>2. xTasksWaitingToReceive # << >> =>
               uxMessagesWaiting <= c + (IF cTxLock > 0 THEN cTxLock ELSE 0) \/ cTxLock >= NumberOfTasks
          BY DEF WInv, NoLostItem, c
      <3>3. xTasksWaitingToReceive # << >> =>
               uxMessagesWaiting <= d + (IF cTxLock > 0 THEN cTxLock ELSE 0) \/ cTxLock >= NumberOfTasks
          BY <3>2, <2>1, NumberTypes
      <3> QED BY <3>1, <3>3, <1>3 DEF NoLostItem, d
  <2> QED BY <2>2, <2>3
<1>12. NoLostRoom'
  <2> DEFINE c == Cardinality(Coming({"back", "front"}))
             d == Cardinality(Coming({"back", "front"})')
  <2>1. c \in Nat /\ d \in Nat /\ c <= d
      BY <1>10, ComingType, ComingGrows
  <2> HIDE DEF c, d
  <2>2. CASE op[t] # "receive"
      <3>1. uxLength - uxMessagesWaiting <= d + (IF cRxLock > 0 THEN cRxLock ELSE 0) \/ cRxLock >= NumberOfTasks
          BY <1>7, <2>1, <2>2, NumberTypes
      <3> QED BY <3>1, <1>3 DEF NoLostRoom, d
  <2>3. CASE op[t] = "receive"
      <3>1. UNCHANGED xTasksWaitingToSend
          BY <2>3 DEF vTaskPlaceOnEventList
      <3>2. xTasksWaitingToSend # << >> =>
               uxLength - uxMessagesWaiting <= c + (IF cRxLock > 0 THEN cRxLock ELSE 0) \/ cRxLock >= NumberOfTasks
          BY DEF WInv, NoLostRoom, c
      <3>3. xTasksWaitingToSend # << >> =>
               uxLength - uxMessagesWaiting <= d + (IF cRxLock > 0 THEN cRxLock ELSE 0) \/ cRxLock >= NumberOfTasks
          BY <3>2, <2>1, NumberTypes
      <3> QED BY <3>1, <3>3, <1>3 DEF NoLostRoom, d
  <2> QED BY <2>2, <2>3
<1> QED BY <1>4, <1>9, <1>11, <1>12 DEF Wakes

-----------------------------------------------------------------------------
(* The invariant.                                                          *)

\* An empty queue that nobody has called.
LEMMA InitWakes == Init => WInv
<1> SUFFICES ASSUME Init PROVE WInv
    OBVIOUS
<1>1. QInv
    BY InitMaps
<1>2. LockPart
    BY NoTaskIsNone, QueueAssumption DEF Init, LockPart, LockInv, PC, Owned
<1>3. ListPart
    <2>1. xTasksWaitingToReceive = << >> /\ xTasksWaitingToSend = << >>
        BY DEF Init
    <2>2. Members(<< >>) = {} /\ << >> \in Seq(Task) /\ Distinct(<< >>)
        BY DEF Members, Distinct
    <2> QED BY <2>1, <2>2 DEF ListPart
<1>4. PlaceInv /\ NoLostItem /\ NoLostRoom
    BY DEF Init, PlaceInv, NoLostItem, NoLostRoom
<1> QED BY <1>1, <1>2, <1>3, <1>4 DEF WInv

\* A step of a call.
LEMMA StepWakes ==
    ASSUME WInv, NEW t \in Task, Step(t)
    PROVE  Wakes
  BY EnterSendWakes, EnterReceiveWakes, EnterFailWakes, EnterWaitWakes, SuspendWakes, LockQueueWakes,
     TestQueueWakes, PlaceWakes, UnlockTxWakes, UnlockRxWakes, ResumeWakes, ExpiredFailWakes,
     ExpiredRetryWakes DEF Step

\* A step of the system.
LEMMA NextWakes == WInv /\ [Next]_vars => WInv'
<1> SUFFICES ASSUME WInv, [Next]_vars PROVE WInv'
    OBVIOUS
<1>1. QInv'
    BY NextMaps DEF WInv
<1>2. LockPart'
    BY NextLocks DEF WInv
<1>3. Wakes
  <2>1. ASSUME NEW t \in Task, NEW o, NEW w, NEW m, Call(t, o, w, m)
        PROVE  Wakes
      BY <2>1, CallWakes
  <2>2. ASSUME NEW t \in Task, Step(t)
        PROVE  Wakes
      BY <2>2, StepWakes
  <2>3. ASSUME NEW o \in Sends, NEW m \in Msg, xQueueGenericSendFromISR(o, m)
        PROVE  Wakes
      BY <2>3, IsrSendWakes
  <2>4. CASE xQueueReceiveFromISR
      BY <2>4, IsrReceiveWakes
  <2>5. CASE Tick
      BY <2>5, TickWakes
  <2>6. CASE UNCHANGED vars
      BY <2>6 DEF vars, storage, locks, lists, sched, caller, timeout, Wakes, WInv, ListPart, Waits, PlaceInv,
         NoLostItem, NoLostRoom, Coming, InList
  <2> QED BY <2>1, <2>2, <2>3, <2>4, <2>5, <2>6 DEF Next
<1> QED BY <1>1, <1>2, <1>3 DEF WInv, Wakes

\* What the invariant says.
LEMMA WakesMeans == WInv => IInv
<1> SUFFICES ASSUME WInv PROVE IInv
    OBVIOUS
<1>1. TypeOK
    BY DEF WInv, QInv, StorageType, CallType, LockPart, ListPart, TypeOK
<1>2. ASSUME NEW s \in Seq(Task), NEW ops, Distinct(s), \A u \in Members(s) : Waits(u, ops)
      PROVE  ListInv(s, ops)
    <2>1. \A i \in 1..Len(s) : s[i] \in Members(s)
        BY MemberAt
    <2> QED BY <1>2, <2>1 DEF ListInv, Waits, Distinct
<1>3. ListInv(xTasksWaitingToReceive, {"receive"}) /\ ListInv(xTasksWaitingToSend, {"back", "front"})
    BY <1>2 DEF WInv, ListPart
<1> QED BY <1>1, <1>3 DEF WInv, LockPart, IInv

\* The inductive invariant of the queue holds: locks, event lists and storage fit
\* together between any two critical sections.
THEOREM QueueInvariant == Spec => []IInv
  BY InitWakes, NextWakes, WakesMeans, PTL DEF Spec

\* The queue's variables have their types; in particular the lock counts stay
\* between queueUNLOCKED and the number of tasks, whatever interrupts do.
THEOREM QueueTypes == Spec => []TypeOK
<1>1. IInv => TypeOK
    BY DEF IInv
<1> QED BY <1>1, QueueInvariant, PTL

\* No receiver stays blocked on an item that nobody will take: for every number of
\* tasks and items, and wherever interrupts and ticks fall.
THEOREM ItemsReachReceivers == Spec => []NoLostItem
<1>1. IInv => NoLostItem
    BY DEF IInv
<1> QED BY <1>1, QueueInvariant, PTL

\* No sender stays blocked on a place that nobody will fill.
THEOREM RoomReachesSenders == Spec => []NoLostRoom
<1>1. IInv => NoLostRoom
    BY DEF IInv
<1> QED BY <1>1, QueueInvariant, PTL

=============================================================================
