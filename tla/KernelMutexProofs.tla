-------------------------- MODULE KernelMutexProofs -------------------------
(***************************************************************************)
(* Proofs about the kernel's mutexes, for any tasks, mutexes, priorities   *)
(* and uses.                                                               *)
(***************************************************************************)
EXTENDS KernelMutex, NaturalLemmas, FiniteSetTheorems, TLAPS

-----------------------------------------------------------------------------
(* Event lists as sequences without duplicates.                            *)

Distinct(s) == \A i, j \in 1..Len(s) : s[i] = s[j] => i = j

\* Members lists what the positions hold.
LEMMA MemberAt ==
    ASSUME NEW s \in Seq(Task), NEW t
    PROVE  t \in Members(s) <=> \E i \in 1..Len(s) : s[i] = t
  BY DEF Members

\* Concatenation, by positions.
LEMMA ConcatFacts ==
    ASSUME NEW a \in Seq(Task), NEW b \in Seq(Task)
    PROVE  /\ a \o b \in Seq(Task) /\ Len(a \o b) = Len(a) + Len(b) /\ Len(a) \in Nat /\ Len(b) \in Nat
           /\ \A i \in 1..Len(a) : (a \o b)[i] = a[i]
           /\ \A i \in (Len(a) + 1)..(Len(a) + Len(b)) : (a \o b)[i] = b[i - Len(a)]
  OBVIOUS

\* The head leaves a list: uxListRemove of its first item.
LEMMA TailFacts ==
    ASSUME NEW s \in Seq(Task), Distinct(s), s # << >>
    PROVE  /\ Tail(s) \in Seq(Task) /\ Len(Tail(s)) = Len(s) - 1 /\ Distinct(Tail(s))
           /\ Head(s) = s[1] /\ 1 \in 1..Len(s)
           /\ \A i \in 1..Len(Tail(s)) : i + 1 \in 1..Len(s) /\ Tail(s)[i] = s[i + 1]
           /\ Members(Tail(s)) = Members(s) \ {Head(s)}
<1>1. /\ Tail(s) \in Seq(Task) /\ Len(Tail(s)) = Len(s) - 1 /\ Len(s) \in Nat /\ Len(s) > 0
      /\ Head(s) = s[1] /\ \A i \in 1..Len(Tail(s)) : Tail(s)[i] = s[i + 1]
    OBVIOUS
<1>2. Distinct(Tail(s))
    <2> SUFFICES ASSUME NEW i \in 1..Len(Tail(s)), NEW j \in 1..Len(Tail(s)), Tail(s)[i] = Tail(s)[j]
                 PROVE  i = j
        BY DEF Distinct
    <2>1. i + 1 \in 1..Len(s) /\ j + 1 \in 1..Len(s) /\ s[i + 1] = s[j + 1]
        BY <1>1
    <2>2. i + 1 = j + 1
        BY <2>1 DEF Distinct
    <2> QED BY <2>2
<1>3. ASSUME NEW t PROVE t \in Members(Tail(s)) <=> t \in Members(s) \ {Head(s)}
    <2>1. ASSUME NEW i \in 1..Len(Tail(s)), Tail(s)[i] = t PROVE t \in Members(s) \ {Head(s)}
        <3>1. i + 1 \in 1..Len(s) /\ s[i + 1] = t /\ i + 1 # 1
            BY <1>1, <2>1
        <3>2. s[1] # s[i + 1]
            BY <3>1, <1>1 DEF Distinct
        <3> QED BY <3>1, <3>2, <1>1, MemberAt
    <2>2. ASSUME NEW i \in 1..Len(s), s[i] = t, t # Head(s) PROVE t \in Members(Tail(s))
        <3>1. i - 1 \in 1..Len(Tail(s)) /\ Tail(s)[i - 1] = t
            BY <1>1, <2>2
        <3> QED BY <3>1, <1>1, MemberAt
    <2> QED BY <2>1, <2>2, <1>1, MemberAt, ZenonT(60)
<1> QED BY <1>1, <1>2, <1>3

\* uxListRemove of the item of t, if the list has one.
LEMMA RemovedFacts ==
    ASSUME NEW s \in Seq(Task), NEW t \in Task, Distinct(s)
    PROVE  /\ Removed(s, t) \in Seq(Task) /\ Distinct(Removed(s, t))
           /\ Members(Removed(s, t)) = Members(s) \ {t}
<1>1. CASE t \notin Members(s)
    BY <1>1 DEF Removed
<1>2. CASE t \in Members(s)
  <2> DEFINE p == CHOOSE i \in DOMAIN s : s[i] = t
             r == Removed(s, t)
  <2>1. p \in 1..Len(s) /\ s[p] = t /\ Len(s) \in Nat
      BY <1>2, MemberAt
  <2>2. r = SubSeq(s, 1, p - 1) \o SubSeq(s, p + 1, Len(s))
      BY <1>2 DEF Removed
  <2> HIDE DEF p, r
  <2>3. /\ r \in Seq(Task) /\ Len(r) = Len(s) - 1
        /\ \A i \in 1..Len(r) : r[i] = IF i < p THEN s[i] ELSE s[i + 1]
      <3>1. /\ SubSeq(s, 1, p - 1) \in Seq(Task) /\ Len(SubSeq(s, 1, p - 1)) = p - 1
            /\ \A i \in 1..(p - 1) : SubSeq(s, 1, p - 1)[i] = s[i]
          BY <2>1
      <3>2. /\ SubSeq(s, p + 1, Len(s)) \in Seq(Task) /\ Len(SubSeq(s, p + 1, Len(s))) = Len(s) - p
            /\ \A i \in 1..(Len(s) - p) : SubSeq(s, p + 1, Len(s))[i] = s[p + i]
          BY <2>1
      <3> DEFINE a == SubSeq(s, 1, p - 1)
                 b == SubSeq(s, p + 1, Len(s))
      <3> HIDE DEF a, b
      <3>3. /\ r \in Seq(Task) /\ Len(r) = (p - 1) + (Len(s) - p)
            /\ \A i \in 1..(p - 1) : r[i] = s[i]
            /\ \A i \in p..(Len(s) - 1) : r[i] = b[i - (p - 1)]
          <4>1. /\ a \in Seq(Task) /\ b \in Seq(Task) /\ Len(a) = p - 1 /\ Len(b) = Len(s) - p /\ r = a \o b
                /\ \A i \in 1..(p - 1) : a[i] = s[i]
              BY <2>2, <3>1, <3>2 DEF a, b
          <4>2. /\ r \in Seq(Task) /\ Len(r) = Len(a) + Len(b)
                /\ \A i \in 1..Len(a) : r[i] = a[i]
                /\ \A i \in (Len(a) + 1)..(Len(a) + Len(b)) : r[i] = b[i - Len(a)]
              <5> HIDE DEF a, b
              <5> QED BY <4>1, ConcatFacts
          <4>3. Len(a) + 1 = p /\ Len(a) + Len(b) = Len(s) - 1
              BY <4>1, <2>1
          <4> QED BY <4>1, <4>2, <4>3
      <3>4. \A i \in p..(Len(s) - 1) : b[i - (p - 1)] = s[i + 1]
          <4> TAKE i \in p..(Len(s) - 1)
          <4>1. i - (p - 1) \in 1..(Len(s) - p) /\ p + (i - (p - 1)) = i + 1
              BY <2>1
          <4> QED BY <4>1, <3>2 DEF b
      <3>5. Len(r) = Len(s) - 1 /\ \A i \in 1..Len(r) : i \in 1..(p - 1) \/ (i \in p..(Len(s) - 1) /\ ~(i < p))
          BY <2>1, <3>3
      <3>6. \A i \in 1..(p - 1) : i < p
          BY <2>1
      <3> QED BY <3>3, <3>4, <3>5, <3>6
  <2>4. Distinct(r)
      <3> SUFFICES ASSUME NEW i \in 1..Len(r), NEW j \in 1..Len(r), r[i] = r[j]
                   PROVE  i = j
          BY DEF Distinct
      <3>1. \A k \in 1..Len(r) : k \in 1..Len(s) /\ k + 1 \in 1..Len(s)
          BY <2>1, <2>3
      <3>2. \A k, l \in 1..Len(s) : s[k] = s[l] => k = l
          BY DEF Distinct
      <3>3. r[i] = IF i < p THEN s[i] ELSE s[i + 1]
          BY <2>3
      <3>4. r[j] = IF j < p THEN s[j] ELSE s[j + 1]
          BY <2>3
      <3>5. i \in Nat /\ j \in Nat /\ p \in Nat
          BY <2>1, <2>3
      <3>6. i \in 1..Len(s) /\ i + 1 \in 1..Len(s) /\ j \in 1..Len(s) /\ j + 1 \in 1..Len(s)
          BY <3>1
      <3>7. CASE i < p /\ j < p
          BY <3>2, <3>3, <3>4, <3>6, <3>7
      <3>8. CASE i < p /\ ~(j < p)
          <4>1. i = j + 1
              BY <3>2, <3>3, <3>4, <3>6, <3>8
          <4> QED BY <4>1, <3>5, <3>8
      <3>9. CASE ~(i < p) /\ j < p
          <4>1. i + 1 = j
              BY <3>2, <3>3, <3>4, <3>6, <3>9
          <4> QED BY <4>1, <3>5, <3>9
      <3>10. CASE ~(i < p) /\ ~(j < p)
          <4>1. i + 1 = j + 1
              BY <3>2, <3>3, <3>4, <3>6, <3>10
          <4> QED BY <4>1, <3>5
      <3> QED BY <3>7, <3>8, <3>9, <3>10
  <2>5. ASSUME NEW u PROVE u \in Members(r) <=> u \in Members(s) \ {t}
      <3>1. ASSUME NEW i \in 1..Len(r), r[i] = u PROVE u \in Members(s) \ {t}
          <4>1. \E k \in 1..Len(s) : s[k] = u /\ k # p
              BY <2>1, <2>3, <3>1
          <4> QED BY <4>1, <2>1, MemberAt DEF Distinct
      <3>2. ASSUME NEW k \in 1..Len(s), s[k] = u, u # t PROVE \E i \in 1..Len(r) : r[i] = u
          <4>1. CASE k < p
              BY <4>1, <3>2, <2>1, <2>3
          <4>2. CASE k > p
              <5>1. k - 1 \in 1..Len(r) /\ r[k - 1] = u
                  BY <4>2, <3>2, <2>1, <2>3
              <5> QED BY <5>1
          <4> QED BY <4>1, <4>2, <3>2, <2>1
      <3> QED BY <3>1, <3>2, <2>3, MemberAt
  <2> QED BY <2>3, <2>4, <2>5 DEF r
<1> QED BY <1>1, <1>2

\* vListInsert: the new item follows the leading ones whose priority is not lower.
LEMMA InsertedFacts ==
    ASSUME NEW s \in Seq(Task), NEW t \in Task, NEW prio \in [Task -> Nat]
    PROVE  /\ Inserted(s, t, prio) \in Seq(Task) /\ Len(Inserted(s, t, prio)) = Len(s) + 1
           /\ \E n \in 0..Len(s) :
                 /\ \A i \in 1..n : Inserted(s, t, prio)[i] = s[i] /\ prio[t] <= prio[s[i]]
                 /\ Inserted(s, t, prio)[n + 1] = t
                 /\ \A i \in (n + 2)..(Len(s) + 1) : Inserted(s, t, prio)[i] = s[i - 1]
                 /\ n < Len(s) => prio[s[n + 1]] < prio[t]
<1> DEFINE L == Leading(s, t, prio)
           n == CHOOSE i \in L : \A j \in L : j <= i
           r == Inserted(s, t, prio)
<1>1. Len(s) \in Nat /\ L \subseteq 0..Len(s) /\ 0 \in L
    BY DEF Leading
<1>2. \E i \in L : \A j \in L : j <= i
  <2> DEFINE T == {Len(s) - i : i \in L}
  <2>1. T \subseteq Nat /\ T # {}
      BY <1>1
  <2>2. PICK x \in T : \A y \in T : x <= y
      BY <2>1, LeastNatural
  <2>3. PICK i \in L : x = Len(s) - i
      BY <2>2
  <2>4. \A j \in L : Len(s) - i <= Len(s) - j
      BY <2>2, <2>3
  <2>5. \A j \in L : j <= i
      BY <2>4, <1>1
  <2> QED BY <2>5
<1>3. n \in L /\ \A j \in L : j <= n
    BY <1>2
<1>4. r = SubSeq(s, 1, n) \o <<t>> \o SubSeq(s, n + 1, Len(s))
    BY DEF Inserted
<1> HIDE DEF n, r
<1>5. n \in 0..Len(s) /\ \A i \in 1..n : prio[t] <= prio[s[i]]
    BY <1>1, <1>3 DEF Leading
<1>6. n < Len(s) => prio[s[n + 1]] < prio[t]
  <2> SUFFICES ASSUME n < Len(s), prio[t] <= prio[s[n + 1]] PROVE FALSE
      <3>1. n < Len(s) => s[n + 1] \in Task
          BY <1>1, <1>5
      <3> QED BY <3>1
  <2>1. n + 1 \in 0..Len(s) /\ \A i \in 1..(n + 1) : prio[t] <= prio[s[i]]
      BY <1>1, <1>5
  <2>2. n + 1 \in L
      BY <2>1 DEF Leading
  <2> QED BY <2>2, <1>3, <1>5
<1>7. /\ SubSeq(s, 1, n) \in Seq(Task) /\ Len(SubSeq(s, 1, n)) = n
      /\ \A i \in 1..n : SubSeq(s, 1, n)[i] = s[i]
    BY <1>1, <1>5
<1>8. /\ SubSeq(s, n + 1, Len(s)) \in Seq(Task) /\ Len(SubSeq(s, n + 1, Len(s))) = Len(s) - n
      /\ \A i \in 1..(Len(s) - n) : SubSeq(s, n + 1, Len(s))[i] = s[n + i]
    BY <1>1, <1>5
<1> DEFINE a == SubSeq(s, 1, n)
           b == SubSeq(s, n + 1, Len(s))
<1> HIDE DEF a, b
<1>9. /\ r \in Seq(Task) /\ Len(r) = Len(s) + 1
      /\ \A i \in 1..n : r[i] = s[i]
      /\ r[n + 1] = t
      /\ \A i \in (n + 2)..(Len(s) + 1) : r[i] = s[i - 1]
  <2>1. /\ a \in Seq(Task) /\ Len(a) = n /\ b \in Seq(Task) /\ Len(b) = Len(s) - n /\ r = a \o <<t>> \o b
        /\ (\A i \in 1..n : a[i] = s[i]) /\ \A i \in 1..(Len(s) - n) : b[i] = s[n + i]
      BY <1>4, <1>7, <1>8 DEF a, b
  <2> DEFINE c == a \o <<t>>
  <2>2. <<t>> \in Seq(Task) /\ Len(<<t>>) = 1 /\ <<t>>[1] = t
      OBVIOUS
  <2>3. /\ c \in Seq(Task) /\ Len(c) = n + 1 /\ c[n + 1] = t /\ r = c \o b
        /\ \A i \in 1..n : c[i] = s[i]
      <3>1. /\ c \in Seq(Task) /\ Len(c) = n + 1 /\ r = c \o b
            /\ \A i \in 1..n : c[i] = a[i]
          BY <2>1, <2>2, <1>5, ConcatFacts
      <3>2. n + 1 \in (Len(a) + 1)..(Len(a) + Len(<<t>>)) /\ (n + 1) - Len(a) = 1
          BY <2>1, <2>2, <1>5
      <3>3. c[n + 1] = <<t>>[1]
          BY <2>1, <2>2, <3>2, ConcatFacts
      <3> QED BY <3>1, <3>3, <2>1, <2>2
  <2> HIDE DEF c
  <2>4. /\ r \in Seq(Task) /\ Len(r) = Len(s) + 1
        /\ \A i \in 1..(n + 1) : r[i] = c[i]
        /\ \A i \in (n + 2)..(Len(s) + 1) : r[i] = b[i - (n + 1)]
      <3>1. /\ r \in Seq(Task) /\ Len(r) = Len(c) + Len(b)
            /\ \A i \in 1..Len(c) : r[i] = c[i]
            /\ \A i \in (Len(c) + 1)..(Len(c) + Len(b)) : r[i] = b[i - Len(c)]
          <4>1. c \in Seq(Task) /\ b \in Seq(Task) /\ r = c \o b
              BY <2>1, <2>3
          <4> QED BY <4>1, ConcatFacts
      <3>2. Len(c) = n + 1 /\ Len(c) + 1 = n + 2 /\ Len(c) + Len(b) = Len(s) + 1
          BY <2>1, <2>3, <1>1, <1>5
      <3> QED BY <3>1, <3>2
  <2>5. \A i \in (n + 2)..(Len(s) + 1) : b[i - (n + 1)] = s[i - 1]
      <3> TAKE i \in (n + 2)..(Len(s) + 1)
      <3>1. i - (n + 1) \in 1..(Len(s) - n) /\ n + (i - (n + 1)) = i - 1
          BY <1>1, <1>5
      <3> QED BY <3>1, <2>1
  <2>6. n + 1 \in 1..(n + 1) /\ \A i \in 1..n : i \in 1..(n + 1)
      BY <1>1, <1>5
  <2> QED BY <2>3, <2>4, <2>5, <2>6
<1> QED BY <1>5, <1>6, <1>9 DEF r

\* A new item joins the others.
LEMMA InsertedMembers ==
    ASSUME NEW s \in Seq(Task), NEW t \in Task, NEW prio \in [Task -> Nat],
           Distinct(s), t \notin Members(s)
    PROVE  Distinct(Inserted(s, t, prio)) /\ Members(Inserted(s, t, prio)) = Members(s) \cup {t}
<1> DEFINE r == Inserted(s, t, prio)
<1>1. r \in Seq(Task) /\ Len(r) = Len(s) + 1 /\ Len(s) \in Nat
    BY InsertedFacts
<1>2. PICK n \in 0..Len(s) :
         /\ \A i \in 1..n : r[i] = s[i] /\ prio[t] <= prio[s[i]]
         /\ r[n + 1] = t
         /\ \A i \in (n + 2)..(Len(s) + 1) : r[i] = s[i - 1]
         /\ n < Len(s) => prio[s[n + 1]] < prio[t]
    BY InsertedFacts
<1> HIDE DEF r
<1>3. \A i \in 1..Len(s) : s[i] # t
    BY MemberAt
<1>4. \A i \in 1..Len(r) : /\ i <= n => i \in 1..Len(s) /\ r[i] = s[i]
                           /\ i = n + 1 => r[i] = t
                           /\ i > n + 1 => i - 1 \in 1..Len(s) /\ r[i] = s[i - 1]
  <2> TAKE i \in 1..Len(r)
  <2>1. /\ i <= n => i \in 1..n /\ i \in 1..Len(s)
        /\ i > n + 1 => i \in (n + 2)..(Len(s) + 1) /\ i - 1 \in 1..Len(s)
      BY <1>1
  <2> QED BY <1>2, <2>1
<1>5. Distinct(r)
  <2> SUFFICES ASSUME NEW i \in 1..Len(r), NEW j \in 1..Len(r), r[i] = r[j]
               PROVE  i = j
      BY DEF Distinct
  <2>1. \A k, l \in 1..Len(s) : s[k] = s[l] => k = l
      BY DEF Distinct
  <2>2. n \in Nat /\ i \in Nat /\ j \in Nat
      BY <1>1
  <2>3. /\ i <= n => i \in 1..Len(s) /\ r[i] = s[i]
        /\ i = n + 1 => r[i] = t
        /\ i > n + 1 => i - 1 \in 1..Len(s) /\ r[i] = s[i - 1]
      BY <1>4
  <2>4. /\ j <= n => j \in 1..Len(s) /\ r[j] = s[j]
        /\ j = n + 1 => r[j] = t
        /\ j > n + 1 => j - 1 \in 1..Len(s) /\ r[j] = s[j - 1]
      BY <1>4
  <2> QED BY <1>3, <2>1, <2>2, <2>3, <2>4, SMTT(60)
<1>6. ASSUME NEW u PROVE u \in Members(r) <=> u \in Members(s) \cup {t}
  <2>1. ASSUME NEW i \in 1..Len(r), r[i] = u PROVE u \in Members(s) \cup {t}
      <3>1. u = t \/ \E k \in 1..Len(s) : s[k] = u
          <4>1. i \in Nat /\ n \in Nat
              BY <1>1
          <4>2. /\ i <= n => i \in 1..Len(s) /\ r[i] = s[i]
                /\ i = n + 1 => r[i] = t
                /\ i > n + 1 => i - 1 \in 1..Len(s) /\ r[i] = s[i - 1]
              BY <1>4
          <4> QED BY <2>1, <4>1, <4>2
      <3> QED BY <3>1, MemberAt
  <2>2. ASSUME NEW k \in 1..Len(s), s[k] = u PROVE \E i \in 1..Len(r) : r[i] = u
      <3>1. CASE k <= n
          <4>1. k \in 1..Len(r) /\ r[k] = u
              BY <3>1, <2>2, <1>1, <1>2
          <4> QED BY <4>1
      <3>2. CASE k > n
          <4>1. k + 1 \in 1..Len(r) /\ r[k + 1] = u
              <5>1. k + 1 \in (n + 2)..(Len(s) + 1) /\ (k + 1) - 1 = k
                  BY <3>2, <1>1
              <5>2. r[k + 1] = s[(k + 1) - 1]
                  BY <5>1, <1>2
              <5>3. k + 1 \in 1..Len(r)
                  BY <1>1
              <5> QED BY <5>1, <5>2, <5>3, <2>2
          <4> QED BY <4>1
      <3> QED BY <3>1, <3>2, <1>1
  <2>3. n + 1 \in 1..Len(r) /\ r[n + 1] = t
      BY <1>1, <1>2
  <2> QED BY <2>1, <2>2, <2>3, <1>1, MemberAt
<1> QED BY <1>5, <1>6 DEF r

-----------------------------------------------------------------------------
(* Every step keeps IInv.                                                  *)

USE DEF At, Goto, object, tcb, call, PC, Wait

\* Who is in a list is in a take of its mutex.
LEMMA ListedTask ==
    ASSUME TypeOK, ListPart, NEW m \in Mutex, NEW t \in Members(xTasksWaitingToReceive[m])
    PROVE  /\ t \in Task /\ InList(t)
           /\ mutex[t] = m /\ pc[t] = "take" /\ xTicksToWait[t] \notin {"zero", "over"}
<1>1. xTasksWaitingToReceive[m] \in Seq(Task)
    BY DEF TypeOK
<1>2. PICK i \in 1..Len(xTasksWaitingToReceive[m]) : xTasksWaitingToReceive[m][i] = t
    BY <1>1, MemberAt
<1> QED BY <1>1, <1>2 DEF ListPart, InList

\* Who is in no list is at no position of one.
LEMMA UnlistedTask ==
    ASSUME TypeOK, NEW t \in Task, ~InList(t), NEW m \in Mutex
    PROVE  \A i \in 1..Len(xTasksWaitingToReceive[m]) : xTasksWaitingToReceive[m][i] # t
<1>1. xTasksWaitingToReceive[m] \in Seq(Task)
    BY DEF TypeOK
<1> QED BY <1>1, MemberAt DEF InList

\* The running task is in no list, and not asleep.
LEMMA RunningTask ==
    ASSUME ListPart, NEW t \in Task, pxCurrentTCB = t
    PROVE  ~InList(t) /\ pc[t] # "asleep"
  BY MutexAssumption DEF ListPart, Ready

\* A context switch picks a ready task, or the idle task.
LEMMA SwitchPicks == vTaskSwitchContext => pxCurrentTCB' \in Ready' \cup {Idle}
  BY DEF vTaskSwitchContext, Highest

\* The program starts with free mutexes and sleeping tasks.
LEMMA InitIInv == Init => IInv
<1> SUFFICES ASSUME Init PROVE IInv
    OBVIOUS
<1>1. TypeOK
    BY MutexAssumption DEF Init, TypeOK
<1>2. ListPart
    BY DEF Init, ListPart
<1>3. CallPart
    BY DEF Init, CallPart
<1>4. Exclusive
    <2>1. \A t \in Task : owned[t] = {m \in Mutex : xMutexHolder[m] = t}
        BY MutexAssumption DEF Init
    <2>2. \A t \in Task : uxMutexesHeld[t] = Cardinality(owned[t])
        BY FS_EmptySet DEF Init
    <2> QED BY <2>1, <2>2 DEF Init, Exclusive
<1>5. PriorityRestored
    BY MutexAssumption DEF Init, PriorityRestored
<1>6. WokenPart
    BY DEF Init, WokenPart
<1> QED BY <1>1, <1>2, <1>3, <1>4, <1>5, <1>6 DEF IInv

\* A step in which the running task goes on with its call and nothing else changes.
LEMMA QuietKeeps ==
    ASSUME IInv, NEW t \in Task, pxCurrentTCB = t,
           UNCHANGED <<object, tcb, pxCurrentTCB, owned>>,
           pc' \in [Task -> PC], mutex' \in [Task -> Mutex \cup {NULL}],
           xTicksToWait' \in [Task -> Wait \cup {"over"}], xInheritanceOccurred' \in [Task -> BOOLEAN],
           \A u \in Task \ {t} :
              pc'[u] = pc[u] /\ mutex'[u] = mutex[u] /\ xTicksToWait'[u] = xTicksToWait[u],
           pc'[t] # "asleep",
           pc'[t] = "run" => mutex'[t] = NULL,
           pc'[t] \in {"take", "block", "expired", "lower"} => mutex'[t] \in Mutex,
           mutex'[t] \in Mutex => handle[mutex'[t]],
           pc'[t] = "block" => xTicksToWait'[t] # "zero",
           pc'[t] \in {"expired", "lower"} => xTicksToWait'[t] = "zero",
           pc[t] \in {"take", "block", "expired"} /\ uxMessagesWaiting[mutex[t]] = 1 =>
              mutex'[t] = mutex[t] /\ pc'[t] \in {"take", "block", "expired"}
    PROVE  IInv'
<1> USE DEF IInv
<1>1. ~InList(t) /\ pc[t] # "asleep"
    BY RunningTask
<1>2. TypeOK'
    BY DEF TypeOK
<1>3. \A u \in Task : InList(u)' <=> InList(u)
    BY DEF InList
<1>4. ListPart'
    <2>1. ASSUME NEW n \in Mutex, NEW i \in 1..Len(xTasksWaitingToReceive[n])
          PROVE  LET u == xTasksWaitingToReceive[n][i]
                 IN mutex'[u] = n /\ pc'[u] = "take" /\ xTicksToWait'[u] \notin {"zero", "over"}
        <3>1. xTasksWaitingToReceive[n] \in Seq(Task)
            BY DEF TypeOK
        <3>2. xTasksWaitingToReceive[n][i] \in Task /\ xTasksWaitingToReceive[n][i] # t
            BY <1>1, <3>1, UnlistedTask
        <3> QED BY <3>2 DEF ListPart, TypeOK
    <2>2. pxCurrentTCB' \in Ready'
        BY <1>1, <1>3 DEF Ready, TypeOK
    <2> QED BY <2>1, <2>2 DEF ListPart
<1>5. CallPart'
    <2>1. ASSUME NEW u \in Task
          PROVE  /\ pc'[u] \in {"run", "asleep"} => mutex'[u] = NULL
                 /\ pc'[u] \in {"take", "block", "expired", "lower"} => mutex'[u] # NULL
                 /\ pc'[u] = "block" => xTicksToWait'[u] # "zero"
                 /\ pc'[u] \in {"expired", "lower"} => xTicksToWait'[u] = "zero"
        <3>1. CASE u = t
            BY <3>1, MutexAssumption
        <3>2. CASE u # t
            <4>1. pc'[u] = pc[u] /\ mutex'[u] = mutex[u] /\ xTicksToWait'[u] = xTicksToWait[u]
                BY <3>2
            <4> QED BY <4>1 DEF CallPart
        <3> QED BY <3>1, <3>2
    <2>2. ASSUME NEW n \in Mutex, ~handle[n], NEW u \in Task PROVE mutex'[u] # n
        BY <2>2 DEF CallPart
    <2> QED BY <2>1, <2>2 DEF CallPart
<1>6. Exclusive' /\ PriorityRestored'
    BY DEF Exclusive, PriorityRestored
<1>7. WokenPart'
    <2> SUFFICES ASSUME NEW n \in Mutex, uxMessagesWaiting[n] = 1, xTasksWaitingToReceive[n] # << >>
                 PROVE  \E u \in Task : mutex'[u] = n /\ ~InList(u)' /\ pc'[u] \in {"take", "block", "expired"}
        BY DEF WokenPart
    <2>1. PICK u \in Task : mutex[u] = n /\ ~InList(u) /\ pc[u] \in {"take", "block", "expired"}
        BY DEF WokenPart
    <2>2. CASE u # t
        BY <2>1, <2>2, <1>3 DEF TypeOK
    <2>3. CASE u = t
        BY <2>1, <2>3, <1>3 DEF TypeOK
    <2> QED BY <2>2, <2>3
<1> QED BY <1>2, <1>4, <1>5, <1>6, <1>7

\* The steps of a take that change nothing but where its task is.
LEMMA TakeQuietKeeps ==
    ASSUME IInv, NEW t \in Task,
           \/ TakeFail(t) \/ TakeWait(t) \/ BlockRetry(t) \/ BlockExpired(t)
           \/ ExpiredRetry(t) \/ ExpiredFail(t) \/ ExpiredLower(t)
    PROVE  IInv'
<1> DEFINE m == mutex[t]
<1>1. TypeOK /\ CallPart
    BY DEF IInv
<1>2. pxCurrentTCB = t /\ UNCHANGED <<object, tcb, pxCurrentTCB, owned>>
    BY DEF TakeFail, TakeWait, BlockRetry, BlockExpired, ExpiredRetry, ExpiredFail, ExpiredLower
<1>3. pc[t] \in {"take", "block", "expired"} /\ m \in Mutex /\ handle[m] /\ uxMessagesWaiting[m] \in 0..1
    BY <1>1 DEF TakeFail, TakeWait, BlockRetry, BlockExpired, ExpiredRetry, ExpiredFail, ExpiredLower,
                CallPart, TypeOK
<1>4. /\ pc' \in [Task -> PC] /\ mutex' \in [Task -> Mutex \cup {NULL}]
      /\ xTicksToWait' \in [Task -> Wait \cup {"over"}] /\ xInheritanceOccurred' \in [Task -> BOOLEAN]
      /\ \A u \in Task \ {t} :
            pc'[u] = pc[u] /\ mutex'[u] = mutex[u] /\ xTicksToWait'[u] = xTicksToWait[u]
    BY <1>1 DEF TakeFail, TakeWait, BlockRetry, BlockExpired, ExpiredRetry, ExpiredFail, ExpiredLower,
                Return, TypeOK
<1>5. \/ pc'[t] = "run" /\ mutex'[t] = NULL /\ uxMessagesWaiting[m] = 0
      \/ pc'[t] = "lower" /\ mutex'[t] = m /\ uxMessagesWaiting[m] = 0 /\ xTicksToWait'[t] = "zero"
      \/ /\ pc'[t] \in {"take", "block", "expired"} /\ mutex'[t] = m
         /\ pc'[t] = "block" => xTicksToWait'[t] # "zero"
         /\ pc'[t] = "expired" => xTicksToWait'[t] = "zero"
    BY <1>1 DEF TakeFail, TakeWait, BlockRetry, BlockExpired, ExpiredRetry, ExpiredFail, ExpiredLower,
                Return, TypeOK, CallPart
<1> QED BY <1>2, <1>3, <1>4, <1>5, MutexAssumption, QuietKeeps

\* The call of a lock.
LEMMA LockKeeps ==
    ASSUME IInv, NEW t \in Task, NEW m \in Mutex, NEW w \in Wait, pthread_mutex_lock(t, m, w)
    PROVE  IInv'
<1>1. /\ pxCurrentTCB = t /\ pc[t] = "run" /\ handle[m]
      /\ UNCHANGED <<object, tcb, pxCurrentTCB, owned>>
    BY DEF pthread_mutex_lock
<1>2. /\ pc' \in [Task -> PC] /\ mutex' \in [Task -> Mutex \cup {NULL}]
      /\ xTicksToWait' \in [Task -> Wait \cup {"over"}] /\ xInheritanceOccurred' \in [Task -> BOOLEAN]
      /\ pc'[t] = "take" /\ mutex'[t] = m
      /\ \A u \in Task \ {t} :
            pc'[u] = pc[u] /\ mutex'[u] = mutex[u] /\ xTicksToWait'[u] = xTicksToWait[u]
    BY DEF IInv, TypeOK, pthread_mutex_lock
<1> QED BY <1>1, <1>2, QuietKeeps

\* A failed assertion.
LEMMA HaltKeeps ==
    ASSUME IInv, NEW t \in Task, Halt(t)
    PROVE  IInv'
<1>1. /\ pxCurrentTCB = t /\ pc[t] \in {"run", "lower"}
      /\ UNCHANGED <<object, tcb, pxCurrentTCB, owned>>
    BY DEF Halt
<1>2. /\ pc' \in [Task -> PC] /\ mutex' \in [Task -> Mutex \cup {NULL}]
      /\ xTicksToWait' \in [Task -> Wait \cup {"over"}] /\ xInheritanceOccurred' \in [Task -> BOOLEAN]
      /\ pc'[t] = "halt" /\ mutex'[t] = mutex[t]
      /\ \A u \in Task \ {t} :
            pc'[u] = pc[u] /\ mutex'[u] = mutex[u] /\ xTicksToWait'[u] = xTicksToWait[u]
    BY DEF IInv, TypeOK, Halt
<1>3. mutex[t] \in Mutex => handle[mutex[t]]
    BY DEF IInv, CallPart
<1> QED BY <1>1, <1>2, <1>3, QuietKeeps

\* A step after which the scheduler may have picked another task.
LEMMA SwitchIfPicks ==
    ASSUME NEW required \in BOOLEAN, SwitchIf(required), pxCurrentTCB \in Ready' \cup {Idle}
    PROVE  pxCurrentTCB' \in Ready' \cup {Idle}
  BY SwitchPicks DEF SwitchIf

\* A delay starts or ends, or the tick shares the processor: only where tasks
\* are, and who runs, changes.
LEMMA ScheduleKeeps ==
    ASSUME IInv, NEW t \in Task, Sleep(t) \/ Wake(t) \/ TimeSlice
    PROVE  IInv'
<1> USE DEF IInv
<1>1. UNCHANGED <<object, tcb, call, owned>>
    BY DEF Sleep, Wake, TimeSlice
<1>2. \A u \in Task : \/ pc'[u] = pc[u]
                      \/ pc[u] \in {"run", "asleep"} /\ pc'[u] \in {"run", "asleep"}
    BY DEF Sleep, Wake, TimeSlice, TypeOK
<1>3. \A u \in Task : InList(u)' <=> InList(u)
    BY <1>1 DEF InList
<1>4. pxCurrentTCB' \in Ready' \cup {Idle}
    <2>1. CASE Sleep(t)
        BY <2>1, SwitchPicks DEF Sleep
    <2>2. CASE TimeSlice
        BY <2>2, SwitchPicks DEF TimeSlice
    <2>3. CASE Wake(t)
        <3>1. pxCurrentTCB \in Ready' \cup {Idle}
            BY <2>3, <1>3 DEF Wake, ListPart, Ready, TypeOK
        <3> QED BY <2>3, <3>1, SwitchPicks DEF Wake, SwitchIf
    <2> QED BY <2>1, <2>2, <2>3
<1>5. TypeOK'
    <2>1. pc' \in [Task -> PC]
        BY DEF Sleep, Wake, TimeSlice, TypeOK
    <2>2. pxCurrentTCB' \in Task \cup {Idle}
        BY <1>4 DEF Ready
    <2> QED BY <1>1, <2>1, <2>2 DEF TypeOK
<1>6. ListPart'
    <2>1. ASSUME NEW n \in Mutex, NEW i \in 1..Len(xTasksWaitingToReceive[n])
          PROVE  pc'[xTasksWaitingToReceive[n][i]] = "take"
        <3>1. xTasksWaitingToReceive[n] \in Seq(Task)
            BY DEF TypeOK
        <3>2. xTasksWaitingToReceive[n][i] \in Task /\ pc[xTasksWaitingToReceive[n][i]] = "take"
            BY <3>1 DEF ListPart
        <3> QED BY <3>2, <1>2
    <2> QED BY <1>1, <1>4, <2>1 DEF ListPart
<1>7. CallPart'
    BY <1>1, <1>2 DEF CallPart
<1>8. Exclusive' /\ PriorityRestored'
    BY <1>1 DEF Exclusive, PriorityRestored
<1>9. WokenPart'
    BY <1>1, <1>2, <1>3 DEF WokenPart
<1> QED BY <1>5, <1>6, <1>7, <1>8, <1>9

\* The mutex is free and becomes the caller's.
LEMMA TakeFreeKeeps ==
    ASSUME IInv, NEW t \in Task, TakeFree(t)
    PROVE  IInv'
<1> USE DEF IInv
<1> DEFINE m == mutex[t]
<1>1. m \in Mutex /\ uxMessagesWaiting[m] = 1 /\ xMutexHolder[m] = NULL /\ handle[m] /\ m \notin owned[t]
    BY MutexAssumption DEF TakeFree, CallPart, TypeOK, Exclusive
<1>2. ~InList(t) /\ (\A u \in Task : InList(u)' <=> InList(u))
    BY RunningTask DEF TakeFree, InList
<1>3. TypeOK'
    BY <1>1, MutexAssumption DEF TakeFree, Return, TypeOK
<1>4. ListPart'
    <2>1. ASSUME NEW n \in Mutex, NEW i \in 1..Len(xTasksWaitingToReceive[n])
          PROVE  LET u == xTasksWaitingToReceive[n][i]
                 IN mutex'[u] = n /\ pc'[u] = "take" /\ xTicksToWait'[u] \notin {"zero", "over"}
        <3>1. xTasksWaitingToReceive[n] \in Seq(Task)
            BY DEF TypeOK
        <3>2. xTasksWaitingToReceive[n][i] \in Task /\ xTasksWaitingToReceive[n][i] # t
            BY <1>2, <3>1, UnlistedTask
        <3>3. \A u \in Task \ {t} :
                 pc'[u] = pc[u] /\ mutex'[u] = mutex[u] /\ xTicksToWait'[u] = xTicksToWait[u]
            BY DEF TypeOK, TakeFree, Return
        <3> QED BY <3>2, <3>3 DEF ListPart
    <2>2. pxCurrentTCB' \in Ready'
        BY <1>2 DEF Ready, TypeOK, TakeFree, Return
    <2> QED BY <2>1, <2>2 DEF ListPart, TakeFree
<1>5. CallPart'
    BY <1>1, MutexAssumption DEF CallPart, TypeOK, TakeFree, Return
<1>6. Exclusive'
    <2>1. \A u \in Task : owned'[u] = {n \in Mutex : xMutexHolder'[n] = u}
        BY <1>1, MutexAssumption DEF Exclusive, TypeOK, TakeFree
    <2>2. uxMutexesHeld'[t] = Cardinality(owned'[t])
        <3>1. IsFiniteSet(owned[t])
            BY MutexAssumption, FS_Subset DEF TypeOK
        <3>2. Cardinality(owned[t] \cup {m}) = Cardinality(owned[t]) + 1
            BY <3>1, <1>1, FS_AddElement
        <3> QED BY <3>2 DEF Exclusive, TypeOK, TakeFree
    <2>3. \A u \in Task : uxMutexesHeld'[u] = Cardinality(owned'[u])
        BY <2>2 DEF Exclusive, TypeOK, TakeFree
    <2>4. \A n \in Mutex : uxMessagesWaiting'[n] = 0 <=> xMutexHolder'[n] # NULL
        BY <1>1, MutexAssumption DEF Exclusive, TypeOK, TakeFree
    <2> QED BY <2>1, <2>3, <2>4 DEF Exclusive
<1>7. PriorityRestored'
    BY DEF PriorityRestored, TypeOK, TakeFree
<1>8. WokenPart'
    <2> SUFFICES ASSUME NEW n \in Mutex, uxMessagesWaiting'[n] = 1, xTasksWaitingToReceive[n] # << >>
                 PROVE  \E u \in Task : mutex'[u] = n /\ ~InList(u)' /\ pc'[u] \in {"take", "block", "expired"}
        BY DEF WokenPart, TakeFree
    <2>1. n # m /\ uxMessagesWaiting[n] = 1
        BY <1>1 DEF TakeFree, TypeOK
    <2>2. PICK u \in Task : mutex[u] = n /\ ~InList(u) /\ pc[u] \in {"take", "block", "expired"}
        BY <2>1 DEF WokenPart
    <2> QED BY <2>1, <2>2, <1>2 DEF TypeOK, TakeFree, Return
<1> QED BY <1>3, <1>4, <1>5, <1>6, <1>7, <1>8

\* The holder of a mutex counts it.
LEMMA HolderHolds ==
    ASSUME TypeOK, Exclusive, NEW m \in Mutex, xMutexHolder[m] # NULL
    PROVE  /\ xMutexHolder[m] \in Task /\ m \in owned[xMutexHolder[m]]
           /\ uxMutexesHeld[xMutexHolder[m]] # 0
<1> DEFINE h == xMutexHolder[m]
<1>1. h \in Task /\ m \in owned[h] /\ owned[h] \subseteq Mutex
    BY DEF TypeOK, Exclusive
<1>2. IsFiniteSet(owned[h])
    BY <1>1, MutexAssumption, FS_Subset
<1>3. Cardinality(owned[h]) # 0
    BY <1>1, <1>2, FS_EmptySet
<1> QED BY <1>1, <1>3 DEF Exclusive

\* xTaskPriorityInherit raises the priority of a task that holds a mutex.
LEMMA InheritKeeps ==
    ASSUME IInv, NEW t \in Task, NEW m \in Mutex, xTaskPriorityInherit(xMutexHolder[m], t)
    PROVE  /\ uxPriority' \in [Task -> Nat] /\ xInheritanceOccurred' \in [Task -> BOOLEAN]
           /\ \A u \in Task : /\ uxPriority'[u] >= uxBasePriority[u]
                              /\ uxMutexesHeld[u] = 0 => uxPriority'[u] = uxBasePriority[u]
<1> USE DEF IInv
<1>1. uxPriority \in [Task -> Nat] /\ uxBasePriority \in [Task -> Nat]
    BY MutexAssumption DEF TypeOK
<1>2. xMutexHolder[m] # NULL => xMutexHolder[m] \in Task /\ uxMutexesHeld[xMutexHolder[m]] # 0
    BY HolderHolds
<1>3. xInheritanceOccurred' \in [Task -> BOOLEAN]
    BY DEF xTaskPriorityInherit, TypeOK
<1>4. uxPriority' \in [Task -> Nat]
    BY <1>1, <1>2 DEF xTaskPriorityInherit
<1>5. ASSUME NEW u \in Task
      PROVE  /\ uxPriority'[u] >= uxBasePriority[u]
             /\ uxMutexesHeld[u] = 0 => uxPriority'[u] = uxBasePriority[u]
    <2>1. /\ uxPriority[u] >= uxBasePriority[u]
          /\ uxMutexesHeld[u] = 0 => uxPriority[u] = uxBasePriority[u]
        BY DEF PriorityRestored
    <2>2. \/ uxPriority'[u] = uxPriority[u]
          \/ uxMutexesHeld[u] # 0 /\ uxPriority[u] < uxPriority[t] /\ uxPriority'[u] = uxPriority[t]
        BY <1>1, <1>2 DEF xTaskPriorityInherit
    <2> QED BY <1>1, <2>1, <2>2
<1> QED BY <1>3, <1>4, <1>5

\* The caller joins the event list.
LEMMA BlockKeeps ==
    ASSUME IInv, NEW t \in Task, Block(t)
    PROVE  IInv'
<1> USE DEF IInv
<1> DEFINE m == mutex[t]
           s == xTasksWaitingToReceive[m]
           r == Inserted(s, t, uxPriority')
<1>1. /\ m \in Mutex /\ uxMessagesWaiting[m] = 0 /\ handle[m] /\ pc[t] = "block"
      /\ xTicksToWait[t] # "over" /\ s \in Seq(Task) /\ Distinct(s)
    BY DEF Block, CallPart, TypeOK, ListPart, Distinct
<1>2. ~InList(t) /\ t \notin Members(s)
    BY <1>1, RunningTask DEF Block, InList
<1>5. /\ uxPriority' \in [Task -> Nat] /\ xInheritanceOccurred' \in [Task -> BOOLEAN]
      /\ PriorityRestored'
    <2>1. xTaskPriorityInherit(xMutexHolder[m], t) /\ uxMutexesHeld' = uxMutexesHeld
        BY DEF Block
    <2> QED BY <1>1, <2>1, InheritKeeps DEF PriorityRestored
<1>3. r \in Seq(Task) /\ Distinct(r) /\ Members(r) = Members(s) \cup {t}
    BY <1>1, <1>2, <1>5, InsertedFacts, InsertedMembers
<1>4. xTasksWaitingToReceive' = [xTasksWaitingToReceive EXCEPT ![m] = r]
    BY DEF Block
<1> HIDE DEF r
<1>6. \A u \in Task : InList(u)' <=> InList(u) \/ u = t
    <2>1. \A n \in Mutex : xTasksWaitingToReceive'[n] = IF n = m THEN r ELSE xTasksWaitingToReceive[n]
        BY <1>1, <1>4 DEF TypeOK
    <2>2. ASSUME NEW u \in Task PROVE InList(u)' <=> \E n \in Mutex : u \in Members(xTasksWaitingToReceive'[n])
        BY DEF InList, Members
    <2> QED BY <1>1, <1>3, <2>1, <2>2 DEF InList
<1>7. TypeOK'
    <2>1. xTasksWaitingToReceive' \in [Mutex -> Seq(Task)]
        BY <1>1, <1>3, <1>4 DEF TypeOK
    <2>2. pxCurrentTCB' \in Task \cup {Idle}
        BY SwitchPicks DEF Block, Ready
    <2> QED BY <1>5, <2>1, <2>2 DEF TypeOK, Block
<1>8. ListPart'
    <2>1. ASSUME NEW n \in Mutex, NEW i \in 1..Len(xTasksWaitingToReceive'[n])
          PROVE  LET u == xTasksWaitingToReceive'[n][i]
                 IN mutex'[u] = n /\ pc'[u] = "take" /\ xTicksToWait'[u] \notin {"zero", "over"}
        <3> DEFINE u == xTasksWaitingToReceive'[n][i]
        <3>1. xTasksWaitingToReceive'[n] \in Seq(Task)
            BY <1>7 DEF TypeOK
        <3>2. u \in Task /\ u \in Members(xTasksWaitingToReceive'[n])
            BY <3>1, MemberAt
        <3>3. (u = t /\ n = m) \/ u \in Members(xTasksWaitingToReceive[n])
            BY <3>2, <1>1, <1>3, <1>4 DEF TypeOK
        <3>4. CASE u = t /\ n = m
            BY <3>4, <1>1 DEF Block, TypeOK, CallPart
        <3>5. CASE u \in Members(xTasksWaitingToReceive[n])
            <4>1. mutex[u] = n /\ pc[u] = "take" /\ xTicksToWait[u] \notin {"zero", "over"}
                BY <3>5, ListedTask
            <4> QED BY <4>1, <3>2 DEF Block, TypeOK
        <3> QED BY <3>3, <3>4, <3>5
    <2>2. \A n \in Mutex : Distinct(xTasksWaitingToReceive'[n])
        BY <1>1, <1>3, <1>4 DEF ListPart, TypeOK, Distinct
    <2>3. pxCurrentTCB' \in Ready' \cup {Idle}
        BY SwitchPicks DEF Block
    <2> QED BY <2>1, <2>2, <2>3 DEF ListPart, Distinct
<1>9. CallPart'
    BY <1>1, MutexAssumption DEF CallPart, TypeOK, Block
<1>10. Exclusive'
    BY DEF Exclusive, Block
<1>11. WokenPart'
    <2> SUFFICES ASSUME NEW n \in Mutex, uxMessagesWaiting[n] = 1, xTasksWaitingToReceive'[n] # << >>
                 PROVE  \E u \in Task : mutex'[u] = n /\ ~InList(u)' /\ pc'[u] \in {"take", "block", "expired"}
        BY DEF WokenPart, Block
    <2>1. n # m /\ xTasksWaitingToReceive[n] # << >>
        BY <1>1, <1>4 DEF TypeOK
    <2>2. PICK u \in Task : mutex[u] = n /\ ~InList(u) /\ pc[u] \in {"take", "block", "expired"}
        BY <2>1 DEF WokenPart
    <2> QED BY <2>1, <2>2, <1>6 DEF TypeOK, Block
<1> QED BY <1>5, <1>7, <1>8, <1>9, <1>10, <1>11

\* A block time ends: the task leaves the event list, if it was in one.
LEMMA BlockTimeOverKeeps ==
    ASSUME IInv, NEW t \in Task, BlockTimeOver(t)
    PROVE  IInv'
<1> USE DEF IInv
<1>1. \A m \in Mutex : xTasksWaitingToReceive[m] \in Seq(Task) /\ Distinct(xTasksWaitingToReceive[m])
    BY DEF TypeOK, ListPart, Distinct
<1>2. \A m \in Mutex : xTasksWaitingToReceive'[m] = Removed(xTasksWaitingToReceive[m], t)
    BY DEF BlockTimeOver
<1>3. ASSUME NEW m \in Mutex
      PROVE  /\ xTasksWaitingToReceive'[m] \in Seq(Task) /\ Distinct(xTasksWaitingToReceive'[m])
             /\ Members(xTasksWaitingToReceive'[m]) = Members(xTasksWaitingToReceive[m]) \ {t}
    BY <1>1, <1>2, RemovedFacts
<1>4. \A u \in Task : InList(u)' <=> InList(u) /\ u # t
    <2>1. ASSUME NEW u \in Task PROVE InList(u)' <=> \E n \in Mutex : u \in Members(xTasksWaitingToReceive'[n])
        BY DEF InList, Members
    <2> QED BY <1>3, <2>1 DEF InList
<1>5. pxCurrentTCB' \in Ready' \cup {Idle}
    <2>1. pxCurrentTCB \in Ready' \cup {Idle}
        BY <1>4 DEF BlockTimeOver, ListPart, Ready
    <2> QED BY <2>1, SwitchPicks DEF BlockTimeOver, SwitchIf
<1>6. TypeOK'
    <2>1. xTasksWaitingToReceive' \in [Mutex -> Seq(Task)]
        BY <1>3 DEF BlockTimeOver
    <2>2. pxCurrentTCB' \in Task \cup {Idle}
        BY <1>5 DEF Ready
    <2> QED BY <2>1, <2>2 DEF TypeOK, BlockTimeOver
<1>7. ListPart'
    <2>1. ASSUME NEW n \in Mutex, NEW i \in 1..Len(xTasksWaitingToReceive'[n])
          PROVE  LET u == xTasksWaitingToReceive'[n][i]
                 IN mutex'[u] = n /\ pc'[u] = "take" /\ xTicksToWait'[u] \notin {"zero", "over"}
        <3> DEFINE u == xTasksWaitingToReceive'[n][i]
        <3>1. u \in Task /\ u \in Members(xTasksWaitingToReceive'[n])
            BY <1>3, MemberAt
        <3>2. u # t /\ u \in Members(xTasksWaitingToReceive[n])
            BY <3>1, <1>3
        <3>3. mutex[u] = n /\ pc[u] = "take" /\ xTicksToWait[u] \notin {"zero", "over"}
            BY <3>2, ListedTask
        <3> QED BY <3>1, <3>2, <3>3 DEF BlockTimeOver, TypeOK
    <2> QED BY <1>3, <1>5, <2>1 DEF ListPart, Distinct
<1>8. CallPart'
    BY DEF CallPart, TypeOK, BlockTimeOver
<1>9. Exclusive' /\ PriorityRestored'
    BY DEF Exclusive, PriorityRestored, BlockTimeOver
<1>10. WokenPart'
    <2> SUFFICES ASSUME NEW n \in Mutex, uxMessagesWaiting[n] = 1, xTasksWaitingToReceive'[n] # << >>
                 PROVE  \E u \in Task : mutex[u] = n /\ ~InList(u)' /\ pc[u] \in {"take", "block", "expired"}
        BY DEF WokenPart, BlockTimeOver
    <2>1. xTasksWaitingToReceive[n] # << >>
        <3>1. 1 \in 1..Len(xTasksWaitingToReceive'[n])
            BY <1>3
        <3>2. xTasksWaitingToReceive'[n][1] \in Members(xTasksWaitingToReceive[n])
            BY <3>1, <1>3, MemberAt
        <3> QED BY <3>2 DEF Members
    <2>2. PICK u \in Task : mutex[u] = n /\ ~InList(u) /\ pc[u] \in {"take", "block", "expired"}
        BY <2>1 DEF WokenPart
    <2> QED BY <2>2, <1>4
<1> QED BY <1>6, <1>7, <1>8, <1>9, <1>10

\* A take that has timed out lowers the holder's priority and fails.
LEMMA LowerKeeps ==
    ASSUME IInv, NEW t \in Task, vTaskPriorityDisinheritAfterTimeout(t)
    PROVE  IInv'
<1> USE DEF IInv
<1> DEFINE m == mutex[t]
           h == xMutexHolder[m]
<1>1. m \in Mutex /\ pc[t] = "lower" /\ ~LowerAsserts(h, t, m)
    BY DEF vTaskPriorityDisinheritAfterTimeout, CallPart, TypeOK
<1>2. uxPriority \in [Task -> Nat] /\ uxBasePriority \in [Task -> Nat]
    BY MutexAssumption DEF TypeOK
<1>3. \/ uxPriority' = uxPriority
      \/ /\ h \in Task /\ uxMutexesHeld[h] = 1
         /\ PriorityToUse(h, m) \in Nat /\ PriorityToUse(h, m) >= uxBasePriority[h]
         /\ uxPriority' = [uxPriority EXCEPT ![h] = PriorityToUse(h, m)]
    <2>1. CASE ~Lowers(h, m)
        BY <2>1 DEF vTaskPriorityDisinheritAfterTimeout
    <2>2. CASE Lowers(h, m)
        <3>1. h \in Task /\ uxMutexesHeld[h] = 1
            BY <2>2, <1>1 DEF Lowers, TypeOK
        <3>2. prvGetHighestPriorityOfWaitToReceiveList(m) \in Nat
            <4>1. xTasksWaitingToReceive[m] \in Seq(Task)
                BY <1>1 DEF TypeOK
            <4>2. xTasksWaitingToReceive[m] # << >> => Head(xTasksWaitingToReceive[m]) \in Task
                BY <4>1
            <4> QED BY <4>2, <1>2 DEF prvGetHighestPriorityOfWaitToReceiveList
        <3>3. PriorityToUse(h, m) \in Nat /\ PriorityToUse(h, m) >= uxBasePriority[h]
            BY <3>1, <3>2, <1>2 DEF PriorityToUse
        <3> QED BY <2>2, <3>1, <3>3 DEF vTaskPriorityDisinheritAfterTimeout
    <2> QED BY <2>1, <2>2
<1>4. ~InList(t) /\ (\A u \in Task : InList(u)' <=> InList(u))
    BY RunningTask DEF vTaskPriorityDisinheritAfterTimeout, InList
<1>5. \A u \in Task \ {t} : pc'[u] = pc[u] /\ mutex'[u] = mutex[u] /\ xTicksToWait'[u] = xTicksToWait[u]
    BY DEF TypeOK, vTaskPriorityDisinheritAfterTimeout, Return
<1>6. TypeOK'
    <2>1. uxPriority' \in [Task -> Nat]
        BY <1>2, <1>3
    <2> QED BY <2>1 DEF vTaskPriorityDisinheritAfterTimeout, Return, TypeOK
<1>7. ListPart'
    <2>1. ASSUME NEW n \in Mutex, NEW i \in 1..Len(xTasksWaitingToReceive[n])
          PROVE  LET u == xTasksWaitingToReceive[n][i]
                 IN mutex'[u] = n /\ pc'[u] = "take" /\ xTicksToWait'[u] \notin {"zero", "over"}
        <3>1. xTasksWaitingToReceive[n] \in Seq(Task)
            BY DEF TypeOK
        <3>2. xTasksWaitingToReceive[n][i] \in Task /\ xTasksWaitingToReceive[n][i] # t
            BY <1>4, <3>1, UnlistedTask
        <3> QED BY <3>2, <1>5 DEF ListPart
    <2>2. pxCurrentTCB' \in Ready'
        BY <1>4 DEF Ready, TypeOK, vTaskPriorityDisinheritAfterTimeout, Return
    <2> QED BY <2>1, <2>2 DEF ListPart, vTaskPriorityDisinheritAfterTimeout
<1>8. CallPart'
    BY <1>1, <1>5, MutexAssumption DEF CallPart, TypeOK, vTaskPriorityDisinheritAfterTimeout, Return
<1>9. Exclusive'
    BY DEF Exclusive, vTaskPriorityDisinheritAfterTimeout
<1>10. PriorityRestored'
    <2> SUFFICES ASSUME NEW u \in Task
                 PROVE  /\ uxPriority'[u] >= uxBasePriority[u]
                        /\ uxMutexesHeld[u] = 0 => uxPriority'[u] = uxBasePriority[u]
        BY DEF PriorityRestored, vTaskPriorityDisinheritAfterTimeout
    <2>1. /\ uxPriority[u] >= uxBasePriority[u]
          /\ uxMutexesHeld[u] = 0 => uxPriority[u] = uxBasePriority[u]
        BY DEF PriorityRestored
    <2> QED BY <1>2, <1>3, <2>1
<1>11. WokenPart'
    <2> SUFFICES ASSUME NEW n \in Mutex, uxMessagesWaiting[n] = 1, xTasksWaitingToReceive[n] # << >>
                 PROVE  \E u \in Task : mutex'[u] = n /\ ~InList(u)' /\ pc'[u] \in {"take", "block", "expired"}
        BY DEF WokenPart, vTaskPriorityDisinheritAfterTimeout
    <2>1. PICK u \in Task : mutex[u] = n /\ ~InList(u) /\ pc[u] \in {"take", "block", "expired"}
        BY DEF WokenPart
    <2>2. u # t
        BY <2>1, <1>1
    <2> QED BY <2>1, <2>2, <1>4, <1>5
<1> QED BY <1>6, <1>7, <1>8, <1>9, <1>10, <1>11

\* The lists after an unlock of m: the head of its event list has left it.
LEMMA UnlockLists ==
    ASSUME TypeOK, ListPart, NEW t \in Task, NEW m \in Mutex, pthread_mutex_unlock(t, m)
    PROVE  LET s == xTasksWaitingToReceive[m]
           IN  /\ xTasksWaitingToReceive' = [xTasksWaitingToReceive EXCEPT ![m] = IF s = << >> THEN s ELSE Tail(s)]
               /\ \A n \in Mutex : /\ xTasksWaitingToReceive'[n] \in Seq(Task)
                                   /\ Distinct(xTasksWaitingToReceive'[n])
                                   /\ Members(xTasksWaitingToReceive'[n]) \subseteq Members(xTasksWaitingToReceive[n])
               /\ s # << >> => /\ Head(s) \in Task /\ Head(s) # t /\ mutex[Head(s)] = m /\ pc[Head(s)] = "take"
                               /\ \A u \in Task : InList(u)' <=> InList(u) /\ u # Head(s)
               /\ s = << >> => \A u \in Task : InList(u)' <=> InList(u)
<1> DEFINE s == xTasksWaitingToReceive[m]
<1>1. \A n \in Mutex : xTasksWaitingToReceive[n] \in Seq(Task) /\ Distinct(xTasksWaitingToReceive[n])
    BY DEF TypeOK, ListPart, Distinct
<1>2. xTasksWaitingToReceive' = [xTasksWaitingToReceive EXCEPT ![m] = IF s = << >> THEN s ELSE Tail(s)]
    BY DEF pthread_mutex_unlock
<1>3. \A u \in Task : InList(u)' <=> \E n \in Mutex : u \in Members(xTasksWaitingToReceive'[n])
    BY DEF InList, Members
<1>4. CASE s = << >>
    <2>1. xTasksWaitingToReceive' = xTasksWaitingToReceive
        BY <1>2, <1>4 DEF TypeOK
    <2> QED BY <1>1, <1>2, <1>3, <1>4, <2>1 DEF InList
<1>5. CASE s # << >>
    <2>1. \A n \in Mutex : xTasksWaitingToReceive'[n] = IF n = m THEN Tail(s) ELSE xTasksWaitingToReceive[n]
        BY <1>2, <1>5 DEF TypeOK
    <2>2. /\ Tail(s) \in Seq(Task) /\ Distinct(Tail(s)) /\ Members(Tail(s)) = Members(s) \ {Head(s)}
          /\ Head(s) \in Members(s)
        BY <1>1, <1>5, TailFacts, MemberAt
    <2>3. Head(s) \in Task /\ InList(Head(s)) /\ mutex[Head(s)] = m /\ pc[Head(s)] = "take"
        BY <2>2, ListedTask
    <2>4. Head(s) # t
        BY <2>3 DEF pthread_mutex_unlock
    <2>5. \A n \in Mutex : n # m => Head(s) \notin Members(xTasksWaitingToReceive[n])
        BY <2>3, ListedTask
    <2>6. \A u \in Task : InList(u)' <=> InList(u) /\ u # Head(s)
        BY <1>3, <2>1, <2>2, <2>5 DEF InList
    <2> QED BY <1>1, <1>2, <1>5, <2>1, <2>2, <2>3, <2>4, <2>6
<1> QED BY <1>4, <1>5

\* A mutex goes back: its first waiting task becomes ready.
LEMMA UnlockKeeps ==
    ASSUME IInv, NEW t \in Task, NEW m \in Mutex, pthread_mutex_unlock(t, m)
    PROVE  IInv'
<1> USE DEF IInv
<1> DEFINE s == xTasksWaitingToReceive[m]
<1>0. m \in owned[t] /\ uxMutexesHeld[t] \in Nat /\ uxMutexesHeld[t] - 1 \in Nat
    BY DEF pthread_mutex_unlock, Exclusive, TypeOK
<1>1. /\ pxCurrentTCB = t /\ pc[t] = "run" /\ handle[m] /\ xMutexHolder[m] = t /\ uxMessagesWaiting[m] = 0
      /\ UNCHANGED <<handle, pc, call>>
      /\ xMutexHolder' = [xMutexHolder EXCEPT ![m] = NULL]
      /\ uxMessagesWaiting' = [uxMessagesWaiting EXCEPT ![m] = 1]
      /\ owned' = [owned EXCEPT ![t] = owned[t] \ {m}]
    BY DEF pthread_mutex_unlock, MayUnlock
<1>10. /\ uxMutexesHeld' = [uxMutexesHeld EXCEPT ![t] = uxMutexesHeld[t] - 1]
      /\ uxPriority' = IF Disinherits(t) THEN [uxPriority EXCEPT ![t] = uxBasePriority[t]] ELSE uxPriority
    BY DEF pthread_mutex_unlock, xTaskPriorityDisinherit
<1>2. /\ \A n \in Mutex : /\ xTasksWaitingToReceive'[n] \in Seq(Task)
                          /\ Distinct(xTasksWaitingToReceive'[n])
                          /\ Members(xTasksWaitingToReceive'[n]) \subseteq Members(xTasksWaitingToReceive[n])
      /\ \A n \in Mutex : n # m => xTasksWaitingToReceive'[n] = xTasksWaitingToReceive[n]
      /\ xTasksWaitingToReceive' \in [Mutex -> Seq(Task)]
      /\ s # << >> => \E u \in Task : mutex[u] = m /\ pc[u] = "take" /\ ~InList(u)'
      /\ s = << >> => xTasksWaitingToReceive'[m] = << >>
      /\ \A u \in Task : InList(u)' => InList(u)
    <2>1. /\ xTasksWaitingToReceive' = [xTasksWaitingToReceive EXCEPT ![m] = IF s = << >> THEN s ELSE Tail(s)]
          /\ \A n \in Mutex : /\ xTasksWaitingToReceive'[n] \in Seq(Task)
                              /\ Distinct(xTasksWaitingToReceive'[n])
                              /\ Members(xTasksWaitingToReceive'[n]) \subseteq Members(xTasksWaitingToReceive[n])
        BY UnlockLists
    <2>2. /\ s # << >> => /\ Head(s) \in Task /\ mutex[Head(s)] = m /\ pc[Head(s)] = "take"
                          /\ \A u \in Task : InList(u)' <=> InList(u) /\ u # Head(s)
          /\ s = << >> => \A u \in Task : InList(u)' <=> InList(u)
        BY UnlockLists
    <2>3. xTasksWaitingToReceive' \in [Mutex -> Seq(Task)]
        BY <2>1 DEF TypeOK
    <2>4. s = << >> => xTasksWaitingToReceive'[m] = << >>
        BY <2>1 DEF TypeOK
    <2>5. \A n \in Mutex : n # m => xTasksWaitingToReceive'[n] = xTasksWaitingToReceive[n]
        BY <2>1 DEF TypeOK
    <2> QED BY <2>1, <2>2, <2>3, <2>4, <2>5
<1>3. pxCurrentTCB' \in Ready' \cup {Idle}
    <2>1. pxCurrentTCB \in Ready' \cup {Idle}
        BY <1>1, <1>2 DEF ListPart, Ready
    <2> QED BY <2>1, SwitchPicks DEF pthread_mutex_unlock, SwitchIf
<1>4. TypeOK'
    <2>1. pxCurrentTCB' \in Task \cup {Idle}
        BY <1>3 DEF Ready
    <2>2. uxPriority' \in [Task -> Nat] /\ uxMutexesHeld' \in [Task -> Nat]
        BY <1>0, <1>10, MutexAssumption DEF TypeOK
    <2>3. /\ xMutexHolder' \in [Mutex -> Task \cup {NULL}] /\ uxMessagesWaiting' \in [Mutex -> 0..1]
          /\ owned' \in [Task -> SUBSET Mutex]
        BY <1>1 DEF TypeOK
    <2> QED BY <1>1, <1>2, <2>1, <2>2, <2>3 DEF TypeOK
<1>5. ListPart'
    <2>1. ASSUME NEW n \in Mutex, NEW i \in 1..Len(xTasksWaitingToReceive'[n])
          PROVE  LET u == xTasksWaitingToReceive'[n][i]
                 IN mutex'[u] = n /\ pc'[u] = "take" /\ xTicksToWait'[u] \notin {"zero", "over"}
        <3> DEFINE u == xTasksWaitingToReceive'[n][i]
        <3>1. u \in Members(xTasksWaitingToReceive[n])
            BY <1>2, MemberAt
        <3> QED BY <3>1, <1>1, ListedTask
    <2> QED BY <1>2, <1>3, <2>1 DEF ListPart, Distinct
<1>6. CallPart'
    <2>1. ASSUME NEW n \in Mutex, ~handle[n] PROVE xMutexHolder'[n] = NULL /\ \A u \in Task : mutex[u] # n
        BY <2>1, <1>1 DEF CallPart, TypeOK
    <2> QED BY <1>1, <2>1 DEF CallPart
<1>7. Exclusive'
    <2>1. \A u \in Task : owned'[u] = {n \in Mutex : xMutexHolder'[n] = u}
        BY <1>1, MutexAssumption DEF Exclusive, TypeOK
    <2>2. uxMutexesHeld'[t] = Cardinality(owned'[t])
        <3>1. IsFiniteSet(owned[t])
            BY MutexAssumption, FS_Subset DEF TypeOK
        <3>2. Cardinality(owned[t] \ {m}) = Cardinality(owned[t]) - 1
            BY <3>1, <1>0, FS_RemoveElement
        <3> QED BY <3>2, <1>1, <1>10 DEF Exclusive, TypeOK
    <2>3. \A u \in Task : uxMutexesHeld'[u] = Cardinality(owned'[u])
        BY <1>1, <1>10, <2>2 DEF Exclusive, TypeOK
    <2>4. \A n \in Mutex : uxMessagesWaiting'[n] = 0 <=> xMutexHolder'[n] # NULL
        BY <1>1, MutexAssumption DEF Exclusive, TypeOK
    <2> QED BY <2>1, <2>3, <2>4 DEF Exclusive
<1>8. PriorityRestored'
    <2> SUFFICES ASSUME NEW u \in Task
                 PROVE  /\ uxPriority'[u] >= uxBasePriority[u]
                        /\ uxMutexesHeld'[u] = 0 => uxPriority'[u] = uxBasePriority[u]
        BY DEF PriorityRestored
    <2>1. /\ uxPriority[u] >= uxBasePriority[u]
          /\ uxMutexesHeld[u] = 0 => uxPriority[u] = uxBasePriority[u]
        BY DEF PriorityRestored
    <2>2. uxPriority \in [Task -> Nat] /\ uxBasePriority \in [Task -> Nat] /\ uxMutexesHeld \in [Task -> Nat]
        BY MutexAssumption DEF TypeOK
    <2>3. CASE u # t
        BY <1>10, <2>1, <2>2, <2>3
    <2>4. CASE u = t
        BY <1>10, <2>1, <2>2, <2>4 DEF Disinherits
    <2> QED BY <2>3, <2>4
<1>9. WokenPart'
    <2> SUFFICES ASSUME NEW n \in Mutex, uxMessagesWaiting'[n] = 1, xTasksWaitingToReceive'[n] # << >>
                 PROVE  \E u \in Task : mutex[u] = n /\ ~InList(u)' /\ pc[u] \in {"take", "block", "expired"}
        BY <1>1 DEF WokenPart
    <2>1. CASE n = m
        <3>1. s # << >>
            BY <2>1, <1>2
        <3> QED BY <2>1, <3>1, <1>2
    <2>2. CASE n # m
        <3>1. uxMessagesWaiting[n] = 1 /\ xTasksWaitingToReceive[n] # << >>
            BY <2>2, <1>1, <1>2 DEF TypeOK
        <3>2. PICK u \in Task : mutex[u] = n /\ ~InList(u) /\ pc[u] \in {"take", "block", "expired"}
            BY <3>1 DEF WokenPart
        <3> QED BY <3>2, <1>2
    <2> QED BY <2>1, <2>2
<1> QED BY <1>4, <1>5, <1>6, <1>7, <1>8, <1>9

\* Nobody waits for a mutex that nobody uses.
LEMMA UnusedList ==
    ASSUME TypeOK, ListPart, NEW m \in Mutex, \A t \in Task : mutex[t] # m
    PROVE  xTasksWaitingToReceive[m] = << >>
<1>1. xTasksWaitingToReceive[m] \in Seq(Task)
    BY DEF TypeOK
<1>2. xTasksWaitingToReceive[m] # << >> => 1 \in 1..Len(xTasksWaitingToReceive[m])
    BY <1>1
<1>3. \A i \in 1..Len(xTasksWaitingToReceive[m]) : xTasksWaitingToReceive[m][i] \in Task
    BY <1>1
<1> QED BY <1>2, <1>3 DEF ListPart

\* A mutex is created or deleted.
LEMMA InitDestroyKeeps ==
    ASSUME IInv, NEW t \in Task, NEW m \in Mutex, pthread_mutex_init(t, m) \/ pthread_mutex_destroy(t, m)
    PROVE  IInv'
<1> USE DEF IInv
<1>1. /\ UNCHANGED <<xMutexHolder, xTasksWaitingToReceive, tcb, pxCurrentTCB, pc, call, owned>>
      /\ xMutexHolder[m] = NULL /\ \A u \in Task : mutex[u] # m
      /\ handle' \in [Mutex -> BOOLEAN] /\ \A n \in Mutex : n # m => handle'[n] = handle[n]
    BY DEF pthread_mutex_init, pthread_mutex_destroy, Unused, CallPart, TypeOK
<1>2. uxMessagesWaiting' = uxMessagesWaiting
    <2>1. uxMessagesWaiting[m] = 1
        BY <1>1 DEF Exclusive, TypeOK
    <2> QED BY <2>1 DEF pthread_mutex_init, pthread_mutex_destroy, TypeOK
<1>3. \A u \in Task : InList(u)' <=> InList(u)
    BY <1>1 DEF InList
<1>4. Ready' = Ready
    BY <1>1, <1>3 DEF Ready
<1>5. TypeOK' /\ ListPart' /\ CallPart' /\ Exclusive' /\ PriorityRestored'
    <2>1. TypeOK'
        BY <1>1, <1>2 DEF TypeOK
    <2>2. ListPart'
        BY <1>1, <1>4 DEF ListPart
    <2>3. CallPart'
        BY <1>1 DEF CallPart
    <2>4. Exclusive' /\ PriorityRestored'
        BY <1>1, <1>2 DEF Exclusive, PriorityRestored
    <2> QED BY <2>1, <2>2, <2>3, <2>4
<1>6. WokenPart'
    BY <1>1, <1>2, <1>3 DEF WokenPart
<1> QED BY <1>5, <1>6

\* All steps together.
LEMMA NextIInv == IInv /\ [Next]_vars => IInv'
<1> SUFFICES ASSUME IInv, [Next]_vars PROVE IInv'
    OBVIOUS
<1>1. CASE UNCHANGED vars
    <2>1. UNCHANGED <<object, tcb, pxCurrentTCB, pc, call, owned>>
        BY <1>1 DEF vars
    <2>2. \A u \in Task : InList(u)' <=> InList(u)
        BY <2>1 DEF InList
    <2>3. Ready' = Ready
        BY <2>1, <2>2 DEF Ready
    <2>4. TypeOK'
        BY <2>1 DEF IInv, TypeOK
    <2>5. ListPart' /\ CallPart'
        BY <2>1, <2>3 DEF IInv, ListPart, CallPart
    <2>6. Exclusive' /\ PriorityRestored'
        BY <2>1 DEF IInv, Exclusive, PriorityRestored
    <2>7. WokenPart'
        BY <2>1, <2>2 DEF IInv, WokenPart
    <2> QED BY <2>4, <2>5, <2>6, <2>7 DEF IInv
<1>2. CASE TimeSlice
    <2>1. \E t \in Task : TRUE
        BY <1>2 DEF TimeSlice, Shared, Ready
    <2> QED BY <1>2, <2>1, ScheduleKeeps
<1>3. ASSUME NEW t \in Task, Step(t) PROVE IInv'
    BY <1>3, TakeQuietKeeps, TakeFreeKeeps, BlockKeeps, LowerKeeps DEF Step
<1>4. ASSUME NEW t \in Task, Sleep(t) \/ Wake(t) \/ BlockTimeOver(t) \/ Halt(t) PROVE IInv'
    BY <1>4, ScheduleKeeps, BlockTimeOverKeeps, HaltKeeps
<1>5. ASSUME NEW t \in Task, NEW m \in Mutex,
             \/ pthread_mutex_unlock(t, m) \/ pthread_mutex_init(t, m) \/ pthread_mutex_destroy(t, m)
             \/ \E w \in Wait : pthread_mutex_lock(t, m, w)
      PROVE  IInv'
    BY <1>5, UnlockKeeps, InitDestroyKeeps, LockKeeps
<1> QED BY <1>1, <1>2, <1>3, <1>4, <1>5 DEF Next

-----------------------------------------------------------------------------
(* What follows for every program.                                         *)

\* The invariant holds of every program, also one that unlocks what it does not
\* own or locks a mutex twice.
THEOREM MutexInvariant == Spec => []IInv
<1> QED BY InitIInv, NextIInv, PTL DEF Spec

\* The event lists, counts and priorities keep their types.
THEOREM MutexTypes == Spec => []TypeOK
<1>1. IInv => TypeOK
    BY DEF IInv
<1> QED BY <1>1, MutexInvariant, PTL

\* xQueueSemaphoreTake and xQueueGenericSend give a mutex to one task at a time, and
\* holder, count and uxMutexesHeld agree with what the tasks have been told.
THEOREM MutualExclusion == Spec => []Exclusive
<1>1. IInv => Exclusive
    BY DEF IInv
<1> QED BY <1>1, MutexInvariant, PTL

\* xTaskPriorityDisinherit and vTaskPriorityDisinheritAfterTimeout give an inherited priority
\* back with the last mutex at the latest, and never go below the task's own.
THEOREM PrioritiesReturn == Spec => []PriorityRestored
<1>1. IInv => PriorityRestored
    BY DEF IInv
<1> QED BY <1>1, MutexInvariant, PTL

\* An unlock is not lost: some task outside the event list looks at the mutex again,
\* also when the one that was woken times out.
THEOREM UnlocksReachWaiters == Spec => []NoLostUnlock
<1>1. IInv => NoLostUnlock
    BY DEF IInv, WokenPart, NoLostUnlock
<1> QED BY <1>1, MutexInvariant, PTL

-----------------------------------------------------------------------------
(* The kernel's mutexes are AbstractMutex's.                               *)

\* The abstract state is read off handle, holder, call and time.
LEMMA SameMutexes ==
    ASSUME UNCHANGED <<handle, xMutexHolder, mutex>>,
           \A t \in Task : Left(xTicksToWait'[t]) = Left(xTicksToWait[t]),
           \A t \in Task : mutex[t] # NULL => (pc'[t] \in {"lower", "halt"} <=> pc[t] \in {"lower", "halt"})
    PROVE  UNCHANGED AM!vars
BY DEF AM!vars

LEMMA InitMaps == Init => AM!Init
BY DEF Init, AM!Init, Left

\* Steps that nobody outside notices.
LEMMA HiddenSteps ==
    ASSUME IInv, NEW t \in Task,
           \/ TakeWait(t) \/ Block(t) \/ BlockRetry(t) \/ BlockExpired(t) \/ ExpiredRetry(t)
           \/ Sleep(t) \/ Wake(t) \/ Halt(t)
    PROVE  UNCHANGED AM!vars
<1> USE DEF IInv
<1>1. UNCHANGED <<handle, xMutexHolder, mutex>>
    BY DEF TakeWait, Block, BlockRetry, BlockExpired, ExpiredRetry, Sleep, Wake, Halt
<1>2. \A u \in Task : Left(xTicksToWait'[u]) = Left(xTicksToWait[u])
    BY DEF TakeWait, Block, BlockRetry, BlockExpired, ExpiredRetry, Sleep, Wake, Halt, Left, TypeOK
<1>3. \A u \in Task : mutex[u] # NULL => (pc'[u] \in {"lower", "halt"} <=> pc[u] \in {"lower", "halt"})
    BY DEF TakeWait, Block, BlockRetry, BlockExpired, ExpiredRetry, Sleep, Wake, Halt, TypeOK, CallPart
<1> QED BY <1>1, <1>2, <1>3, SameMutexes

\* A take of a mutex that is free: the count is its holder's.
LEMMA TakeFreeMaps ==
    ASSUME IInv, NEW t \in Task, TakeFree(t) PROVE AM!Acquire(t)
<1> USE DEF IInv
<1>1. mutex[t] \in Mutex /\ pc[t] = "take"
    BY DEF TakeFree, CallPart, TypeOK
<1>2. xMutexHolder[mutex[t]] = NULL
    BY <1>1 DEF TakeFree, Exclusive
<1>3. UNCHANGED handle /\ xMutexHolder' = [xMutexHolder EXCEPT ![mutex[t]] = t]
    BY DEF TakeFree
<1> QED BY <1>1, <1>2, <1>3, MutexAssumption DEF TakeFree, Return, AM!Acquire, AM!Return, Left, TypeOK

\* A take that gives up: at once, after its time, or after it has lowered the holder.
LEMMA FailMaps ==
    ASSUME IInv, NEW t \in Task,
           TakeFail(t) \/ ExpiredFail(t) \/ vTaskPriorityDisinheritAfterTimeout(t)
    PROVE  AM!Fail(t)
<1> USE DEF IInv
<1>1. /\ mutex[t] \in Mutex /\ pc[t] \in {"take", "expired", "lower"} /\ xTicksToWait[t] = "zero"
      /\ pc[t] # "lower" => uxMessagesWaiting[mutex[t]] = 0
    BY DEF TakeFail, ExpiredFail, vTaskPriorityDisinheritAfterTimeout, CallPart, TypeOK
<1>2. pc[t] # "lower" => xMutexHolder[mutex[t]] # NULL
    BY <1>1 DEF Exclusive
<1>3. UNCHANGED <<handle, xMutexHolder>> /\ Return(t)
    BY DEF TakeFail, ExpiredFail, vTaskPriorityDisinheritAfterTimeout
<1> QED BY <1>1, <1>2, <1>3, MutexAssumption DEF Return, AM!Fail, AM!MayFail, AM!Return, Left, TypeOK

\* The last look of a take that has lent its priority.
LEMMA ExpiredLowerMaps ==
    ASSUME IInv, NEW t \in Task, ExpiredLower(t) PROVE AM!FindOwned(t)
<1> USE DEF IInv
<1>1. mutex[t] \in Mutex /\ pc[t] = "expired" /\ xTicksToWait[t] = "zero" /\ xMutexHolder[mutex[t]] # NULL
    BY DEF ExpiredLower, CallPart, TypeOK, Exclusive
<1>2. UNCHANGED <<handle, xMutexHolder, mutex, xTicksToWait>> /\ pc' = [pc EXCEPT ![t] = "lower"]
    BY DEF ExpiredLower
<1>3. /\ \A u \in Task \ {t} : pc'[u] = pc[u]
      /\ mutex'[t] # NULL /\ pc'[t] = "lower"
    BY <1>1, <1>2, MutexAssumption DEF TypeOK
<1>4. [u \in Task |-> mutex[u] # NULL /\ pc[u] \in {"lower", "halt"}]'
        = [[u \in Task |-> mutex[u] # NULL /\ pc[u] \in {"lower", "halt"}] EXCEPT ![t] = TRUE]
    BY <1>2, <1>3, Zenon
<1>5. [u \in Task |-> Left(xTicksToWait[u])][t] = "none" /\ mutex[t] # NULL
    BY <1>1, MutexAssumption DEF Left
<1> QED BY <1>1, <1>2, <1>4, <1>5 DEF AM!FindOwned, AM!MayFail

LEMMA BlockTimeOverMaps ==
    ASSUME IInv, NEW t \in Task, BlockTimeOver(t) PROVE AM!TimeOver(t)
BY DEF IInv, TypeOK, BlockTimeOver, AM!TimeOver, Left

LEMMA LockMaps ==
    ASSUME IInv, NEW t \in Task, NEW m \in Mutex, NEW w \in Wait, pthread_mutex_lock(t, m, w)
    PROVE  AM!Call(t, m, Left(w)) /\ Left(w) \in {"none", "some", "ever"}
BY MutexAssumption DEF IInv, TypeOK, CallPart, pthread_mutex_lock, AM!Call, Left, Wait

LEMMA UnlockMaps ==
    ASSUME IInv, NEW t \in Task, NEW m \in Mutex, pthread_mutex_unlock(t, m)
    PROVE  AM!Release(t, m)
BY DEF IInv, TypeOK, CallPart, pthread_mutex_unlock, AM!Release, Left

LEMMA InitDestroyMaps ==
    ASSUME IInv, NEW t \in Task, NEW m \in Mutex
    PROVE  /\ pthread_mutex_init(t, m) => AM!Create(m)
           /\ pthread_mutex_destroy(t, m) => AM!Destroy(m)
BY DEF IInv, TypeOK, pthread_mutex_init, pthread_mutex_destroy, Unused, AM!Create, AM!Destroy, Left

\* Every step is a step of AbstractMutex or none.
LEMMA NextMaps == IInv /\ [Next]_vars => [AM!Next]_AM!vars
<1> SUFFICES ASSUME IInv, [Next]_vars PROVE [AM!Next]_AM!vars
    OBVIOUS
<1>1. CASE UNCHANGED vars
    BY <1>1 DEF vars, object, call, AM!vars
<1>2. CASE TimeSlice
    BY <1>2 DEF TimeSlice, object, call, AM!vars
<1>3. ASSUME NEW t \in Task, Step(t) PROVE [AM!Next]_AM!vars
    BY <1>3, HiddenSteps, TakeFreeMaps, FailMaps, ExpiredLowerMaps DEF Step, AM!Next
<1>4. ASSUME NEW t \in Task, Sleep(t) \/ Wake(t) \/ BlockTimeOver(t) \/ Halt(t) PROVE [AM!Next]_AM!vars
    BY <1>4, HiddenSteps, BlockTimeOverMaps DEF AM!Next
<1>5. ASSUME NEW t \in Task, NEW m \in Mutex,
             pthread_mutex_unlock(t, m) \/ pthread_mutex_init(t, m) \/ pthread_mutex_destroy(t, m)
      PROVE  [AM!Next]_AM!vars
    BY <1>5, UnlockMaps, InitDestroyMaps DEF AM!Next
<1>6. ASSUME NEW t \in Task, NEW m \in Mutex, NEW w \in Wait, pthread_mutex_lock(t, m, w)
      PROVE  [AM!Next]_AM!vars
    BY <1>6, LockMaps DEF AM!Next
<1> QED BY <1>1, <1>2, <1>3, <1>4, <1>5, <1>6 DEF Next

\* The kernel's mutexes keep the promises of AbstractMutex, whatever tasks nest, sleep or time
\* out: a lock takes effect in one step, on a mutex that is free then, and gives
\* up only when its time is over and it has found the mutex held after that.
THEOREM MutexRefines == Spec => Refines
<1> QED BY InitMaps, NextMaps, MutexInvariant, PTL DEF Spec, Refines, AM!Spec

-----------------------------------------------------------------------------
(* Programs that lock their mutexes in one order.                          *)

\* What a task locks, it may lock with what it owns.
LEMMA NextOrder == IInv /\ OrderPart /\ [Next]_vars => OrderPart'
<1> SUFFICES ASSUME IInv, OrderPart, [Next]_vars PROVE OrderPart'
    OBVIOUS
<1> USE DEF IInv
<1>1. CASE UNCHANGED vars \/ TimeSlice
    BY <1>1 DEF vars, call, TimeSlice, OrderPart
<1>2. ASSUME NEW t \in Task, TakeFree(t) PROVE OrderPart'
    BY <1>2 DEF TakeFree, Return, OrderPart, TypeOK
<1>3. ASSUME NEW t \in Task,
             \/ TakeFail(t) \/ TakeWait(t) \/ Block(t) \/ BlockRetry(t) \/ BlockExpired(t)
             \/ ExpiredRetry(t) \/ ExpiredFail(t) \/ ExpiredLower(t)
             \/ vTaskPriorityDisinheritAfterTimeout(t) \/ Sleep(t) \/ Wake(t) \/ BlockTimeOver(t)
             \/ Halt(t)
      PROVE  OrderPart'
    <2>1. UNCHANGED owned /\ \A u \in Task : mutex'[u] \in {mutex[u], NULL}
        BY <1>3 DEF TakeFail, TakeWait, Block, BlockRetry, BlockExpired, ExpiredRetry, ExpiredFail,
                    ExpiredLower, vTaskPriorityDisinheritAfterTimeout, Sleep, Wake, BlockTimeOver,
                    Halt, Return, TypeOK
    <2> QED BY <2>1 DEF OrderPart
<1>4. ASSUME NEW t \in Task, NEW m \in Mutex,
             pthread_mutex_unlock(t, m) \/ pthread_mutex_init(t, m) \/ pthread_mutex_destroy(t, m)
      PROVE  OrderPart'
    <2>1. UNCHANGED mutex /\ \A u \in Task : owned'[u] \subseteq owned[u]
        <3>1. UNCHANGED mutex /\ (owned' = owned \/ owned' = [owned EXCEPT ![t] = @ \ {m}])
            BY <1>4 DEF pthread_mutex_unlock, pthread_mutex_init, pthread_mutex_destroy
        <3> QED BY <3>1 DEF TypeOK
    <2> QED BY <2>1 DEF OrderPart
<1>5. ASSUME NEW t \in Task, NEW m \in Mutex, NEW w \in Wait, pthread_mutex_lock(t, m, w)
      PROVE  OrderPart'
    BY <1>5 DEF pthread_mutex_lock, MayLock, OrderPart, TypeOK
<1> QED BY <1>1, <1>2, <1>3, <1>4, <1>5 DEF Next, Step

\* Of tasks that wait for one another, one wants the mutex of the lowest rank.  When that
\* is held its holder wants one of a rank below; when it is free the task that has been
\* woken for it waits on no list.
LEMMA OrderExcludesCircles == ASSUME Ordered, IInv, OrderPart PROVE NoDeadlock
<1> SUFFICES ASSUME NEW S \in SUBSET Task, S # {}, \A t \in S : InList(t),
                    \A t \in S, u \in Task \ S : ~Releases(u, t)
             PROVE  FALSE
    BY DEF NoDeadlock
<1> USE DEF IInv
<1>1. PICK rank \in [Mutex -> Nat] : \A m, n \in Mutex : <<m, n>> \in Nests => rank[n] < rank[m]
    BY DEF Ordered
<1>2. \A t \in S : mutex[t] \in Mutex /\ xTasksWaitingToReceive[mutex[t]] # << >>
    <2> TAKE t \in S
    <2>1. PICK m \in Mutex : t \in Members(xTasksWaitingToReceive[m])
        BY DEF InList
    <2>2. xTasksWaitingToReceive[m] \in Seq(Task)
        BY DEF TypeOK
    <2>3. PICK i \in 1..Len(xTasksWaitingToReceive[m]) : xTasksWaitingToReceive[m][i] = t
        BY <2>1, <2>2, MemberAt
    <2>4. mutex[t] = m
        BY <2>3 DEF ListPart
    <2> QED BY <2>2, <2>3, <2>4
<1> DEFINE R == {rank[mutex[t]] : t \in S}
<1>3. R \in SUBSET Nat /\ R # {}
    BY <1>2
<1>4. PICK r \in R : \A q \in R : r <= q
    BY <1>3, LeastNatural
<1>5. PICK t \in S : rank[mutex[t]] = r
    BY <1>4
<1>6. xMutexHolder[mutex[t]] # NULL
    <2> SUFFICES ASSUME xMutexHolder[mutex[t]] = NULL PROVE FALSE
        OBVIOUS
    <2>1. uxMessagesWaiting[mutex[t]] = 1
        BY <1>2 DEF Exclusive, TypeOK
    <2>2. PICK u \in Task : mutex[u] = mutex[t] /\ ~InList(u) /\ pc[u] \in {"take", "block", "expired"}
        BY <1>2, <2>1 DEF WokenPart
    <2> QED BY <2>2 DEF Releases
<1>7. PICK u \in S : xMutexHolder[mutex[t]] = u
    <2>1. xMutexHolder[mutex[t]] \in Task
        BY <1>2, <1>6 DEF TypeOK
    <2> QED BY <2>1 DEF Releases
<1>8. <<mutex[t], mutex[u]>> \in Nests
    <2>1. mutex[t] \in owned[u]
        BY <1>2, <1>7 DEF Exclusive
    <2> QED BY <1>2, <2>1, MutexAssumption DEF OrderPart
<1>9. rank[mutex[u]] < rank[mutex[t]] /\ rank[mutex[u]] \in R
    BY <1>1, <1>2, <1>8
<1>10. r \in Nat /\ rank[mutex[u]] \in Nat
    BY <1>3, <1>9
<1> HIDE DEF R
<1> QED BY <1>4, <1>5, <1>9, <1>10

\* Programs that lock their mutexes in one order never deadlock: whatever tasks the
\* scheduler prefers and whoever times out, tasks on event lists can always be let go
\* on by one that waits on none.
THEOREM LockOrderSuffices == ASSUME Ordered PROVE Spec => []NoDeadlock
<1>1. Init => OrderPart
    BY DEF Init, OrderPart
<1>2. IInv /\ OrderPart => NoDeadlock
    BY OrderExcludesCircles
<1> QED BY <1>1, <1>2, NextOrder, MutexInvariant, PTL DEF Spec

-----------------------------------------------------------------------------
(* Programs that unlock what they own and lock nothing twice.              *)

\* No assertion of pthread_mutex_unlock or of the timed-out take can fail.
LEMMA CarefulDoesNotHalt ==
    ASSUME Careful, IInv, CarefulInv, NEW t \in Task
    PROVE  ~Halt(t)
<1> USE DEF IInv
<1>1. ASSUME NEW m \in Mutex, MayUnlock(t, m) PROVE xMutexHolder[m] = t /\ uxMutexesHeld[t] # 0
    <2>1. m \in owned[t]
        BY <1>1 DEF MayUnlock, Careful
    <2>2. xMutexHolder[m] = t
        BY <2>1 DEF Exclusive
    <2> QED BY <2>2, HolderHolds, MutexAssumption
<1>2. ASSUME pc[t] = "lower" PROVE ~LowerAsserts(xMutexHolder[mutex[t]], t, mutex[t])
    <2> DEFINE m == mutex[t]
               h == xMutexHolder[m]
    <2>1. m \in Mutex /\ m \notin owned[t]
        BY <1>2 DEF CallPart, TypeOK, CarefulInv
    <2>2. h # NULL => h \in Task /\ m \in owned[h] /\ uxMutexesHeld[h] # 0
        BY <2>1, HolderHolds
    <2>3. h # t
        BY <2>1, <2>2, MutexAssumption
    <2> QED BY <2>2, <2>3 DEF LowerAsserts
<1> QED BY <1>1, <1>2 DEF Halt

\* A careful program never waits for what it owns.
LEMMA NextCareful ==
    ASSUME Careful, IInv, CarefulInv, [Next]_vars
    PROVE  CarefulInv'
<1> USE DEF IInv
<1>0. NULL \notin Mutex /\ (\A t \in Task : mutex[t] \notin owned[t] /\ owned[t] \subseteq Mutex) /\ ~Halted
    BY MutexAssumption DEF CarefulInv, TypeOK, NeverHalts
<1>1. CASE UNCHANGED vars
    BY <1>0, <1>1 DEF vars, CarefulInv, NeverHalts, Halted
<1>2. CASE TimeSlice
    BY <1>0, <1>2 DEF TimeSlice, CarefulInv, NeverHalts, Halted
<1>3. ASSUME NEW t \in Task, TakeFree(t) PROVE CarefulInv'
    <2>1. mutex' = [mutex EXCEPT ![t] = NULL] /\ pc' = [pc EXCEPT ![t] = "run"]
        BY <1>3 DEF TakeFree, Return, Goto
    <2>2. owned' = [owned EXCEPT ![t] = @ \cup {mutex[t]}] /\ mutex[t] \in Mutex
        BY <1>3 DEF TakeFree, At, TypeOK, CallPart
    <2>3. \A u \in Task : mutex'[u] \notin owned'[u]
        BY <1>0, <2>1, <2>2 DEF TypeOK
    <2>4. \A u \in Task : pc'[u] # "halt"
        BY <1>0, <2>1 DEF TypeOK, Halted
    <2> QED BY <2>3, <2>4 DEF CarefulInv, NeverHalts, Halted
<1>4. ASSUME NEW t \in Task,
             \/ TakeFail(t) \/ TakeWait(t) \/ Block(t) \/ BlockRetry(t) \/ BlockExpired(t)
             \/ ExpiredRetry(t) \/ ExpiredFail(t) \/ ExpiredLower(t)
             \/ vTaskPriorityDisinheritAfterTimeout(t) \/ Sleep(t) \/ Wake(t) \/ BlockTimeOver(t)
      PROVE  CarefulInv'
    <2>1. UNCHANGED owned /\ \A u \in Task : mutex'[u] \in {mutex[u], NULL}
        BY <1>4 DEF TakeFail, TakeWait, Block, BlockRetry, BlockExpired, ExpiredRetry, ExpiredFail,
                    ExpiredLower, vTaskPriorityDisinheritAfterTimeout, Sleep, Wake, BlockTimeOver,
                    Return, TypeOK
    <2>2. \A u \in Task : pc'[u] \in {pc[u], "run", "take", "block", "expired", "lower", "asleep"}
        BY <1>4 DEF TakeFail, TakeWait, Block, BlockRetry, BlockExpired, ExpiredRetry, ExpiredFail,
                    ExpiredLower, vTaskPriorityDisinheritAfterTimeout, Sleep, Wake, BlockTimeOver,
                    Return, TypeOK
    <2> QED BY <1>0, <2>1, <2>2 DEF CarefulInv, NeverHalts, Halted
<1>5. ASSUME NEW t \in Task, NEW m \in Mutex, pthread_mutex_unlock(t, m) PROVE CarefulInv'
    BY <1>0, <1>5 DEF pthread_mutex_unlock, TypeOK, CarefulInv, NeverHalts, Halted
<1>6. ASSUME NEW t \in Task, NEW m \in Mutex, pthread_mutex_init(t, m) \/ pthread_mutex_destroy(t, m)
      PROVE  CarefulInv'
    BY <1>0, <1>6 DEF pthread_mutex_init, pthread_mutex_destroy, CarefulInv, NeverHalts, Halted
<1>7. ASSUME NEW t \in Task, NEW m \in Mutex, NEW w \in Wait, pthread_mutex_lock(t, m, w)
      PROVE  CarefulInv'
    <2>1. m \notin owned[t]
        BY <1>7 DEF pthread_mutex_lock, MayLock, Careful
    <2> QED BY <1>0, <1>7, <2>1 DEF pthread_mutex_lock, TypeOK, CarefulInv, NeverHalts, Halted
<1>8. \A t \in Task : ~Halt(t)
    BY CarefulDoesNotHalt
<1> QED BY <1>1, <1>2, <1>3, <1>4, <1>5, <1>6, <1>7, <1>8 DEF Next, Step

\* A careful program, however it nests its mutexes and whichever of its takes time out,
\* fails no assertion of queue.c and tasks.c.
THEOREM AssertionsHold == ASSUME Careful PROVE Spec => []NeverHalts
<1>1. Init => CarefulInv
    BY MutexAssumption DEF Init, CarefulInv, NeverHalts, Halted
<1>2. IInv /\ CarefulInv /\ [Next]_vars => CarefulInv'
    BY NextCareful
<1>3. CarefulInv => NeverHalts
    BY DEF CarefulInv
<1> QED BY <1>1, <1>2, <1>3, MutexInvariant, PTL DEF Spec

-----------------------------------------------------------------------------
(* Programs that hold one mutex at a time and wait for it without a limit. *)

\* Who is in a call holds nothing, and has its base priority.
LEMMA CallerAtBase ==
    ASSUME IInv, FlatCalls, NEW t \in Task, mutex[t] # NULL
    PROVE  uxPriority[t] = uxBasePriority[t]
<1>1. owned[t] = {}
    BY DEF FlatCalls
<1>2. Cardinality(owned[t]) = 0
    BY <1>1, FS_EmptySet
<1> QED BY <1>2 DEF IInv, Exclusive, PriorityRestored

\* Who waits in an event list has its base priority.
LEMMA WaitersAtBase ==
    ASSUME IInv, FlatCalls, NEW m \in Mutex
    PROVE  \A i \in 1..Len(xTasksWaitingToReceive[m]) :
              /\ xTasksWaitingToReceive[m][i] \in Task
              /\ uxPriority[xTasksWaitingToReceive[m][i]] = uxBasePriority[xTasksWaitingToReceive[m][i]]
<1> TAKE i \in 1..Len(xTasksWaitingToReceive[m])
<1>1. xTasksWaitingToReceive[m] \in Seq(Task)
    BY DEF IInv, TypeOK
<1>2. xTasksWaitingToReceive[m][i] \in Task /\ mutex[xTasksWaitingToReceive[m][i]] = m
    BY <1>1 DEF IInv, ListPart
<1>3. m # NULL
    BY MutexAssumption
<1> QED BY <1>2, <1>3, CallerAtBase

\* The holder of a mutex holds nothing else.
LEMMA HeldAlone ==
    ASSUME IInv, FlatCalls, NEW m \in Mutex, xMutexHolder[m] # NULL
    PROVE  /\ xMutexHolder[m] \in Task /\ owned[xMutexHolder[m]] = {m} /\ uxMutexesHeld[xMutexHolder[m]] = 1
           /\ mutex[xMutexHolder[m]] = NULL
           /\ \A n \in Mutex \ {m} : xMutexHolder[n] # xMutexHolder[m]
<1> DEFINE h == xMutexHolder[m]
<1>1. h \in Task /\ m \in owned[h]
    BY HolderHolds DEF IInv
<1>2. owned[h] = {m}
    BY <1>1 DEF FlatCalls
<1>3. uxMutexesHeld[h] = 1
    BY <1>1, <1>2, FS_Singleton, ZenonT(60) DEF IInv, Exclusive
<1>4. mutex[h] = NULL
    BY <1>1, <1>2 DEF FlatCalls
<1>5. \A n \in Mutex \ {m} : xMutexHolder[n] # h
    BY <1>1, <1>2 DEF IInv, Exclusive
<1> QED BY <1>1, <1>2, <1>3, <1>4, <1>5

\* What RunsHighest says of a running task.
LEMMA HighestRuns ==
    ASSUME ListPart
    PROVE  RunsHighest <=> \/ pxCurrentTCB = Idle /\ Ready = {}
                           \/ /\ pxCurrentTCB \in Ready
                              /\ \A u \in Ready : uxPriority[u] <= uxPriority[pxCurrentTCB]
<1>1. Idle \notin Ready
    BY MutexAssumption DEF Ready
<1> QED BY <1>1 DEF RunsHighest, Highest, ListPart

\* After a context switch the running task is one of the most urgent.
LEMMA SwitchHighest == vTaskSwitchContext => RunsHighest'
  BY DEF vTaskSwitchContext, RunsHighest, Highest, Ready, InList, Members

\* Steps that change nothing but where a running task is in its call.
LEMMA FlatQuiet ==
    ASSUME IInv, FlatInv, FlatCalls',
           UNCHANGED <<xMutexHolder, xTasksWaitingToReceive, uxPriority, pxCurrentTCB>>,
           \A u \in Task : pc'[u] = "asleep" <=> pc[u] = "asleep",
           \A m \in Mutex : uxMessagesWaiting'[m] = 1 /\ xTasksWaitingToReceive[m] # << >>
                               => uxMessagesWaiting[m] = 1,
           \A u \in Task : pc[u] \in {"take", "block"} =>
               \/ pc'[u] \in {"take", "block"} /\ mutex'[u] = mutex[u]
               \/ uxMessagesWaiting[mutex[u]] = 0
    PROVE  FlatInv'
<1>1. \A u \in Task : InList(u)' <=> InList(u)
    BY DEF InList
<1>2. RunsHighest'
    <2>1. Ready' = Ready
        BY <1>1 DEF Ready
    <2> QED BY <2>1 DEF FlatInv, RunsHighest
<1>3. SortedPart' /\ LentPart' /\ Inherits'
    BY DEF FlatInv, SortedPart, LentPart, Inherits
<1>4. FirstPart'
    BY <1>1 DEF FlatInv, FirstPart
<1> QED BY <1>2, <1>3, <1>4 DEF FlatInv

\* The steps of a take that wait for nothing, and those of init and destroy.
LEMMA FlatQuietSteps ==
    ASSUME Flat, IInv, FlatInv, NEW t \in Task,
           TakeFail(t) \/ TakeWait(t) \/ BlockRetry(t) \/ Halt(t)
    PROVE  FlatInv'
<1> USE DEF IInv, FlatInv
<1>1. /\ UNCHANGED <<object, tcb, pxCurrentTCB, owned>> /\ pc[t] \in {"run", "take", "block"}
      /\ \A u \in Task : u # t => pc'[u] = pc[u] /\ mutex'[u] = mutex[u] /\ xTicksToWait'[u] = xTicksToWait[u]
    BY DEF TakeFail, TakeWait, BlockRetry, Halt, Return, FlatCalls, TypeOK
<1>2. /\ pc'[t] \in {"run", "take", "block", "halt"}
      /\ pc[t] \in {"take", "block"} =>
            \/ pc'[t] \in {"take", "block"} /\ mutex'[t] = mutex[t]
            \/ uxMessagesWaiting[mutex[t]] = 0
      /\ mutex'[t] \in {mutex[t], NULL} /\ xTicksToWait'[t] \in {xTicksToWait[t], "zero"}
    BY DEF TakeFail, TakeWait, BlockRetry, Halt, Return, FlatCalls, TypeOK
<1>3. FlatCalls'
    BY <1>1, <1>2 DEF FlatCalls
<1> HIDE DEF IInv, FlatInv
<1> QED BY <1>1, <1>2, <1>3, FlatQuiet

\* A lock call starts: its caller holds nothing.
LEMMA FlatLock ==
    ASSUME Flat, IInv, FlatInv, NEW t \in Task, NEW m \in Mutex, NEW w \in Wait, pthread_mutex_lock(t, m, w)
    PROVE  FlatInv'
<1> USE DEF IInv, FlatInv
<1>1. /\ UNCHANGED <<object, tcb, pxCurrentTCB, owned>> /\ pc[t] = "run" /\ pc'[t] = "take"
      /\ \A u \in Task : u # t => pc'[u] = pc[u] /\ mutex'[u] = mutex[u] /\ xTicksToWait'[u] = xTicksToWait[u]
    BY DEF pthread_mutex_lock, TypeOK
<1>2. owned[t] = {} /\ xTicksToWait'[t] \in {"zero", "max"}
    BY DEF pthread_mutex_lock, MayLock, Flat, TypeOK
<1>3. FlatCalls'
    BY <1>1, <1>2 DEF FlatCalls
<1> HIDE DEF IInv, FlatInv
<1> QED BY <1>1, <1>3, FlatQuiet

\* A mutex is made, or one that nobody uses is deleted.
LEMMA FlatInitDestroy ==
    ASSUME IInv, FlatInv, NEW t \in Task, NEW m \in Mutex, pthread_mutex_init(t, m) \/ pthread_mutex_destroy(t, m)
    PROVE  FlatInv'
<1> USE DEF IInv, FlatInv
<1>1. UNCHANGED <<xMutexHolder, xTasksWaitingToReceive, tcb, pxCurrentTCB, pc, call, owned>>
    BY DEF pthread_mutex_init, pthread_mutex_destroy
<1>2. \A n \in Mutex : uxMessagesWaiting'[n] = 1 /\ xTasksWaitingToReceive[n] # << >> => uxMessagesWaiting[n] = 1
    <2>1. CASE pthread_mutex_destroy(t, m)
        BY <2>1 DEF pthread_mutex_destroy
    <2>2. CASE pthread_mutex_init(t, m)
        <3>1. xMutexHolder[m] = NULL
            BY <2>2 DEF pthread_mutex_init, CallPart
        <3>2. uxMessagesWaiting[m] = 1
            BY <3>1 DEF Exclusive, TypeOK
        <3> QED BY <2>2, <3>2 DEF pthread_mutex_init, TypeOK
    <2> QED BY <2>1, <2>2
<1>3. FlatCalls'
    BY <1>1 DEF FlatCalls
<1> HIDE DEF IInv, FlatInv
<1> QED BY <1>1, <1>2, <1>3, FlatQuiet

\* A delay starts or ends, or the tick shares the processor.
LEMMA FlatSchedule ==
    ASSUME IInv, FlatInv, IInv', NEW t \in Task, Sleep(t) \/ Wake(t) \/ TimeSlice
    PROVE  FlatInv'
<1> USE DEF IInv, FlatInv
<1>1. UNCHANGED <<object, tcb, call, owned>>
    BY DEF Sleep, Wake, TimeSlice
<1>2. \A u \in Task : \/ pc'[u] = pc[u]
                      \/ pc[u] \in {"run", "asleep"} /\ pc'[u] \in {"run", "asleep"}
    BY DEF Sleep, Wake, TimeSlice, TypeOK
<1>3. \A u \in Task : InList(u)' <=> InList(u)
    BY <1>1 DEF InList
<1>4. RunsHighest'
    <2>1. CASE Sleep(t)
        BY <2>1, SwitchHighest DEF Sleep
    <2>2. CASE TimeSlice
        BY <2>2, SwitchHighest DEF TimeSlice
    <2>3. CASE Wake(t) /\ vTaskSwitchContext
        BY <2>3, SwitchHighest
    <2>4. CASE Wake(t) /\ ~vTaskSwitchContext
        <3>1. pxCurrentTCB # Idle /\ ~(uxPriority[t] > uxPriority[pxCurrentTCB]) /\ UNCHANGED pxCurrentTCB
            BY <2>4 DEF Wake, SwitchIf, Preempts
        <3>2. pxCurrentTCB \in Ready /\ \A u \in Ready : uxPriority[u] <= uxPriority[pxCurrentTCB]
            BY <3>1, HighestRuns
        <3>3. Ready' \subseteq Ready \cup {t}
            BY <2>4, <1>3 DEF Wake, Ready, TypeOK
        <3>4. pxCurrentTCB \in Task /\ uxPriority \in [Task -> Nat]
            BY <3>2 DEF Ready, TypeOK
        <3>5. \A u \in Ready' : uxPriority[u] <= uxPriority[pxCurrentTCB]
            BY <3>1, <3>2, <3>3, <3>4
        <3>6. pxCurrentTCB \in Ready'
            BY <2>4, <3>2, <1>3 DEF Wake, Ready, TypeOK
        <3>7. uxPriority' = uxPriority
            BY <1>1
        <3> QED BY <3>1, <3>5, <3>6, <3>7 DEF RunsHighest, Highest
    <2> QED BY <2>1, <2>2, <2>3, <2>4
<1>5. FlatCalls'
    BY <1>1, <1>2 DEF FlatCalls
<1>6. SortedPart' /\ LentPart' /\ Inherits'
    BY <1>1 DEF SortedPart, LentPart, Inherits
<1>7. FirstPart'
    BY <1>1, <1>2, <1>3 DEF FirstPart
<1> QED BY <1>4, <1>5, <1>6, <1>7

\* The mutex is free and becomes the caller's: the caller is at least as urgent as the
\* task the unlock has woken, and that one as all that still wait.
LEMMA FlatTakeFree ==
    ASSUME IInv, FlatInv, NEW t \in Task, TakeFree(t)
    PROVE  FlatInv'
<1> USE DEF IInv, FlatInv
<1> DEFINE m == mutex[t]
<1>1. /\ m \in Mutex /\ m # NULL /\ uxMessagesWaiting[m] = 1 /\ pxCurrentTCB = t /\ pc[t] = "take"
      /\ owned[t] = {} /\ uxPriority[t] = uxBasePriority[t]
    BY MutexAssumption, CallerAtBase DEF TakeFree, CallPart, TypeOK, FlatCalls
<1>2. /\ UNCHANGED <<xTasksWaitingToReceive, uxPriority, pxCurrentTCB>>
      /\ uxMessagesWaiting' = [uxMessagesWaiting EXCEPT ![m] = 0]
      /\ xMutexHolder' = [xMutexHolder EXCEPT ![m] = t]
      /\ owned' = [owned EXCEPT ![t] = {m}]
      /\ mutex' = [mutex EXCEPT ![t] = NULL] /\ pc' = [pc EXCEPT ![t] = "run"]
      /\ xTicksToWait' = [xTicksToWait EXCEPT ![t] = "zero"]
    BY <1>1 DEF TakeFree, Return, TypeOK
<1>3. \A u \in Task : InList(u)' <=> InList(u)
    BY <1>2 DEF InList
<1>4. FlatCalls'
    BY <1>1, <1>2 DEF FlatCalls, TypeOK
<1>5. SortedPart'
    BY <1>2 DEF SortedPart
<1>6. LentPart'
    <2> SUFFICES ASSUME NEW n \in Mutex, xMutexHolder'[n] # NULL,
                        uxPriority[xMutexHolder'[n]] > uxBasePriority[xMutexHolder'[n]]
                 PROVE  \E i \in 1..Len(xTasksWaitingToReceive[n]) :
                           uxBasePriority[xTasksWaitingToReceive[n][i]] >= uxPriority[xMutexHolder'[n]]
        BY <1>2 DEF LentPart
    <2>1. n # m /\ xMutexHolder'[n] = xMutexHolder[n]
        BY <1>1, <1>2, MutexAssumption DEF TypeOK
    <2> QED BY <2>1 DEF LentPart
<1>7. FirstPart'
    <2> SUFFICES ASSUME NEW n \in Mutex, uxMessagesWaiting'[n] = 1, xTasksWaitingToReceive[n] # << >>
                 PROVE  \E u \in Task :
                           /\ mutex'[u] = n /\ ~InList(u)' /\ pc'[u] \in {"take", "block"}
                           /\ \A i \in 1..Len(xTasksWaitingToReceive[n]) :
                                 uxBasePriority[xTasksWaitingToReceive[n][i]] <= uxBasePriority[u]
        BY <1>2 DEF FirstPart
    <2>1. n # m /\ uxMessagesWaiting[n] = 1
        BY <1>1, <1>2 DEF TypeOK
    <2>2. PICK u \in Task :
             /\ mutex[u] = n /\ ~InList(u) /\ pc[u] \in {"take", "block"}
             /\ \A i \in 1..Len(xTasksWaitingToReceive[n]) :
                   uxBasePriority[xTasksWaitingToReceive[n][i]] <= uxBasePriority[u]
        BY <2>1 DEF FirstPart
    <2>3. u # t
        BY <2>1, <2>2
    <2> QED BY <2>2, <2>3, <1>2, <1>3 DEF TypeOK
<1>8. Inherits'
    <2> SUFFICES ASSUME NEW n \in Mutex, NEW u \in Task, u \in Members(xTasksWaitingToReceive[n]),
                        xMutexHolder'[n] # NULL
                 PROVE  uxPriority[xMutexHolder'[n]] >= uxBasePriority[u]
        BY <1>2 DEF Inherits
    <2>1. CASE n # m
        BY <2>1, <1>2 DEF Inherits, TypeOK
    <2>2. CASE n = m
        <3>1. xTasksWaitingToReceive[m] \in Seq(Task)
            BY <1>1 DEF TypeOK
        <3>2. PICK i \in 1..Len(xTasksWaitingToReceive[m]) : xTasksWaitingToReceive[m][i] = u
            BY <2>2, <3>1, MemberAt
        <3>3. xTasksWaitingToReceive[m] # << >>
            BY <3>1, <3>2
        <3>4. PICK w \in Task :
                 /\ ~InList(w) /\ pc[w] \in {"take", "block"}
                 /\ uxBasePriority[u] <= uxBasePriority[w]
            BY <3>2, <3>3, <1>1 DEF FirstPart
        <3>5. w \in Ready
            BY <3>4 DEF Ready
        <3>6. uxPriority[w] <= uxPriority[t]
            BY <3>5, <1>1, HighestRuns, MutexAssumption
        <3>7. uxBasePriority[w] <= uxPriority[w]
            BY DEF PriorityRestored
        <3>8. xMutexHolder'[n] = t
            BY <2>2, <1>1, <1>2 DEF TypeOK
        <3> QED BY <3>4, <3>6, <3>7, <3>8, MutexAssumption DEF TypeOK
    <2> QED BY <2>1, <2>2
<1>9. RunsHighest'
    <2>1. Ready' = Ready
        BY <1>1, <1>2, <1>3 DEF Ready, TypeOK
    <2> QED BY <2>1, <1>2 DEF RunsHighest
<1> QED BY <1>4, <1>5, <1>6, <1>7, <1>8, <1>9

\* The caller joins the event list, sorted, and lends the holder its priority.
LEMMA FlatBlock ==
    ASSUME IInv, FlatInv, IInv', NEW t \in Task, Block(t)
    PROVE  FlatInv'
<1> USE DEF FlatInv
<1> DEFINE m == mutex[t]
           h == xMutexHolder[m]
           s == xTasksWaitingToReceive[m]
           r == Inserted(s, t, uxPriority')
<1>1. /\ m \in Mutex /\ m # NULL /\ uxMessagesWaiting[m] = 0 /\ pc[t] = "block"
      /\ uxPriority[t] = uxBasePriority[t] /\ s \in Seq(Task)
    BY MutexAssumption, CallerAtBase DEF IInv, Block, CallPart, TypeOK
<1>2. /\ h # NULL /\ h \in Task /\ \A n \in Mutex \ {m} : xMutexHolder[n] # h
    BY <1>1, HeldAlone DEF IInv, Exclusive
<1>3. /\ UNCHANGED <<xMutexHolder, uxMessagesWaiting, mutex, xTicksToWait, owned>>
      /\ pc' = [pc EXCEPT ![t] = "take"]
      /\ xTasksWaitingToReceive' = [xTasksWaitingToReceive EXCEPT ![m] = r]
      /\ uxPriority' = IF uxPriority[h] < uxPriority[t]
                       THEN [uxPriority EXCEPT ![h] = uxPriority[t]] ELSE uxPriority
    BY <1>2 DEF Block, xTaskPriorityInherit
<1>4. /\ r \in Seq(Task) /\ Len(r) = Len(s) + 1 /\ Len(s) \in Nat
    BY <1>1, InsertedFacts DEF IInv, TypeOK
<1>5. PICK k \in 0..Len(s) :
         /\ \A i \in 1..k : r[i] = s[i] /\ uxPriority[t] <= uxPriority[s[i]]
         /\ r[k + 1] = t
         /\ \A i \in (k + 2)..(Len(s) + 1) : r[i] = s[i - 1]
         /\ k < Len(s) => uxPriority[s[k + 1]] < uxPriority[t]
    <2>1. mutex[h] = NULL
        BY <1>1, <1>2 DEF FlatCalls, IInv, Exclusive
    <2>2. \A i \in 1..Len(s) : mutex[s[i]] = m /\ s[i] \in Task
        BY <1>1 DEF IInv, ListPart
    <2>3. h # t /\ \A i \in 1..Len(s) : s[i] # h
        BY <1>1, <2>1, <2>2
    <2>4. uxPriority'[t] = uxPriority[t] /\ \A i \in 1..Len(s) : uxPriority'[s[i]] = uxPriority[s[i]]
        BY <1>3, <2>2, <2>3 DEF IInv, TypeOK
    <2>5. PICK k \in 0..Len(s) :
             /\ \A i \in 1..k : r[i] = s[i] /\ uxPriority'[t] <= uxPriority'[s[i]]
             /\ r[k + 1] = t
             /\ \A i \in (k + 2)..(Len(s) + 1) : r[i] = s[i - 1]
             /\ k < Len(s) => uxPriority'[s[k + 1]] < uxPriority'[t]
        BY <1>1, InsertedFacts DEF IInv, TypeOK
    <2>6. (\A i \in 1..k : i \in 1..Len(s)) /\ (k < Len(s) => k + 1 \in 1..Len(s))
        BY <1>4
    <2> QED BY <2>4, <2>5, <2>6
<1> HIDE DEF r
<1>6. /\ uxPriority \in [Task -> Nat] /\ uxBasePriority \in [Task -> Nat] /\ uxPriority' \in [Task -> Nat]
      /\ xTasksWaitingToReceive \in [Mutex -> Seq(Task)] /\ xTasksWaitingToReceive' \in [Mutex -> Seq(Task)]
    BY MutexAssumption DEF IInv, TypeOK
<1>7. \A i \in 1..Len(s) : s[i] \in Task /\ uxPriority[s[i]] = uxBasePriority[s[i]]
    BY <1>1, WaitersAtBase
<1>8. \A n \in Mutex : xTasksWaitingToReceive'[n] = IF n = m THEN r ELSE xTasksWaitingToReceive[n]
    BY <1>3, <1>6
<1>9. \A i \in 1..Len(r) : /\ i <= k => i \in 1..Len(s) /\ r[i] = s[i] /\ uxBasePriority[t] <= uxBasePriority[s[i]]
                           /\ i = k + 1 => r[i] = t
                           /\ i > k + 1 => /\ i - 1 \in 1..Len(s) /\ r[i] = s[i - 1] /\ k < Len(s)
    BY <1>1, <1>4, <1>5, <1>7
<1>10. \A u \in Task : uxPriority'[u] >= uxPriority[u] /\ (u # h => uxPriority'[u] = uxPriority[u])
    BY <1>2, <1>3, <1>6
<1>11. FlatCalls'
    BY <1>3 DEF FlatCalls, IInv, TypeOK
<1>12. SortedPart'
    <2> SUFFICES ASSUME NEW n \in Mutex, NEW i \in 1..Len(xTasksWaitingToReceive'[n]),
                        NEW j \in 1..Len(xTasksWaitingToReceive'[n]), i <= j
                 PROVE  uxBasePriority[xTasksWaitingToReceive'[n][j]] <= uxBasePriority[xTasksWaitingToReceive'[n][i]]
        BY DEF SortedPart
    <2>1. CASE n # m
        BY <2>1, <1>8 DEF SortedPart
    <2>2. CASE n = m
        <3>1. i \in 1..Len(r) /\ j \in 1..Len(r) /\ xTasksWaitingToReceive'[n] = r
            BY <2>2, <1>1, <1>8
        <3>2. \A a, b \in 1..Len(s) : a <= b => uxBasePriority[s[b]] <= uxBasePriority[s[a]]
            BY <1>1 DEF SortedPart
        <3>3. \A a \in 1..Len(s) : uxBasePriority[s[a]] \in Nat
            BY <1>6, <1>7
        <3>4. \A a \in 1..Len(s) : a > k => uxBasePriority[s[a]] < uxBasePriority[t]
            <4> TAKE a \in 1..Len(s)
            <4>1. HAVE a > k
            <4>2. k + 1 \in 1..Len(s) /\ k + 1 <= a /\ k < Len(s)
                BY <4>1, <1>4
            <4>3. uxBasePriority[s[k + 1]] < uxBasePriority[t]
                BY <4>2, <1>1, <1>5, <1>7
            <4>4. uxBasePriority[s[a]] <= uxBasePriority[s[k + 1]]
                BY <4>2, <3>2
            <4>5. uxBasePriority[s[a]] \in Nat /\ uxBasePriority[s[k + 1]] \in Nat /\ uxBasePriority[t] \in Nat
                BY <4>2, <3>3, <1>6
            <4> QED BY <4>3, <4>4, <4>5
        <3>5. /\ i <= k => i \in 1..Len(s) /\ r[i] = s[i] /\ uxBasePriority[t] <= uxBasePriority[s[i]]
              /\ i = k + 1 => r[i] = t
              /\ i > k + 1 => i - 1 \in 1..Len(s) /\ r[i] = s[i - 1] /\ uxBasePriority[s[i - 1]] < uxBasePriority[t]
            BY <3>1, <3>4, <1>4, <1>9
        <3>6. /\ j <= k => j \in 1..Len(s) /\ r[j] = s[j]
              /\ j = k + 1 => r[j] = t
              /\ j > k + 1 => j - 1 \in 1..Len(s) /\ r[j] = s[j - 1] /\ uxBasePriority[s[j - 1]] < uxBasePriority[t]
            BY <3>1, <3>4, <1>4, <1>9, SMTT(60)
        <3>7. i \in Nat /\ j \in Nat /\ k \in Nat /\ uxBasePriority[t] \in Nat
            BY <3>1, <1>4, <1>6
        <3>8. uxBasePriority[r[j]] <= uxBasePriority[r[i]]
            <4>1. CASE j <= k
                BY <4>1, <3>2, <3>5, <3>6, <3>7
            <4>2. CASE j = k + 1
                BY <4>2, <3>5, <3>6, <3>7
            <4>3. CASE j > k + 1 /\ i <= k
                <5>1. i <= j - 1 /\ r[i] = s[i] /\ r[j] = s[j - 1] /\ i \in 1..Len(s) /\ j - 1 \in 1..Len(s)
                    BY <4>3, <3>5, <3>6, <3>7
                <5> QED BY <5>1, <3>2
            <4>4. CASE j > k + 1 /\ i = k + 1
                BY <4>4, <3>3, <3>5, <3>6, <3>7, SMTT(30)
            <4>5. CASE i > k + 1
                <5>1. j > k + 1 /\ i - 1 <= j - 1
                    BY <4>5, <3>7
                <5>2. r[i] = s[i - 1] /\ r[j] = s[j - 1] /\ i - 1 \in 1..Len(s) /\ j - 1 \in 1..Len(s)
                    BY <4>5, <5>1, <3>5, <3>6
                <5> QED BY <5>1, <5>2, <3>2
            <4> QED BY <4>1, <4>2, <4>3, <4>4, <4>5, <3>7
        <3> QED BY <3>1, <3>8
    <2> QED BY <2>1, <2>2
<1>13. LentPart'
    <2> SUFFICES ASSUME NEW n \in Mutex, xMutexHolder[n] # NULL,
                        uxPriority'[xMutexHolder[n]] > uxBasePriority[xMutexHolder[n]]
                 PROVE  \E i \in 1..Len(xTasksWaitingToReceive'[n]) :
                           uxBasePriority[xTasksWaitingToReceive'[n][i]] >= uxPriority'[xMutexHolder[n]]
        BY <1>3 DEF LentPart
    <2>1. CASE n # m
        <3>1. xMutexHolder[n] \in Task /\ xMutexHolder[n] # h
            BY <2>1, <1>2, HeldAlone
        <3> QED BY <3>1, <2>1, <1>8, <1>10 DEF LentPart
    <2>2. CASE n = m /\ uxPriority[h] < uxPriority[t]
        <3>1. uxPriority'[h] = uxBasePriority[t]
            BY <2>2, <1>1, <1>2, <1>3, <1>6
        <3>2. k + 1 \in 1..Len(r) /\ r[k + 1] = t
            BY <1>4, <1>5
        <3>3. uxBasePriority[r[k + 1]] >= uxPriority'[h]
            BY <3>1, <3>2, <1>6
        <3> QED BY <2>2, <3>2, <3>3, <1>8
    <2>3. CASE n = m /\ ~(uxPriority[h] < uxPriority[t])
        <3>1. uxPriority' = uxPriority
            BY <2>3, <1>3
        <3>2. PICK i \in 1..Len(s) : uxBasePriority[s[i]] >= uxPriority[h]
            BY <2>3, <3>1, <1>1 DEF LentPart
        <3>3. \E j \in 1..Len(r) : r[j] = s[i]
            <4>1. CASE i <= k
                <5>1. i \in 1..Len(r) /\ r[i] = s[i]
                    BY <4>1, <1>4, <1>5
                <5> QED BY <5>1
            <4>2. CASE i > k
                <5>1. i + 1 \in 1..Len(r) /\ i + 1 > k + 1 /\ (i + 1) - 1 = i
                    BY <4>2, <1>4
                <5>2. r[i + 1] = s[(i + 1) - 1]
                    BY <5>1, <1>9
                <5> QED BY <5>1, <5>2
            <4> QED BY <4>1, <4>2, <1>4
        <3> QED BY <2>3, <3>1, <3>2, <3>3, <1>8
    <2> QED BY <2>1, <2>2, <2>3
<1>14. ASSUME NEW u \in Task, NEW n \in Mutex, u \in Members(xTasksWaitingToReceive'[n])
       PROVE  u \in Members(xTasksWaitingToReceive[n]) \/ (n = m /\ u = t)
    <2>1. CASE n # m
        BY <2>1, <1>8, <1>14
    <2>2. CASE n = m
        <3>1. PICK i \in 1..Len(r) : r[i] = u
            BY <2>2, <1>4, <1>8, <1>14, MemberAt
        <3>2. u = t \/ \E j \in 1..Len(s) : s[j] = u
            <4>1. i \in Nat /\ k \in Nat
                BY <1>4
            <4>2. /\ i <= k => i \in 1..Len(s) /\ r[i] = s[i]
                  /\ i = k + 1 => r[i] = t
                  /\ i > k + 1 => i - 1 \in 1..Len(s) /\ r[i] = s[i - 1]
                BY <1>9
            <4> QED BY <3>1, <4>1, <4>2
        <3> QED BY <2>2, <3>2, <1>1, MemberAt
    <2> QED BY <2>1, <2>2
<1>15. Inherits'
    <2> SUFFICES ASSUME NEW n \in Mutex, NEW u \in Task, u \in Members(xTasksWaitingToReceive'[n]),
                        xMutexHolder[n] # NULL
                 PROVE  uxPriority'[xMutexHolder[n]] >= uxBasePriority[u]
        <3>1. Inherits' <=> \A n \in Mutex, u \in Task :
                 u \in Members(xTasksWaitingToReceive'[n]) /\ xMutexHolder'[n] # NULL
                    => uxPriority'[xMutexHolder'[n]] >= uxBasePriority[u]
            BY DEF Inherits, Members
        <3> QED BY <3>1, <1>3
    <2>1. xMutexHolder[n] \in Task
        BY HeldAlone
    <2>2. CASE u \in Members(xTasksWaitingToReceive[n])
        <3>1. uxPriority[xMutexHolder[n]] >= uxBasePriority[u]
            BY <2>2 DEF Inherits
        <3> QED BY <2>1, <3>1, <1>6, <1>10
    <2>3. CASE n = m /\ u = t
        BY <2>3, <1>1, <1>2, <1>3, <1>6
    <2> QED BY <2>2, <2>3, <1>14
<1>16. FirstPart'
    <2> SUFFICES ASSUME NEW n \in Mutex, uxMessagesWaiting[n] = 1, xTasksWaitingToReceive'[n] # << >>
                 PROVE  \E u \in Task :
                           /\ mutex[u] = n /\ ~InList(u)' /\ pc'[u] \in {"take", "block"}
                           /\ \A i \in 1..Len(xTasksWaitingToReceive'[n]) :
                                 uxBasePriority[xTasksWaitingToReceive'[n][i]] <= uxBasePriority[u]
        BY <1>3 DEF FirstPart
    <2>1. n # m /\ xTasksWaitingToReceive'[n] = xTasksWaitingToReceive[n]
        BY <1>1, <1>8
    <2>2. PICK u \in Task :
             /\ mutex[u] = n /\ ~InList(u) /\ pc[u] \in {"take", "block"}
             /\ \A i \in 1..Len(xTasksWaitingToReceive[n]) :
                   uxBasePriority[xTasksWaitingToReceive[n][i]] <= uxBasePriority[u]
        BY <2>1 DEF FirstPart
    <2>3. u # t /\ pc'[u] = pc[u]
        BY <2>1, <2>2, <1>3 DEF IInv, TypeOK
    <2>4. ~InList(u)'
        <3>1. InList(u)' => \E l \in Mutex : u \in Members(xTasksWaitingToReceive'[l])
            BY DEF InList, Members
        <3> QED BY <3>1, <1>14, <2>2, <2>3 DEF InList
    <2> QED BY <2>1, <2>2, <2>3, <2>4
<1>17. RunsHighest'
    BY SwitchHighest DEF Block
<1> QED BY <1>11, <1>12, <1>13, <1>15, <1>16, <1>17

\* A mutex goes back: the priority it lent goes back with it, and the most urgent
\* waiting task becomes ready.
LEMMA FlatUnlock ==
    ASSUME IInv, FlatInv, IInv', NEW t \in Task, NEW m \in Mutex, pthread_mutex_unlock(t, m)
    PROVE  FlatInv'
<1> USE DEF FlatInv
<1> DEFINE s == xTasksWaitingToReceive[m]
<1>1. /\ pxCurrentTCB = t /\ pc[t] = "run" /\ xMutexHolder[m] = t /\ t # NULL /\ UNCHANGED <<pc, call>>
      /\ xMutexHolder' = [xMutexHolder EXCEPT ![m] = NULL]
      /\ uxMessagesWaiting' = [uxMessagesWaiting EXCEPT ![m] = 1]
      /\ owned' = [owned EXCEPT ![t] = owned[t] \ {m}]
    BY MutexAssumption DEF pthread_mutex_unlock
<1>2. uxMutexesHeld[t] = 1 /\ \A n \in Mutex \ {m} : xMutexHolder[n] # t
    BY <1>1, HeldAlone
<1>3. /\ uxPriority \in [Task -> Nat] /\ uxBasePriority \in [Task -> Nat] /\ t \in Ready
      /\ xTasksWaitingToReceive \in [Mutex -> Seq(Task)] /\ s \in Seq(Task) /\ Distinct(s)
      /\ \A u \in Ready : uxPriority[u] <= uxPriority[t]
    <2>1. t \in Ready /\ \A u \in Ready : uxPriority[u] <= uxPriority[t]
        BY <1>1, HighestRuns, MutexAssumption DEF IInv
    <2>2. uxPriority \in [Task -> Nat] /\ uxBasePriority \in [Task -> Nat]
        BY MutexAssumption DEF IInv, TypeOK
    <2>3. xTasksWaitingToReceive \in [Mutex -> Seq(Task)] /\ s \in Seq(Task)
        BY DEF IInv, TypeOK
    <2>4. Distinct(s)
        BY DEF IInv, ListPart, Distinct
    <2> QED BY <2>1, <2>2, <2>3, <2>4
<1>4. uxPriority' = [uxPriority EXCEPT ![t] = uxBasePriority[t]]
    <2>1. uxPriority' = IF Disinherits(t) THEN [uxPriority EXCEPT ![t] = uxBasePriority[t]] ELSE uxPriority
        BY DEF pthread_mutex_unlock, xTaskPriorityDisinherit
    <2>2. Disinherits(t) <=> uxPriority[t] # uxBasePriority[t]
        BY <1>2 DEF Disinherits
    <2>3. uxPriority[t] = uxBasePriority[t] => [uxPriority EXCEPT ![t] = uxBasePriority[t]] = uxPriority
        BY <1>3
    <2> QED BY <2>1, <2>2, <2>3
<1>5. /\ \A u \in Task : InList(u)' => InList(u)
      /\ \A n \in Mutex : Members(xTasksWaitingToReceive'[n]) \subseteq Members(xTasksWaitingToReceive[n])
      /\ \A n \in Mutex : xTasksWaitingToReceive'[n] =
            IF n = m /\ s # << >> THEN Tail(s) ELSE xTasksWaitingToReceive[n]
    <2>1. /\ xTasksWaitingToReceive' = [xTasksWaitingToReceive EXCEPT ![m] = IF s = << >> THEN s ELSE Tail(s)]
          /\ \A n \in Mutex : Members(xTasksWaitingToReceive'[n]) \subseteq Members(xTasksWaitingToReceive[n])
          /\ \A u \in Task : InList(u)' => InList(u)
        BY UnlockLists DEF IInv
    <2> QED BY <2>1, <1>3
<1>6. ASSUME s # << >>
      PROVE  \E p \in Task :
                /\ p = s[1] /\ p = Head(s) /\ p # t /\ mutex[p] = m /\ pc[p] = "take" /\ ~InList(p)'
                /\ \A u \in Task : InList(u)' <=> InList(u) /\ u # p
    <2>1. /\ Head(s) \in Task /\ Head(s) # t /\ mutex[Head(s)] = m /\ pc[Head(s)] = "take"
          /\ \A u \in Task : InList(u)' <=> InList(u) /\ u # Head(s)
        BY <1>6, UnlockLists DEF IInv
    <2>2. Head(s) = s[1]
        BY <1>3, <1>6
    <2> QED BY <2>1, <2>2
<1>7. ASSUME s # << >> PROVE \A i \in 1..Len(s) : uxBasePriority[s[i]] <= uxBasePriority[s[1]]
    <2>1. 1 \in 1..Len(s) /\ \A i \in 1..Len(s) : 1 <= i
        BY <1>3, <1>7
    <2> QED BY <2>1 DEF SortedPart
<1>8. FlatCalls'
    BY <1>1, SMTT(30) DEF FlatCalls, IInv, TypeOK
<1>9. SortedPart'
    <2> SUFFICES ASSUME NEW n \in Mutex, NEW i \in 1..Len(xTasksWaitingToReceive'[n]),
                        NEW j \in 1..Len(xTasksWaitingToReceive'[n]), i <= j
                 PROVE  uxBasePriority[xTasksWaitingToReceive'[n][j]] <= uxBasePriority[xTasksWaitingToReceive'[n][i]]
        BY DEF SortedPart
    <2>1. CASE ~(n = m /\ s # << >>)
        BY <2>1, <1>5 DEF SortedPart
    <2>2. CASE n = m /\ s # << >>
        <3>1. /\ i + 1 \in 1..Len(s) /\ Tail(s)[i] = s[i + 1]
              /\ j + 1 \in 1..Len(s) /\ Tail(s)[j] = s[j + 1] /\ i + 1 <= j + 1
            <4>1. i \in 1..Len(Tail(s)) /\ j \in 1..Len(Tail(s)) /\ i + 1 <= j + 1
                <5>1. xTasksWaitingToReceive'[n] = Tail(s)
                    BY <2>2, <1>5
                <5>2. i \in 1..Len(Tail(s)) /\ j \in 1..Len(Tail(s))
                    BY <5>1
                <5>3. i \in Nat /\ j \in Nat
                    BY <5>2, <2>2, <1>3, TailFacts
                <5> QED BY <5>2, <5>3
            <4>2. \A a \in 1..Len(Tail(s)) : a + 1 \in 1..Len(s) /\ Tail(s)[a] = s[a + 1]
                BY <2>2, <1>3, TailFacts
            <4> QED BY <4>1, <4>2
        <3>2. uxBasePriority[s[j + 1]] <= uxBasePriority[s[i + 1]]
            BY <3>1 DEF SortedPart
        <3> QED BY <2>2, <3>1, <3>2, <1>5
    <2> QED BY <2>1, <2>2
<1>10. \A n \in Mutex : xMutexHolder'[n] # NULL =>
          /\ n # m /\ xMutexHolder'[n] = xMutexHolder[n] /\ uxPriority'[xMutexHolder[n]] = uxPriority[xMutexHolder[n]]
    <2> TAKE n \in Mutex
    <2>1. HAVE xMutexHolder'[n] # NULL
    <2>2. n # m /\ xMutexHolder'[n] = xMutexHolder[n]
        BY <2>1, <1>1 DEF IInv, TypeOK
    <2>3. xMutexHolder[n] \in Task /\ xMutexHolder[n] # t
        BY <2>1, <2>2, <1>2, HeldAlone
    <2> QED BY <2>2, <2>3, <1>3, <1>4
<1>11. LentPart'
    <2> SUFFICES ASSUME NEW n \in Mutex, xMutexHolder'[n] # NULL,
                        uxPriority'[xMutexHolder'[n]] > uxBasePriority[xMutexHolder'[n]]
                 PROVE  \E i \in 1..Len(xTasksWaitingToReceive'[n]) :
                           uxBasePriority[xTasksWaitingToReceive'[n][i]] >= uxPriority'[xMutexHolder'[n]]
        BY DEF LentPart
    <2> QED BY <1>5, <1>10 DEF LentPart
<1>12. Inherits'
    <2> SUFFICES ASSUME NEW n \in Mutex, NEW u \in Task, u \in Members(xTasksWaitingToReceive'[n]),
                        xMutexHolder'[n] # NULL
                 PROVE  uxPriority'[xMutexHolder'[n]] >= uxBasePriority[u]
        BY DEF Inherits, Members
    <2> QED BY <1>5, <1>10 DEF Inherits
<1>13. FirstPart'
    <2> SUFFICES ASSUME NEW n \in Mutex, uxMessagesWaiting'[n] = 1, xTasksWaitingToReceive'[n] # << >>
                 PROVE  \E u \in Task :
                           /\ mutex[u] = n /\ ~InList(u)' /\ pc[u] \in {"take", "block"}
                           /\ \A i \in 1..Len(xTasksWaitingToReceive'[n]) :
                                 uxBasePriority[xTasksWaitingToReceive'[n][i]] <= uxBasePriority[u]
        BY <1>1 DEF FirstPart
    <2>1. CASE n = m
        <3>1. s # << >>
            BY <2>1, <1>5
        <3>2. \A i \in 1..Len(Tail(s)) : uxBasePriority[Tail(s)[i]] <= uxBasePriority[s[1]]
            BY <3>1, <1>3, <1>7, TailFacts
        <3>3. xTasksWaitingToReceive'[n] = Tail(s)
            BY <2>1, <3>1, <1>5
        <3> QED BY <2>1, <3>1, <3>2, <3>3, <1>6
    <2>2. CASE n # m
        <3>1. uxMessagesWaiting[n] = 1 /\ xTasksWaitingToReceive'[n] = xTasksWaitingToReceive[n]
            BY <2>2, <1>1, <1>5 DEF IInv, TypeOK
        <3> QED BY <3>1, <1>5 DEF FirstPart
    <2> QED BY <2>1, <2>2
<1>14. RunsHighest'
    <2>1. CASE vTaskSwitchContext
        BY <2>1, SwitchHighest
    <2>2. CASE ~vTaskSwitchContext
        <3>1. ~GiveSwitches(t, s) /\ UNCHANGED pxCurrentTCB
            BY <2>2 DEF pthread_mutex_unlock, SwitchIf
        <3>2. t \in Ready'
            BY <1>1, <1>3, <1>5 DEF Ready
        <3>3. \A u \in Ready' : uxPriority'[u] <= uxPriority'[t]
            <4>1. CASE s = << >>
                <5>1. uxPriority' = uxPriority
                    <6>1. uxPriority[t] = uxBasePriority[t]
                        BY <3>1, <4>1, <1>2 DEF GiveSwitches, Disinherits
                    <6> QED BY <6>1, <1>3, <1>4
                <5>2. \A u \in Task : InList(u)' <=> InList(u)
                    BY <4>1, UnlockLists DEF IInv
                <5>3. Ready' = Ready
                    BY <5>2, <1>1 DEF Ready
                <5> QED BY <5>1, <5>3, <1>3
            <4>2. CASE s # << >>
                <5>1. PICK p \in Task :
                         /\ p = s[1] /\ p = Head(s) /\ p # t /\ mutex[p] = m
                         /\ \A u \in Task : InList(u)' <=> InList(u) /\ u # p
                    BY <4>2, <1>6
                <5>2. uxPriority'[p] <= uxPriority'[t]
                    BY <3>1, <4>2, <5>1, <1>3, <1>4 DEF GiveSwitches
                <5>3. uxPriority'[p] = uxBasePriority[p] /\ uxPriority'[t] = uxBasePriority[t]
                    <6>1. uxPriority[p] = uxBasePriority[p]
                        BY <5>1, CallerAtBase, MutexAssumption
                    <6> QED BY <6>1, <5>1, <1>3, <1>4
                <5>4. uxPriority[t] = uxBasePriority[t]
                    <6> SUFFICES ASSUME uxPriority[t] # uxBasePriority[t] PROVE FALSE
                        OBVIOUS
                    <6>1. uxPriority[t] > uxBasePriority[t]
                        BY <1>3 DEF IInv, PriorityRestored
                    <6>2. PICK i \in 1..Len(s) : uxBasePriority[s[i]] >= uxPriority[t]
                        BY <6>1, <1>1 DEF LentPart
                    <6>3. uxBasePriority[s[i]] <= uxBasePriority[p] /\ s[i] \in Task
                        BY <4>2, <5>1, <1>3, <1>7
                    <6> QED BY <6>1, <6>2, <6>3, <5>2, <5>3, <1>3
                <5>5. uxPriority' = uxPriority
                    BY <5>4, <1>3, <1>4
                <5>6. Ready' \subseteq Ready \cup {p}
                    BY <5>1, <1>1 DEF Ready
                <5> QED BY <5>2, <5>5, <5>6, <1>3
            <4> QED BY <4>1, <4>2
        <3> QED BY <3>1, <3>2, <3>3, <1>1 DEF RunsHighest, Highest
    <2> QED BY <2>1, <2>2
<1> QED BY <1>8, <1>9, <1>11, <1>12, <1>13, <1>14

\* Every step of a Flat program keeps FlatInv.
LEMMA NextFlat ==
    ASSUME Flat, IInv, IInv', FlatInv, [Next]_vars
    PROVE  FlatInv'
<1>1. CASE UNCHANGED vars
    <2>1. Ready' = Ready /\ \A u \in Task : InList(u)' <=> InList(u)
        BY <1>1 DEF vars, Ready, InList
    <2>2. FlatCalls' /\ SortedPart' /\ LentPart' /\ Inherits'
        BY <1>1 DEF vars, FlatInv, FlatCalls, SortedPart, LentPart, Inherits
    <2>3. FirstPart'
        BY <1>1, <2>1 DEF vars, FlatInv, FirstPart
    <2>4. RunsHighest'
        BY <1>1, <2>1 DEF vars, FlatInv, RunsHighest
    <2> QED BY <2>2, <2>3, <2>4 DEF FlatInv
<1>2. CASE TimeSlice
    <2>1. PICK t \in Task : t \in Ready
        BY <1>2 DEF TimeSlice, Shared, Ready
    <2> QED BY <1>2, <2>1, FlatSchedule
<1>3. ASSUME NEW t \in Task, Step(t) PROVE FlatInv'
    <2>1. xTicksToWait[t] # "over" /\ pc[t] \notin {"expired", "lower"}
        BY DEF FlatInv, FlatCalls
    <2>2. TakeFree(t) \/ TakeFail(t) \/ TakeWait(t) \/ Block(t) \/ BlockRetry(t)
        BY <1>3, <2>1 DEF Step, BlockExpired, ExpiredRetry, ExpiredFail, ExpiredLower,
                          vTaskPriorityDisinheritAfterTimeout
    <2> QED BY <2>2, FlatTakeFree, FlatQuietSteps, FlatBlock
<1>4. ASSUME NEW t \in Task, Sleep(t) \/ Wake(t) PROVE FlatInv'
    BY <1>4, FlatSchedule
<1>5. \A t \in Task : ~BlockTimeOver(t)
    BY DEF FlatInv, FlatCalls, BlockTimeOver
<1>6. ASSUME NEW t \in Task, Halt(t) PROVE FlatInv'
    BY <1>6, FlatQuietSteps
<1>7. ASSUME NEW t \in Task, NEW m \in Mutex, pthread_mutex_unlock(t, m) PROVE FlatInv'
    BY <1>7, FlatUnlock
<1>8. ASSUME NEW t \in Task, NEW m \in Mutex, pthread_mutex_init(t, m) \/ pthread_mutex_destroy(t, m)
      PROVE  FlatInv'
    BY <1>8, FlatInitDestroy
<1>9. ASSUME NEW t \in Task, NEW m \in Mutex, NEW w \in Wait, pthread_mutex_lock(t, m, w)
      PROVE  FlatInv'
    BY <1>9, FlatLock
<1> QED BY <1>1, <1>2, <1>3, <1>4, <1>5, <1>6, <1>7, <1>8, <1>9 DEF Next

\* The invariant of Flat programs.
LEMMA FlatInvariant == ASSUME Flat PROVE Spec => []FlatInv
<1>1. Init => FlatInv
    <2> SUFFICES ASSUME Init PROVE FlatInv
        OBVIOUS
    <2>1. Ready = {}
        BY DEF Init, Ready
    <2>2. RunsHighest
        BY <2>1 DEF Init, RunsHighest, Highest
    <2>3. FlatCalls
        BY DEF Init, FlatCalls
    <2>4. \A m \in Mutex : xTasksWaitingToReceive[m] = << >> /\ xMutexHolder[m] = NULL
        BY DEF Init
    <2>5. SortedPart /\ LentPart /\ FirstPart /\ Inherits
        BY <2>4 DEF SortedPart, LentPart, FirstPart, Inherits
    <2> QED BY <2>2, <2>3, <2>5 DEF FlatInv
<1>2. IInv /\ IInv' /\ FlatInv /\ [Next]_vars => FlatInv'
    BY NextFlat
<1> QED BY <1>1, <1>2, MutexInvariant, PTL DEF Spec

\* Priority inheritance: while a task waits, the holder of its mutex has at least its
\* priority (xTaskPriorityInherit, xTaskPriorityDisinherit, vListInsert).
THEOREM HoldersInherit == ASSUME Flat PROVE Spec => []Inherits
<1>1. FlatInv => Inherits
    BY DEF FlatInv
<1> QED BY <1>1, FlatInvariant, PTL

\* Every step that could let another task go first asks for a context switch.
THEOREM HighestPriorityRuns == ASSUME Flat PROVE Spec => []RunsHighest
<1>1. FlatInv => RunsHighest
    BY DEF FlatInv
<1> QED BY <1>1, FlatInvariant, PTL
=============================================================================
