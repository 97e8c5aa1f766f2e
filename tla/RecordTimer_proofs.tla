------------------------- MODULE RecordTimer_proofs -------------------------
(***************************************************************************)
(* Proofs about RecordTimer, for any timers, spans, repetitions and delays. *)
(*                                                                         *)
(* First come facts about sequences, the binary search and the calendar,   *)
(* then what the operators on an entry and on the two lists do, then what  *)
(* a handler hands over to the pass it starts (Kept), and last one lemma   *)
(* for every action.  A removal takes the most: removeEntry stops a timer  *)
(* and expects to find it in processed_timers when timeChanged returns,    *)
(* which needs a sorted list (so that the pass reaches the timer), a       *)
(* cancelled recording (so that it does not start again) and a handler     *)
(* that takes less time than cleanupDaily keeps timers for (RemovalKept).  *)
(***************************************************************************)
EXTENDS RecordTimer, TLAPS, WellFoundedInduction, SequenceTheorems

(* A set of numbers has a least one.                                          *)
LEMMA Least ==
  ASSUME NEW T \in SUBSET Nat, T # {}
  PROVE  \E n \in T : \A m \in T : n <= m
<1> DEFINE R == OpToRel(<, Nat)
<1>1. PICK n \in T : \A m \in T : ~(<<m, n>> \in R)
  <2>1. IsWellFoundedOn(R, Nat)
    BY NatLessThanWellFounded
  <2> HIDE DEF R
  <2> QED
    BY <2>1, WFMin
<1>2. \A m \in T : ~(m < n)
  BY <1>1 DEF OpToRel
<1> QED
  BY <1>2

(* InsertAt and RemoveAt, element by element.                                 *)
LEMMA InsertAtEffect ==
  ASSUME NEW T, NEW s \in Seq(T), NEW p \in 1 .. Len(s) + 1, NEW t \in T
  PROVE  /\ InsertAt(s, p, t) \in Seq(T) /\ Len(InsertAt(s, p, t)) = Len(s) + 1
         /\ \A i \in 1 .. Len(s) + 1 :
              InsertAt(s, p, t)[i] = IF i < p THEN s[i] ELSE IF i = p THEN t ELSE s[i - 1]
<1> DEFINE a == SubSeq(s, 1, p - 1)  b == SubSeq(s, p, Len(s))  c == a \o <<t>>
<1>0. Len(s) \in Nat /\ p \in Int /\ \A i \in 1 .. Len(s) : s[i] \in T
  BY LenProperties, ElementOfSeq
<1>1. a \in Seq(T) /\ Len(a) = p - 1 /\ \A i \in 1 .. p - 1 : a[i] = s[i]
  BY <1>0, SubSeqProperties
<1>2. b \in Seq(T) /\ Len(b) = Len(s) - p + 1
      /\ \A i \in 1 .. Len(s) - p + 1 : b[i] = s[p + i - 1]
  BY <1>0, SubSeqProperties
<1>3. <<t>> \in Seq(T) /\ Len(<<t>>) = 1 /\ <<t>>[1] = t
  OBVIOUS
<1> HIDE DEF a, b
<1>4. c \in Seq(T) /\ Len(c) = p /\ c[p] = t /\ \A i \in 1 .. p - 1 : c[i] = s[i]
  <2>1. /\ c \in Seq(T) /\ Len(c) = Len(a) + Len(<<t>>)
        /\ \A i \in 1 .. Len(a) + Len(<<t>>) :
             c[i] = IF i <= Len(a) THEN a[i] ELSE <<t>>[i - Len(a)]
    BY <1>1, <1>3, ConcatProperties
  <2> HIDE DEF c
  <2>2. Len(c) = p /\ \A i \in 1 .. p : c[i] = IF i <= p - 1 THEN a[i] ELSE <<t>>[i - (p - 1)]
    BY <1>0, <1>1, <1>3, <2>1
  <2>3. c[p] = <<t>>[1]
    BY <1>0, <2>2
  <2>4. \A i \in 1 .. p - 1 : c[i] = s[i]
    BY <1>0, <1>1, <2>2
  <2> QED
    BY <1>3, <2>1, <2>2, <2>3, <2>4
<1> HIDE DEF c
<1>5. /\ c \o b \in Seq(T) /\ Len(c \o b) = Len(s) + 1
      /\ \A i \in 1 .. Len(s) + 1 : (c \o b)[i] = IF i <= p THEN c[i] ELSE b[i - p]
  <2>1. /\ c \o b \in Seq(T) /\ Len(c \o b) = Len(c) + Len(b)
        /\ \A i \in 1 .. Len(c) + Len(b) :
             (c \o b)[i] = IF i <= Len(c) THEN c[i] ELSE b[i - Len(c)]
    BY <1>2, <1>4, ConcatProperties
  <2>2. Len(c) + Len(b) = Len(s) + 1
    BY <1>0, <1>2, <1>4
  <2> QED
    BY <1>4, <2>1, <2>2
<1>6. \A i \in 1 .. Len(s) + 1 :
        (c \o b)[i] = IF i < p THEN s[i] ELSE IF i = p THEN t ELSE s[i - 1]
  BY <1>0, <1>2, <1>4, <1>5
<1>7. InsertAt(s, p, t) = c \o b
  BY DEF InsertAt, a, b, c
<1> QED
  BY <1>5, <1>6, <1>7

(* RemoveAt, element by element.                                              *)
LEMMA RemoveAtEffect ==
  ASSUME NEW T, NEW s \in Seq(T), NEW p \in 1 .. Len(s)
  PROVE  /\ RemoveAt(s, p) \in Seq(T) /\ Len(RemoveAt(s, p)) = Len(s) - 1
         /\ \A i \in 1 .. Len(s) - 1 : RemoveAt(s, p)[i] = IF i < p THEN s[i] ELSE s[i + 1]
<1> DEFINE a == SubSeq(s, 1, p - 1)  b == SubSeq(s, p + 1, Len(s))
<1>0. Len(s) \in Nat /\ p \in Int /\ \A i \in 1 .. Len(s) : s[i] \in T
  BY LenProperties, ElementOfSeq
<1>1. a \in Seq(T) /\ Len(a) = p - 1 /\ \A i \in 1 .. p - 1 : a[i] = s[i]
  BY <1>0, SubSeqProperties
<1>2. b \in Seq(T) /\ Len(b) = Len(s) - p /\ \A i \in 1 .. Len(s) - p : b[i] = s[p + i]
  BY <1>0, SubSeqProperties
<1> HIDE DEF a, b
<1>3. /\ a \o b \in Seq(T) /\ Len(a \o b) = Len(s) - 1
      /\ \A i \in 1 .. Len(s) - 1 : (a \o b)[i] = IF i < p THEN a[i] ELSE b[i - p + 1]
  BY <1>0, <1>1, <1>2, ConcatProperties
<1>4. RemoveAt(s, p) = a \o b
  BY DEF RemoveAt, a, b
<1> QED
  BY <1>0, <1>1, <1>2, <1>3, <1>4

(* RemoveFirst takes one out of a list that holds it once.                     *)
LEMMA RemoveKeeps ==
  ASSUME NEW T, NEW s \in Seq(T), NEW t, IsInjective(s)
  PROVE  LET r == RemoveFirst(s, t)
         IN  /\ r \in Seq(T) /\ IsInjective(r) /\ ToSet(r) = ToSet(s) \ {t}
             /\ \A when : Sorted(s, when) => Sorted(r, when)
<1>0. Len(s) \in Nat /\ DOMAIN s = 1 .. Len(s)
  OBVIOUS
<1>1. CASE ~\E i \in 1 .. Len(s) : s[i] = t
  BY <1>0, <1>1 DEF RemoveFirst, ToSet
<1>2. CASE \E i \in 1 .. Len(s) : s[i] = t
  <2> DEFINE I == {i \in 1 .. Len(s) : s[i] = t}  r == RemoveFirst(s, t)
  <2>1. PICK p \in I : \A j \in I : p <= j
    <3>1. I \in SUBSET Nat /\ I # {}
      BY <1>0, <1>2
    <3> HIDE DEF I
    <3> QED
      BY <3>1, Least
  <2>2. Min(I) = p
    BY <1>0, <2>1 DEF Min
  <2>3. r = RemoveAt(s, p)
    BY <1>2, <2>2 DEF RemoveFirst, SelectInSeq
  <2>4. /\ r \in Seq(T) /\ DOMAIN r = 1 .. Len(s) - 1
        /\ \A i \in 1 .. Len(s) - 1 : r[i] = IF i < p THEN s[i] ELSE s[i + 1]
    BY <1>0, <2>1, <2>3, RemoveAtEffect, LenProperties
  <2> HIDE DEF r
  <2> DEFINE from(i) == IF i < p THEN i ELSE i + 1
  <2>9. \A i \in 1 .. Len(s) - 1 : from(i) \in 1 .. Len(s) /\ r[i] = s[from(i)]
    BY <1>0, <2>1, <2>4
  <2>10. \A i, j \in 1 .. Len(s) - 1 : i < j => from(i) < from(j)
    BY <1>0, <2>1
  <2>5. IsInjective(r)
    <3>1. \A i, j \in 1 .. Len(s) - 1 : i < j => r[i] # r[j]
      <4> HIDE DEF from
      <4> QED
        BY <1>0, <2>9, <2>10 DEF IsInjective
    <3> QED
      BY <1>0, <2>4, <3>1 DEF IsInjective
  <2>6. ASSUME NEW when, Sorted(s, when) PROVE Sorted(r, when)
    <3> HIDE DEF from
    <3> QED
      BY <1>0, <2>4, <2>6, <2>9, <2>10 DEF Sorted
  <2>7. ToSet(r) \subseteq ToSet(s) \ {t}
    BY <1>0, <2>1, <2>4 DEF ToSet, IsInjective
  <2>8. ASSUME NEW i \in 1 .. Len(s), s[i] # t PROVE s[i] \in ToSet(r)
    <3>1. \E j \in 1 .. Len(s) - 1 : r[j] = s[i]
      <4>1. CASE i < p
        BY <1>0, <2>1, <2>4, <4>1
      <4>2. CASE i > p
        <5>1. i - 1 \in 1 .. Len(s) - 1 /\ r[i - 1] = s[i]
          BY <1>0, <2>1, <2>4, <4>2
        <5> QED
          BY <5>1
      <4> QED
        BY <1>0, <2>1, <2>8, <4>1, <4>2
    <3> QED
      BY <2>4, <3>1 DEF ToSet
  <2> QED
    BY <1>0, <2>4, <2>5, <2>6, <2>7, <2>8 DEF ToSet, r
<1> QED
  BY <1>1, <1>2

(* What is inserted between what is not later and what is not earlier leaves    *)
(* the list sorted.                                                           *)
LEMMA InsertKeeps ==
  ASSUME NEW T, NEW s \in Seq(T), NEW t \in T, NEW when \in [T -> Int],
         IsInjective(s), t \notin ToSet(s), NEW p \in 1 .. Len(s) + 1
  PROVE  LET r == InsertAt(s, p, t)
         IN  /\ r \in Seq(T) /\ IsInjective(r) /\ ToSet(r) = ToSet(s) \cup {t}
             /\ Sorted(s, when)
                /\ (\A i \in 1 .. Len(s) : IF i < p THEN when[s[i]] <= when[t]
                                           ELSE when[t] <= when[s[i]])
                  => Sorted(r, when)
<1>0. Len(s) \in Nat /\ DOMAIN s = 1 .. Len(s) /\ \A i \in 1 .. Len(s) : s[i] \in T
  BY LenProperties, ElementOfSeq
<1> DEFINE r == InsertAt(s, p, t)  from(i) == IF i < p THEN i ELSE i - 1
<1>1. /\ r \in Seq(T) /\ DOMAIN r = 1 .. Len(s) + 1
      /\ \A i \in 1 .. Len(s) + 1 : r[i] = IF i < p THEN s[i] ELSE IF i = p THEN t ELSE s[i - 1]
  <2>1. /\ r \in Seq(T) /\ Len(r) = Len(s) + 1
        /\ \A i \in 1 .. Len(s) + 1 : r[i] = IF i < p THEN s[i] ELSE IF i = p THEN t ELSE s[i - 1]
    BY InsertAtEffect
  <2> HIDE DEF r
  <2> QED
    BY <2>1, LenProperties
<1> HIDE DEF r
<1>2. \A i \in 1 .. Len(s) : s[i] # t
  BY <1>0 DEF ToSet
<1>3. /\ r[p] = t /\ p \in 1 .. Len(s) + 1
      /\ \A i \in 1 .. Len(s) + 1 : i # p => from(i) \in 1 .. Len(s) /\ r[i] = s[from(i)]
  BY <1>0, <1>1
<1>4. \A i, j \in 1 .. Len(s) + 1 : i # p /\ j # p /\ i < j => from(i) < from(j)
  BY <1>0
<1>5. \A i \in 1 .. Len(s) : \E j \in 1 .. Len(s) + 1 : r[j] = s[i]
  <2> TAKE i \in 1 .. Len(s)
  <2>1. CASE i < p
    <3>1. i \in 1 .. Len(s) + 1 /\ r[i] = s[i]
      BY <1>0, <1>1, <2>1
    <3> QED
      BY <3>1
  <2>2. CASE ~(i < p)
    <3>1. i + 1 \in 1 .. Len(s) + 1 /\ r[i + 1] = s[i]
      BY <1>0, <1>1, <2>2
    <3> QED
      BY <3>1
  <2> QED
    BY <2>1, <2>2
<1>6. \A i \in 1 .. Len(s) + 1 : i # p => (i < p <=> from(i) < p)
  BY <1>0
<1> HIDE DEF from
<1>7. IsInjective(r)
  <2>1. \A i, j \in 1 .. Len(s) + 1 : i < j => r[i] # r[j]
    BY <1>0, <1>2, <1>3, <1>4 DEF IsInjective
  <2> QED
    BY <1>0, <1>1, <2>1 DEF IsInjective
<1>8. ToSet(r) = ToSet(s) \cup {t}
  <2>1. ToSet(r) \subseteq ToSet(s) \cup {t}
    BY <1>0, <1>1, <1>3 DEF ToSet
  <2>2. ToSet(s) \subseteq ToSet(r)
    <3> SUFFICES ASSUME NEW x \in ToSet(s) PROVE x \in ToSet(r)
      OBVIOUS
    <3>1. PICK i \in 1 .. Len(s) : x = s[i]
      BY <1>0 DEF ToSet
    <3>2. PICK j \in 1 .. Len(s) + 1 : r[j] = s[i]
      BY <1>5
    <3> QED
      BY <1>1, <3>1, <3>2 DEF ToSet
  <2>3. t \in ToSet(r)
    BY <1>1, <1>3 DEF ToSet
  <2> QED
    BY <2>1, <2>2, <2>3
<1>9. ASSUME Sorted(s, when),
             \A i \in 1 .. Len(s) : IF i < p THEN when[s[i]] <= when[t]
                                    ELSE when[t] <= when[s[i]]
      PROVE  Sorted(r, when)
  <2>1. \A i \in 1 .. Len(s) : when[s[i]] \in Int
    BY <1>0
  <2> SUFFICES ASSUME NEW i \in 1 .. Len(s) + 1, NEW j \in 1 .. Len(s) + 1, i < j
               PROVE  when[r[i]] <= when[r[j]]
    BY <1>1 DEF Sorted
  <2>2. CASE i # p /\ j # p
    BY <1>0, <1>3, <1>4, <1>9, <2>2 DEF Sorted
  <2>3. CASE i = p
    <3>1. from(j) \in 1 .. Len(s) /\ r[j] = s[from(j)] /\ ~(from(j) < p)
      BY <1>0, <1>3, <1>6, <2>3
    <3> QED
      BY <1>3, <1>9, <2>3, <3>1
  <2>4. CASE j = p
    <3>1. from(i) \in 1 .. Len(s) /\ r[i] = s[from(i)] /\ from(i) < p
      BY <1>0, <1>3, <1>6, <2>4
    <3> QED
      BY <1>3, <1>9, <2>4, <3>1
  <2> QED
    BY <2>2, <2>3, <2>4
<1> QED
  BY <1>1, <1>7, <1>8, <1>9 DEF r

(* What bisect makes of a part of the list.                                   *)
Halves(f, when, s, w) ==
  \A lo, hi \in 0 .. Len(s) :
    LET mid == (lo + hi) \div 2
    IN  /\ lo >= hi => f[<<lo, hi>>] = lo
        /\ lo < hi => f[<<lo, hi>>] = IF when[w] < when[s[mid + 1]]
                                     THEN f[<<lo, mid>>] ELSE f[<<mid + 1, hi>>]

(* The search is defined: a function with such values exists.                  *)
LEMMA BisectDefined ==
  ASSUME NEW when, NEW s, NEW w, Len(s) \in Nat
  PROVE  \E f : bisect(when, s, w) = f[<<0, Len(s)>>] /\ Halves(f, when, s, w)
<1> DEFINE N == Len(s)  D == (0 .. N) \X (0 .. N)
           Body(f, p) == LET mid == (p[1] + p[2]) \div 2
                         IN  IF p[1] >= p[2] THEN p[1]
                             ELSE IF when[w] < when[s[mid + 1]] THEN f[<<p[1], mid>>]
                             ELSE f[<<mid + 1, p[2]>>]
           Full(f) == f = [p \in D |-> Body(f, p)]
           at == CHOOSE f : Full(f)
           Partial(n, f) == \A p \in D : p[2] - p[1] <= n => f[p] = Body(f, p)
           T == {n \in Nat : ~\E f \in [D -> 0 .. N] : Partial(n, f)}
<1>1. bisect(when, s, w) = at[<<0, N>>]
  BY Zenon DEF bisect, at, Full, Body, D, N
<1>2. T = {}
  <2> SUFFICES ASSUME T # {} PROVE FALSE
    OBVIOUS
  <2>1. PICK n \in T : \A m \in T : n <= m
    <3>1. T \in SUBSET Nat
      OBVIOUS
    <3> HIDE DEF T
    <3> QED
      BY <3>1, Least
  <2>2. CASE n = 0
    <3> DEFINE f == [p \in D |-> p[1]]
    <3>1. f \in [D -> 0 .. N]
      OBVIOUS
    <3>2. Partial(0, f)
      OBVIOUS
    <3> QED
      BY <2>1, <2>2, <3>1, <3>2
  <2>3. CASE n # 0
    <3>1. PICK f \in [D -> 0 .. N] : Partial(n - 1, f)
      <4>1. n - 1 \in Nat /\ ~(n <= n - 1)
        BY <2>3
      <4>2. n - 1 \notin T
        <5> HIDE DEF T
        <5> QED
          BY <2>1, <4>1
      <4> HIDE DEF Partial
      <4> QED
        BY <4>1, <4>2
    <3> DEFINE g == [p \in D |-> IF p[2] - p[1] <= n - 1 THEN f[p] ELSE Body(f, p)]
    <3> HIDE DEF Body
    <3>2. ASSUME NEW p \in D, p[1] < p[2] PROVE LET mid == (p[1] + p[2]) \div 2
             IN mid \in p[1] .. p[2] - 1
      BY <3>2, Z3
    <3>3. \A p \in D : Body(f, p) \in 0 .. N
      BY <3>2 DEF Body
    <3>4. g \in [D -> 0 .. N]
      BY <3>3
    <3>5. ASSUME NEW p \in D, p[2] - p[1] <= n PROVE Body(g, p) = Body(f, p)
      <4>1. CASE p[1] < p[2]
        <5> DEFINE mid == (p[1] + p[2]) \div 2  l == <<p[1], mid>>  r == <<mid + 1, p[2]>>
        <5>1. mid \in p[1] .. p[2] - 1 /\ p[1] \in 0 .. N /\ p[2] \in 0 .. N
          BY <3>2, <4>1
        <5> HIDE DEF mid
        <5>2. l \in D /\ l[2] - l[1] <= n - 1 /\ r \in D /\ r[2] - r[1] <= n - 1
          BY <3>5, <5>1
        <5>3. g[l] = f[l] /\ g[r] = f[r]
          BY <5>2
        <5> HIDE DEF g
        <5> QED
          BY <5>3 DEF Body, mid
      <4>2. CASE ~(p[1] < p[2])
        <5>1. p[1] \in 0 .. N /\ p[2] \in 0 .. N
          OBVIOUS
        <5> HIDE DEF D, g
        <5>2. p[1] >= p[2]
          BY <4>2, <5>1
        <5> QED
          BY <5>2 DEF Body
      <4> QED
        BY <4>1, <4>2
    <3>6. Partial(n, g)
      BY <3>1, <3>5, <2>1
    <3> QED
      BY <2>1, <3>4, <3>6
  <2> QED
    BY <2>2, <2>3
<1>3. PICK f \in [D -> 0 .. N] : Partial(N, f)
  <2>1. N \notin T
    <3> HIDE DEF T
    <3> QED
      BY <1>2
  <2> HIDE DEF Partial
  <2> QED
    BY <2>1
<1>4. Full(f)
  BY <1>3
<1>5. Full(at)
  <2> HIDE DEF Full
  <2> QED
    BY <1>4
<1>6. \A p \in D : at[p] = Body(at, p)
  <2> HIDE DEF at, Body
  <2>1. at = [p \in D |-> Body(at, p)]
    BY <1>5
  <2> HIDE DEF D
  <2> QED
    BY <2>1, Zenon
<1>7. ASSUME NEW lo \in 0 .. N, NEW hi \in 0 .. N
      PROVE  LET mid == (lo + hi) \div 2
             IN  /\ lo >= hi => at[<<lo, hi>>] = lo
                 /\ lo < hi => at[<<lo, hi>>] = IF when[w] < when[s[mid + 1]] 
                                              THEN at[<<lo, mid>>] ELSE at[<<mid + 1, hi>>]
  <2> HIDE DEF at
  <2>1. <<lo, hi>> \in D /\ at[<<lo, hi>>] = Body(at, <<lo, hi>>)
    BY <1>6
  <2>2. ~(lo >= hi) <=> lo < hi
    OBVIOUS
  <2> QED
    BY <2>1, <2>2 
<1>8. Halves(at, when, s, w)
  <2> HIDE DEF at
  <2> QED
    BY <1>7 DEF Halves
<1> QED
  <2> HIDE DEF at
  <2> QED
    BY <1>1, <1>8

(* It finds a place in the list, behind what is not later and before what is    *)
(* later when the list is sorted.                                             *)
LEMMA BisectPlace ==
  ASSUME NEW when \in [Timer -> Int], NEW s \in Seq(Timer), NEW w \in Timer
  PROVE  /\ bisect(when, s, w) \in 0 .. Len(s)
         /\ Sorted(s, when) =>
              \A i \in 1 .. Len(s) : IF i <= bisect(when, s, w) THEN when[s[i]] <= when[w]
                                     ELSE when[w] < when[s[i]]
<1>0. Len(s) \in Nat /\ DOMAIN s = 1 .. Len(s) /\ when[w] \in Int
      /\ \A i \in 1 .. Len(s) : s[i] \in Timer /\ when[s[i]] \in Int
  BY LenProperties, ElementOfSeq
<1> DEFINE N == Len(s)
<1>1. PICK f : bisect(when, s, w) = f[<<0, N>>] /\ Halves(f, when, s, w)
  BY <1>0, BisectDefined
<1> DEFINE Before(r) == \A i \in 1 .. N : i <= r => when[s[i]] <= when[w]
           Behind(r) == \A i \in 1 .. N : r < i => when[w] < when[s[i]]
           Found(lo, hi) == LET r == f[<<lo, hi>>]
                            IN  /\ r \in lo .. hi
                                /\ Sorted(s, when) /\ Before(lo) /\ Behind(hi)
                                     => Before(r) /\ Behind(r)
           T == {n \in Nat : \E lo, hi \in 0 .. N : lo <= hi /\ hi - lo = n /\ ~Found(lo, hi)}
<1>2. T = {}
  <2> SUFFICES ASSUME T # {} PROVE FALSE
    OBVIOUS
  <2>1. PICK n \in T : \A m \in T : n <= m
    <3>1. T \in SUBSET Nat
      OBVIOUS
    <3> HIDE DEF T
    <3> QED
      BY <3>1, Least
  <2> HIDE DEF Found, Before, Behind
  <2>2. PICK lo \in 0 .. N, hi \in 0 .. N : lo <= hi /\ hi - lo = n /\ ~Found(lo, hi)
    OBVIOUS
  <2>3. \A l, h \in 0 .. N : l <= h /\ h - l < hi - lo => Found(l, h)
    <3> SUFFICES ASSUME NEW l \in 0 .. N, NEW h \in 0 .. N, l <= h, h - l < n, ~Found(l, h)
                 PROVE  FALSE
      BY <2>2
    <3>1. h - l \in T /\ ~(n <= h - l)
      OBVIOUS
    <3> QED
      BY <2>1, <3>1
  <2> HIDE DEF T
  <2>4. CASE lo >= hi
    <3>1. f[<<lo, hi>>] = lo
      BY <1>1, <2>4, Zenon DEF Halves
    <3>2. lo = hi
      BY <2>2, <2>4
    <3> QED
      BY <2>2, <3>1, <3>2 DEF Found
  <2>5. CASE lo < hi
    <3>1. PICK mid \in lo .. hi - 1 : mid = (lo + hi) \div 2
      BY <2>5, Z3
    <3>2. f[<<lo, hi>>] = IF when[w] < when[s[mid + 1]] THEN f[<<lo, mid>>]
                          ELSE f[<<mid + 1, hi>>]
      BY <1>1, <2>5, <3>1 DEF Halves
    <3>3. mid \in 0 .. N /\ mid + 1 \in 1 .. N
      BY <3>1
    <3>4. CASE when[w] < when[s[mid + 1]]
      <4>1. Found(lo, mid)
        BY <2>3, <3>1, <3>3
      <4>2. ASSUME Sorted(s, when) PROVE Behind(mid)
        <5>1. \A i \in 1 .. N : mid + 1 < i => when[s[mid + 1]] <= when[s[i]]
          BY <1>0, <3>3, <4>2 DEF Sorted
        <5>2. ASSUME NEW i \in 1 .. N, mid < i PROVE when[w] < when[s[i]]
          <6>1. CASE i = mid + 1
            BY <3>4, <6>1
          <6>2. CASE i # mid + 1
            <7>1. when[s[mid + 1]] <= when[s[i]]
              BY <3>3, <5>1, <5>2, <6>2
            <7>2. when[w] \in Int /\ when[s[i]] \in Int /\ when[s[mid + 1]] \in Int
              BY <1>0, <3>3
            <7> QED
              BY <3>4, <7>1, <7>2
          <6> QED
            BY <6>1, <6>2
        <5> QED
          BY <5>2 DEF Behind
      <4>3. PICK r \in lo .. mid : /\ r = f[<<lo, mid>>]
                                   /\ Sorted(s, when) /\ Before(lo) /\ Behind(mid)
                                        => Before(r) /\ Behind(r)
        BY <4>1 DEF Found
      <4>4. f[<<lo, hi>>] = r
        BY <3>2, <3>4, <4>3, Zenon
      <4>5. r \in lo .. hi
        BY <3>3
      <4>6. Sorted(s, when) /\ Before(lo) /\ Behind(hi) => Before(r) /\ Behind(r)
        BY <4>2, <4>3, Zenon
      <4>7. Found(lo, hi)
        BY <4>4, <4>5, <4>6, Zenon DEF Found
      <4> QED
        BY <2>2, <4>7
    <3>5. CASE ~(when[w] < when[s[mid + 1]])
      <4>1. Found(mid + 1, hi)
        BY <2>3, <3>1, <3>3
      <4>2. ASSUME Sorted(s, when) PROVE Before(mid + 1)
        <5>1. \A i \in 1 .. N : i < mid + 1 => when[s[i]] <= when[s[mid + 1]]
          BY <1>0, <3>3, <4>2 DEF Sorted
        <5>2. when[s[mid + 1]] <= when[w] /\ mid + 1 \in Int
          BY <1>0, <3>3, <3>5
        <5>3. ASSUME NEW i \in 1 .. N, i <= mid + 1 PROVE when[s[i]] <= when[w]
          <6>1. CASE i = mid + 1
            BY <5>2, <6>1
          <6>2. CASE i < mid + 1
            <7>1. when[s[i]] <= when[s[mid + 1]] /\ when[s[i]] \in Int /\ when[s[mid + 1]] \in Int
              BY <1>0, <3>3, <5>1, <6>2
            <7> QED
              BY <1>0, <5>2, <7>1
          <6> QED
            BY <1>0, <3>3, <5>3, <6>1, <6>2
        <5> QED
          BY <5>3 DEF Before
      <4>3. PICK r \in mid + 1 .. hi : /\ r = f[<<mid + 1, hi>>]
                                       /\ Sorted(s, when) /\ Before(mid + 1) /\ Behind(hi)
                                            => Before(r) /\ Behind(r)
        BY <4>1 DEF Found
      <4>4. f[<<lo, hi>>] = r
        BY <3>2, <3>5, <4>3, Zenon
      <4>5. r \in lo .. hi
        BY <3>3
      <4>6. Sorted(s, when) /\ Before(lo) /\ Behind(hi) => Before(r) /\ Behind(r)
        BY <4>2, <4>3, Zenon
      <4>7. Found(lo, hi)
        BY <4>4, <4>5, <4>6, Zenon DEF Found
      <4> QED
        BY <2>2, <4>7
    <3> QED
      BY <3>4, <3>5
  <2> QED
    BY <2>4, <2>5
<1>3. Found(0, N)
  <2> SUFFICES ASSUME ~Found(0, N) PROVE FALSE
    OBVIOUS
  <2> HIDE DEF Found
  <2>1. N \in T
    BY <1>0
  <2> HIDE DEF T
  <2> QED
    BY <1>2, <2>1
<1>4. Before(0) /\ Behind(N)
  BY <1>0
<1>5. PICK r \in 0 .. N : r = f[<<0, N>>] /\ (Sorted(s, when) => Before(r) /\ Behind(r))
  <2> HIDE DEF Before, Behind
  <2> QED
    BY <1>3, <1>4
<1>6. r = bisect(when, s, w)
  BY <1>1, <1>5
<1>7. ASSUME Sorted(s, when), NEW i \in 1 .. N
      PROVE  IF i <= r THEN when[s[i]] <= when[w] ELSE when[w] < when[s[i]]
  <2>1. Before(r) /\ Behind(r)
    BY <1>5, <1>7
  <2>2. i <= r => when[s[i]] <= when[w]
    BY <2>1
  <2>3. ~(i <= r) => when[w] < when[s[i]]
    <3>1. ~(i <= r) => r < i
      BY <1>0
    <3> QED
      BY <2>1, <3>1
  <2> QED
    BY <2>2, <2>3
<1> QED
  BY <1>5, <1>6, <1>7

(* The order of a list is that of what is in it.                               *)
LEMMA SameOrder ==
  ASSUME NEW s \in Seq(Timer), NEW when1, NEW when2,
         \A v \in ToSet(s) : when1[v] = when2[v], Sorted(s, when1)
  PROVE  Sorted(s, when2)
<1>1. \A i \in DOMAIN s : s[i] \in ToSet(s)
  BY DEF ToSet
<1> QED
  BY <1>1 DEF Sorted

(* The times of activation are numbers.                                       *)
LEMMA ActivationType ==
  ASSUME NEW ent \in [Timer -> Entry]
  PROVE  Activation(ent) \in [Timer -> Int]
<1>1. \A w \in Timer : getNextActivation(ent[w]) \in Int
  BY DEF Entry, getNextActivation
<1> QED
  BY <1>1 DEF Activation

(* insort puts a timer into the list, and where it belongs.                    *)
LEMMA InsortKeeps ==
  ASSUME NEW ent \in [Timer -> Entry], NEW s \in Seq(Timer), NEW w \in Timer,
         IsInjective(s), w \notin ToSet(s)
  PROVE  LET r == insort(ent, s, w)
         IN  /\ r \in Seq(Timer) /\ IsInjective(r) /\ ToSet(r) = ToSet(s) \cup {w}
             /\ Sorted(s, Activation(ent)) => Sorted(r, Activation(ent))
<1>0. Len(s) \in Nat /\ \A i \in 1 .. Len(s) : s[i] \in Timer
  BY LenProperties, ElementOfSeq
<1>1. PICK when \in [Timer -> Int] : when = Activation(ent)
  BY ActivationType
<1>2. PICK b \in 0 .. Len(s) : b = bisect(when, s, w)
  BY BisectPlace
<1>3. PICK p \in 1 .. Len(s) + 1 : p = b + 1
  BY <1>0, <1>2
<1>4. insort(ent, s, w) = InsertAt(s, p, w)
  BY <1>1, <1>2, <1>3 DEF insort
<1>5. /\ InsertAt(s, p, w) \in Seq(Timer) /\ IsInjective(InsertAt(s, p, w))
      /\ ToSet(InsertAt(s, p, w)) = ToSet(s) \cup {w}
  BY InsertKeeps
<1>6. ASSUME Sorted(s, when) PROVE Sorted(InsertAt(s, p, w), when)
  <2>1. \A i \in 1 .. Len(s) : IF i <= b THEN when[s[i]] <= when[w] ELSE when[w] < when[s[i]]
    BY <1>2, <1>6, BisectPlace
  <2>2. \A i \in 1 .. Len(s) : IF i < p THEN when[s[i]] <= when[w] ELSE when[w] <= when[s[i]]
    BY <1>0, <1>3, <2>1
  <2> QED
    BY <1>6, <2>2, InsertKeeps
<1> QED
  BY <1>1, <1>4, <1>5, <1>6

-----------------------------------------------------------------------------
(* Division, and the days a timer repeats on.                                  *)
LEMMA DivMod ==
  ASSUME NEW d \in Nat \ {0}, NEW a \in Int
  PROVE  a \div d \in Int /\ a % d \in 0 .. d - 1 /\ a = (a \div d) * d + (a % d)
BY Z3

(* Quotient and remainder are the only such numbers.                          *)
LEMMA DivUnique ==
  ASSUME NEW d \in Nat \ {0}, NEW q \in Int, NEW r \in 0 .. d - 1
  PROVE  (q * d + r) \div d = q /\ (q * d + r) % d = r
BY Z3

(* Adding whole multiples leaves the remainder alone.                         *)
LEMMA DivAdd ==
  ASSUME NEW d \in Nat \ {0}, NEW a \in Int, NEW k \in Int
  PROVE  (a + k * d) \div d = a \div d + k
<1>0. PICK q \in Int, r \in 0 .. d - 1 : q = a \div d /\ a = q * d + r
  BY DivMod
<1>1. k * d \in Int /\ q * d \in Int /\ q + k \in Int /\ r \in Int
  OBVIOUS
<1>2. (q + k) * d = q * d + k * d
  BY <1>0
<1>3. a + k * d = (q + k) * d + r
  BY <1>0, <1>1, <1>2
<1> QED
  BY <1>0, <1>1, <1>3, DivUnique

(* In any week there is a day whose number has a given remainder.              *)
LEMMA DayOfWeek ==
  ASSUME NEW q \in Int, NEW m \in Nat, NEW r \in 0 .. Week - 1
  PROVE  \E k \in m + 1 .. m + Week : (q + k) % Week = r
<1>0. Week \in Nat \ {0}
  BY TimerAssumption
<1> DEFINE a == q + m + 1
<1>1. PICK c \in Int, t \in 0 .. Week - 1 : a = c * Week + t
  <2>1. a \in Int
    BY <1>0
  <2> HIDE DEF a
  <2>2. /\ a \div Week \in Int /\ a % Week \in 0 .. Week - 1
        /\ a = (a \div Week) * Week + (a % Week)
    BY <1>0, <2>1, DivMod
  <2> QED
    BY <2>2
<1>2. CASE t <= r
  <2>1. PICK k \in m + 1 .. m + Week : k = m + 1 + (r - t)
    BY <1>0, <1>2
  <2>2. q + k = c * Week + r /\ c * Week \in Int
    BY <1>0, <1>1, <2>1
  <2> QED
    BY <1>0, <2>2, DivUnique
<1>3. CASE t > r
  <2>1. PICK k \in m + 1 .. m + Week : k = m + 1 + (Week - t + r)
    BY <1>0, <1>3
  <2>2. q + k = c * Week + Week + r /\ (c + 1) * Week = c * Week + Week /\ c * Week \in Int
    BY <1>0, <1>1, <2>1
  <2>3. q + k = (c + 1) * Week + r /\ c + 1 \in Int
    BY <1>0, <2>2
  <2> QED
    BY <1>0, <2>3, DivUnique
<1> QED
  BY <1>0, <1>2, <1>3

(* A timer that repeats has a next occurrence, whose edge is yet to come.       *)
LEMMA NextOccurrence ==
  ASSUME now \in Nat, NEW e \in Entry, e.repeated # {}, NEW edge \in Nat
  PROVE  DaysAhead(e, edge) \in Nat /\ edge + DaysAhead(e, edge) * Day > now
<1>0. Week \in Nat \ {0} /\ Day \in Nat \ {0} /\ e.begin \in Nat
      /\ e.repeated \in SUBSET (0 .. Week - 1)
  BY TimerAssumption DEF Entry
<1> DEFINE Fits(k) == /\ ((e.begin + k * Day) \div Day) % Week \in e.repeated
                      /\ edge + k * Day > now
           D == {k \in 0 .. now + Week : Fits(k)}
<1>1. PICK q \in Int : q = e.begin \div Day
  <2>1. e.begin \in Int /\ Day \in Nat \ {0}
    BY <1>0
  <2>2. e.begin \div Day \in Int
    BY <2>1, DivMod
  <2> QED
    BY <2>2
<1>2. PICK r \in e.repeated : r \in 0 .. Week - 1
  BY <1>0
<1>3. PICK k \in now + 1 .. now + Week : (q + k) % Week = r
  BY <1>2, DayOfWeek
<1>4. k \in 0 .. now + Week /\ k \in Nat
  BY <1>0
<1>5. (e.begin + k * Day) \div Day = q + k
  BY <1>0, <1>1, <1>4, DivAdd
<1>6. edge + k * Day > now
  <2>1. k * Day >= k /\ k * Day \in Nat
    BY <1>0, <1>4, Z3
  <2> QED
    BY <1>4, <2>1
<1>7. k \in D
  BY <1>2, <1>3, <1>4, <1>5, <1>6
<1>8. PICK n \in D : \A m \in D : n <= m
  <2>1. D \in SUBSET Nat
    <3>1. 0 .. now + Week \in SUBSET Nat
      BY <1>0
    <3> HIDE DEF Fits
    <3> QED
      BY <3>1
  <2>2. D # {}
    <3> HIDE DEF D
    <3> QED
      BY <1>7
  <2> HIDE DEF D
  <2> QED
    BY <2>1, <2>2, Least
<1>9. DaysAhead(e, edge) \in D
  <2>1. DaysAhead(e, edge) = Min(D)
    BY Zenon DEF DaysAhead
  <2>2. Min(D) \in D
    <3> HIDE DEF D
    <3> QED
      BY <1>8 DEF Min
  <2> QED
    BY <2>1, <2>2
<1> QED
  BY <1>0, <1>9

-----------------------------------------------------------------------------
(* The entries: what the operators on one of them leave alone.                *)
LEMMA TimeChangedEntry ==
  ASSUME NEW e \in Entry
  PROVE  LET c == EntryTimeChanged(e)
         IN  /\ c \in Entry /\ c.state = e.state /\ c.begin = e.begin /\ c.end = e.end
             /\ c.cancelled = e.cancelled /\ c.disabled = e.disabled
             /\ c.repeated = e.repeated /\ c.record_service = e.record_service
             /\ c.start_prepare = e.begin - PrepareTime
<1> DEFINE c == EntryTimeChanged(e)
<1>1. e.begin - PrepareTime \in Int /\ 0 \in 0 .. MaxBackoff
  BY TimerAssumption DEF Entry
<1>2. c \in Entry
  BY <1>1 DEF EntryTimeChanged, Entry
<1> QED
  BY <1>2 DEF EntryTimeChanged, Entry

(* processRepeated moves begin and end and nothing else that counts.          *)
LEMMA RepeatedEntry ==
  ASSUME now \in Nat, NEW e \in Entry, NEW f \in BOOLEAN
  PROVE  LET p == processRepeated(e, f)
         IN  /\ p \in Entry /\ p.state = e.state /\ p.cancelled = e.cancelled
             /\ p.disabled = e.disabled /\ p.repeated = e.repeated
             /\ p.record_service = e.record_service
             /\ e.repeated = {} => p = e
             /\ e.repeated # {} /\ f => p.end > now
<1>0. e.begin \in Nat /\ e.end \in Nat /\ Day \in Nat \ {0}
  BY TimerAssumption DEF Entry
<1>1. CASE e.repeated = {}
  BY <1>1 DEF processRepeated
<1>2. CASE e.repeated # {}
  <2>1. PICK edge \in Nat : edge = IF f THEN e.end ELSE e.begin
    BY <1>0
  <2>2. PICK k \in Nat : k = DaysAhead(e, edge) /\ edge + k * Day > now
    BY <1>2, NextOccurrence
  <2>3. PICK shift \in Nat : shift = k * Day
    BY <1>0
  <2> DEFINE b == e.begin + shift  n == e.end + shift + (IF e.begin = e.end THEN 1 ELSE 0)
             m == [e EXCEPT !.begin = b, !.end = n]
  <2>4. b \in Nat /\ n \in Nat /\ (f => n > now)
    BY <1>0, <2>1, <2>2, <2>3
  <2>5. /\ m \in Entry /\ m.state = e.state /\ m.cancelled = e.cancelled
        /\ m.disabled = e.disabled /\ m.repeated = e.repeated
        /\ m.record_service = e.record_service /\ m.end = n
    <3> HIDE DEF b, n
    <3> QED
      BY <2>4 DEF Entry
  <2>6. processRepeated(e, f) = EntryTimeChanged(m)
    BY <1>2, <2>1, <2>2, <2>3 DEF processRepeated
  <2> HIDE DEF m, n
  <2> QED
    BY <1>2, <2>4, <2>5, <2>6, TimeChangedEntry
<1> QED
  BY <1>1, <1>2

(* Where an activation can leave an entry.                                    *)
LEMMA ActivateEntry ==
  ASSUME now \in Nat, NEW w \in Timer, NEW e \in Entry, HasService(w, e), e.state < Ended,
         ~shouldSkip(e), NEW o \in activate(w, e)
  PROVE  LET n == IF o.ok THEN [o.entry EXCEPT !.state = @ + 1] ELSE o.entry
         IN  /\ n \in Entry /\ HasService(w, n)
             /\ n.repeated = e.repeated /\ n.disabled = e.disabled
             /\ n.cancelled = e.cancelled /\ n.end = e.end
             /\ e.state = Prepared /\ e.cancelled => n.state = Running
             /\ e.state = Running => n.state = Ended
<1>0. e.state \in {Waiting, Prepared, Running}
  BY DEF Entry, Waiting, Prepared, Running, Ended
<1> DEFINE b == do_backoff(e)
<1>1. /\ b \in Entry /\ b.backoff \in Nat /\ b.state = e.state /\ b.repeated = e.repeated
      /\ b.disabled = e.disabled /\ b.cancelled = e.cancelled /\ b.end = e.end
      /\ b.record_service = e.record_service
  <2>1. 0 \in 0 .. MaxBackoff /\ Backoff \in 0 .. MaxBackoff /\ MaxBackoff \in 0 .. MaxBackoff
        /\ MaxBackoff \in Nat /\ e.backoff \in 0 .. MaxBackoff
    BY TimerAssumption DEF Entry
  <2> DEFINE k == IF e.backoff = 0 THEN Backoff
                  ELSE IF 2 * e.backoff > MaxBackoff THEN MaxBackoff ELSE 2 * e.backoff
  <2>2. k \in 0 .. MaxBackoff /\ k \in Nat
    BY <2>1
  <2>3. b = [e EXCEPT !.backoff = k]
    BY DEF do_backoff
  <2> HIDE DEF k, b
  <2> QED
    BY <2>2, <2>3 DEF Entry
<1> HIDE DEF b
<1> DEFINE n == IF o.ok THEN [o.entry EXCEPT !.state = @ + 1] ELSE o.entry
           Right(m) == /\ m \in Entry /\ HasService(w, m)
                       /\ m.repeated = e.repeated /\ m.disabled = e.disabled
                       /\ m.cancelled = e.cancelled /\ m.end = e.end
                       /\ e.state = Prepared /\ e.cancelled => m.state = Running
                       /\ e.state = Running => m.state = Ended
<1> SUFFICES Right(n)
  OBVIOUS
<1>3. PICK k \in Waiting .. Ended : k = e.state + 1
  BY <1>0 DEF Waiting, Prepared, Running, Ended
<1>4. 0 \in 0 .. MaxBackoff /\ {"none", "prepared", "recording"} \subseteq Service
  BY TimerAssumption DEF Service
<1>5. CASE e.state = Waiting
  <2>1. PICK t \in tryPrepare(w, e) :
          o = IF t.ok THEN [t EXCEPT !.entry.backoff = 0]
              ELSE [t EXCEPT !.entry.first_try_prepare = FALSE]
    BY <1>5 DEF activate
  <2>2. CASE t = [entry |-> e, ok |-> TRUE] /\ w \in ZapOnly
    <3>1. o.ok = TRUE /\ o.entry = [e EXCEPT !.backoff = 0]
      BY <2>1, <2>2
    <3>2. n = [e EXCEPT !.backoff = 0, !.state = k]
      BY <1>3, <3>1 DEF Entry
    <3> HIDE DEF n
    <3>3. n \in Entry
      BY <1>4, <3>2 DEF Entry
    <3> QED
      BY <1>3, <1>5, <2>2, <3>2, <3>3 DEF Entry, HasService, Waiting, Prepared, Running
  <2>3. CASE t = [entry |-> [e EXCEPT !.record_service = "prepared"], ok |-> TRUE] /\ w \notin ZapOnly
    <3>1. o.ok = TRUE /\ o.entry = [e EXCEPT !.record_service = "prepared", !.backoff = 0]
      BY <2>1, <2>3
    <3>2. n = [e EXCEPT !.record_service = "prepared", !.backoff = 0, !.state = k]
      BY <1>3, <3>1 DEF Entry
    <3> HIDE DEF n
    <3>3. n \in Entry
      BY <1>4, <3>2 DEF Entry
    <3> QED
      BY <1>3, <1>5, <2>3, <3>2, <3>3 DEF Entry, HasService, Waiting, Prepared, Running
  <2>4. CASE t = [entry |-> e, ok |-> FALSE]
    <3>1. n = [e EXCEPT !.first_try_prepare = FALSE]
      BY <2>1, <2>4
    <3> HIDE DEF n
    <3>2. n \in Entry
      BY <3>1 DEF Entry
    <3> QED
      BY <1>5, <3>1, <3>2 DEF Entry, HasService, Waiting, Prepared, Running
  <2>5. CASE t = [entry |-> [b EXCEPT !.start_prepare = now + b.backoff], ok |-> FALSE]
    <3>1. n = [b EXCEPT !.start_prepare = now + b.backoff, !.first_try_prepare = FALSE]
      BY <2>1, <2>5
    <3>2. now + b.backoff \in Int
      BY <1>1
    <3> HIDE DEF n
    <3>3. n \in Entry
      BY <1>1, <3>1, <3>2 DEF Entry
    <3> QED
      BY <1>1, <1>5, <3>1, <3>3 DEF Entry, HasService, Waiting, Prepared, Running
  <2> QED
    BY <2>2, <2>3, <2>4, <2>5 DEF tryPrepare, b
<1>6. CASE e.state = Prepared
  <2>1. o \in startRecording(w, e)
    BY <1>6 DEF activate, Waiting, Prepared
  <2>2. CASE o = [entry |-> e, ok |-> TRUE] /\ (e.cancelled \/ w \in ZapOnly)
    <3>1. n = [e EXCEPT !.state = k]
      BY <1>3, <2>2
    <3> HIDE DEF n
    <3>2. n \in Entry
      BY <3>1 DEF Entry
    <3> QED
      BY <1>3, <1>6, <2>2, <3>1, <3>2 DEF Entry, HasService, Waiting, Prepared, Running
  <2>3. CASE ~e.cancelled /\ w \notin ZapOnly
             /\ o = [entry |-> [e EXCEPT !.record_service = "recording"], ok |-> TRUE]
    <3>1. n = [e EXCEPT !.record_service = "recording", !.state = k]
      BY <1>3, <2>3 DEF Entry
    <3> HIDE DEF n
    <3>2. n \in Entry
      BY <1>4, <3>1 DEF Entry
    <3> QED
      BY <1>3, <1>6, <2>3, <3>1, <3>2 DEF Entry, HasService, Waiting, Prepared, Running
  <2>4. CASE ~e.cancelled /\ w \notin ZapOnly
             /\ o = [entry |-> [b EXCEPT !.begin = now + b.backoff], ok |-> FALSE]
    <3>1. n = [b EXCEPT !.begin = now + b.backoff]
      BY <2>4
    <3>2. now + b.backoff \in Nat
      BY <1>1
    <3> HIDE DEF n
    <3>3. n \in Entry
      BY <1>1, <3>1, <3>2 DEF Entry
    <3> QED
      BY <1>1, <1>6, <2>4, <3>1, <3>3 DEF Entry, HasService, Waiting, Prepared, Running
  <2> QED
    BY <2>1, <2>2, <2>3, <2>4 DEF startRecording, b
<1>7. CASE e.state = Running
  <2>1. o \in stopRecording(w, e)
    BY <1>7 DEF activate, Waiting, Prepared, Running
  <2>2. CASE w \in ZapOnly
    <3>1. n = [e EXCEPT !.state = k]
      BY <1>3, <2>1, <2>2 DEF stopRecording
    <3> HIDE DEF n
    <3>2. n \in Entry
      BY <3>1 DEF Entry
    <3> QED
      BY <1>3, <1>7, <2>2, <3>1, <3>2 DEF Entry, HasService, Waiting, Prepared, Running, Ended
  <2>3. CASE w \notin ZapOnly
    <3>1. o = [entry |-> [e EXCEPT !.record_service = "none"], ok |-> TRUE]
      BY <2>1, <2>3 DEF stopRecording
    <3>2. n = [e EXCEPT !.record_service = "none", !.state = k]
      BY <1>3, <3>1 DEF Entry
    <3> HIDE DEF n
    <3>3. n \in Entry
      BY <1>4, <3>2 DEF Entry
    <3> QED
      BY <1>3, <1>7, <2>3, <3>2, <3>3 DEF Entry, HasService, Waiting, Prepared, Running, Ended
  <2> QED
    BY <2>2, <2>3
<1> QED
  BY <1>0, <1>5, <1>6, <1>7

-----------------------------------------------------------------------------
(* The lists.  c is the timer a conflict screen shows, x what is out for        *)
(* re-evaluation.                                                             *)

Fits(s, x, c, v) ==
  /\ s.done[v] + x[v] <= 1
  /\ v \in ToSet(s.list) => s.done[v] + x[v] = 0 /\ s.entry[v].state < Ended
  /\ s.done[v] + x[v] > 0 => s.entry[v].state = Ended
  /\ \/ v \in ToSet(s.list) \/ s.done[v] + x[v] > 0
     \/ v # c /\ s.entry[v] = Blank
     \/ v = c /\ s.entry[v].state = Ended
  /\ HasService(v, s.entry[v])

Consistent(s, x, c) == IsInjective(s.list) /\ \A v \in Timer : Fits(s, x, c, v)

(* The same but for w, which is in no list.                                    *)
InHand(s, x, c, w) ==
  /\ IsInjective(s.list) /\ w \notin ToSet(s.list) /\ s.done[w] = 0 /\ x[w] = 0
  /\ HasService(w, s.entry[w])
  /\ \A v \in Timer \ {w} : Fits(s, x, c, v)

(* Nothing happens to other timers.                                            *)
Others(s, t, w) ==
  \A v \in Timer \ {w} : /\ t.entry[v] = s.entry[v] /\ t.done[v] = s.done[v]
                         /\ v \in ToSet(t.list) <=> v \in ToSet(s.list)

InOrder(s) == Sorted(s.list, Activation(s.entry))

(* What is true of the other timers stays true of them.                       *)
LEMMA OthersFit ==
  ASSUME NEW s, NEW t, NEW x, NEW c, NEW w, Others(s, t, w),
         \A v \in Timer \ {w} : Fits(s, x, c, v)
  PROVE  \A v \in Timer \ {w} : Fits(t, x, c, v)
<1> SUFFICES ASSUME NEW v \in Timer \ {w} PROVE Fits(t, x, c, v)
  OBVIOUS
<1>1. t.entry[v] = s.entry[v] /\ t.done[v] = s.done[v]
      /\ (v \in ToSet(t.list) <=> v \in ToSet(s.list))
  BY DEF Others
<1>2. Fits(s, x, c, v)
  OBVIOUS
<1> QED
  BY <1>1, <1>2 DEF Fits

(* What a change of the entry of w does to a list without w.                    *)
LEMMA OrderElsewhere ==
  ASSUME NEW s \in Seq(Timer), NEW w \in Timer, w \notin ToSet(s),
         NEW ent1 \in [Timer -> Entry], NEW ent2 \in [Timer -> Entry],
         \A v \in Timer \ {w} : ent1[v] = ent2[v], Sorted(s, Activation(ent1))
  PROVE  Sorted(s, Activation(ent2))
<1>1. PICK a1 \in [Timer -> Int] : a1 = Activation(ent1)
  BY ActivationType
<1>2. PICK a2 \in [Timer -> Int] : a2 = Activation(ent2)
  BY ActivationType
<1>3. \A v \in ToSet(s) : v \in Timer \ {w}
  <2>1. DOMAIN s = 1 .. Len(s) /\ \A i \in 1 .. Len(s) : s[i] \in Timer
    BY ElementOfSeq
  <2> QED
    BY <2>1 DEF ToSet
<1>4. \A v \in Timer \ {w} : a1[v] = a2[v]
  BY <1>1, <1>2 DEF Activation
<1> QED
  BY <1>1, <1>2, <1>3, <1>4, SameOrder

(* addTimerEntry puts a timer in hand into one of the lists.                    *)
IsOver(e) == shouldSkip(e) \/ e.state = Ended \/ (e.state = Waiting /\ e.disabled)

(* It is then in just one of them, and over if it is not to run.              *)
LEMMA AddEffect ==
  ASSUME now \in Nat, NEW s \in Lists, NEW x \in [Timer -> Nat], NEW c, NEW w \in Timer,
         InHand(s, x, c, w)
  PROVE  LET a == addTimerEntry(s, w)
             p == processRepeated(s.entry[w], TRUE)
         IN  /\ a \in Lists /\ Consistent(a, x, c) /\ Others(s, a, w)
             /\ IsOver(p) => a.entry[w] = [p EXCEPT !.state = Ended] /\ w \notin ToSet(a.list)
                             /\ a.done[w] = 1
             /\ ~IsOver(p) => a.entry[w] = p /\ w \in ToSet(a.list) /\ a.done[w] = 0
             /\ InOrder(s) => InOrder(a)
<1> DEFINE a == addTimerEntry(s, w)
<1>1. s.entry \in [Timer -> Entry] /\ s.list \in Seq(Timer) /\ s.done \in [Timer -> Nat]
      /\ s.entry[w] \in Entry
  BY DEF Lists
<1>2. PICK p \in Entry :
        /\ p = processRepeated(s.entry[w], TRUE)
        /\ p.state = s.entry[w].state /\ p.record_service = s.entry[w].record_service
  BY <1>1, RepeatedEntry
<1>3. HasService(w, p)
  BY <1>2 DEF InHand, HasService
<1>4. CASE IsOver(p)
  <2> DEFINE e == [p EXCEPT !.state = Ended]
  <2>1. e \in Entry /\ e.state = Ended /\ HasService(w, e)
    <3>1. Ended \in Waiting .. Ended
      BY DEF Waiting, Ended
    <3>2. p.record_service = "none"
      BY <1>3, <1>4 DEF IsOver, shouldSkip, HasService, Waiting, Prepared, Running, Ended
    <3>3. e \in Entry /\ e.state = Ended /\ e.record_service = "none"
      BY <3>1, <3>2 DEF Entry
    <3> QED
      BY <3>3 DEF HasService, Prepared, Running, Ended
  <2> HIDE DEF e
  <2>2. a = [entry |-> [s.entry EXCEPT ![w] = e], list |-> s.list,
             done |-> [s.done EXCEPT ![w] = @ + 1]]
    BY <1>2, <1>4 DEF addTimerEntry, IsOver, Add, e, Lists
  <2>3. a \in Lists /\ a.entry[w] = e /\ a.done[w] = 1 /\ a.list = s.list
    BY <1>1, <2>1, <2>2 DEF Lists, InHand
  <2>4. Others(s, a, w)
    BY <1>1, <2>2 DEF Others
  <2> HIDE DEF a
  <2>5. Fits(a, x, c, w)
    <3>1. a.done[w] + x[w] = 1 /\ w \notin ToSet(a.list) /\ a.entry[w].state = Ended
          /\ HasService(w, a.entry[w])
      BY <2>1, <2>3 DEF InHand
    <3> QED
      BY <3>1 DEF Fits
  <2>6. Consistent(a, x, c)
    BY <2>3, <2>4, <2>5, OthersFit DEF InHand, Consistent
  <2>7. InOrder(s) => InOrder(a)
    <3>1. a.entry \in [Timer -> Entry] /\ \A v \in Timer \ {w} : s.entry[v] = a.entry[v]
      BY <2>3, <2>4 DEF Lists, Others
    <3>2. w \notin ToSet(s.list)
      BY DEF InHand
    <3> QED
      BY <1>1, <2>3, <3>1, <3>2, OrderElsewhere DEF InOrder
  <2> QED
    BY <1>2, <1>4, <2>3, <2>4, <2>6, <2>7 DEF a, e, InHand
<1>5. CASE ~IsOver(p)
  <2>0. PICK ent \in [Timer -> Entry] : ent = [s.entry EXCEPT ![w] = p]
    BY <1>1
  <2>1. a = [entry |-> ent, list |-> insort(ent, s.list, w), done |-> s.done]
    BY <1>2, <1>5, <2>0 DEF addTimerEntry, IsOver, Lists
  <2>2. PICK l \in Seq(Timer) :
          /\ l = insort(ent, s.list, w) /\ IsInjective(l) /\ ToSet(l) = ToSet(s.list) \cup {w}
          /\ Sorted(s.list, Activation(ent)) => Sorted(l, Activation(ent))
    BY <1>1, InsortKeeps DEF InHand
  <2>3. a \in Lists /\ a.entry[w] = p /\ a.done[w] = 0 /\ a.list = l
    BY <1>1, <2>0, <2>1, <2>2 DEF Lists, InHand
  <2>5. a.entry = ent /\ a.list = l /\ a.done = s.done
    BY <2>1, <2>2
  <2> HIDE DEF a
  <2>4. Others(s, a, w)
    <3>1. \A v \in Timer \ {w} : ent[v] = s.entry[v]
      BY <1>1, <2>0
    <3> QED
      BY <2>2, <2>5, <3>1 DEF Others
  <2>6. Fits(a, x, c, w)
    <3>1. p.state < Ended
      BY <1>5 DEF IsOver, Entry, Waiting, Ended
    <3>2. a.done[w] + x[w] = 0 /\ w \in ToSet(a.list) /\ a.entry[w].state < Ended
          /\ HasService(w, a.entry[w])
      BY <1>3, <2>2, <2>3, <2>5, <3>1 DEF InHand
    <3> QED
      BY <3>2 DEF Fits
  <2>7. Consistent(a, x, c)
    BY <2>2, <2>3, <2>4, <2>6, OthersFit DEF InHand, Consistent
  <2>8. InOrder(s) => InOrder(a)
    <3>1. w \notin ToSet(s.list) /\ \A v \in Timer \ {w} : s.entry[v] = ent[v]
      BY <1>1, <2>0 DEF InHand
    <3>2. Sorted(s.list, Activation(s.entry)) => Sorted(s.list, Activation(ent))
      BY <1>1, <2>0, <3>1, OrderElsewhere
    <3> QED
      BY <2>2, <2>5, <3>2 DEF InOrder
  <2> QED
    BY <1>2, <1>5, <2>2, <2>3, <2>4, <2>7, <2>8 DEF a
<1> QED
  BY <1>4, <1>5

(* What activate leaves of the timer that is due: it is in no list, and as     *)
(* entitled to its service as before.                                          *)
LEMMA ActivatedEffect ==
  ASSUME now \in Nat, NEW s \in Lists, NEW w \in Timer, IsInjective(s.list),
         HasService(w, s.entry[w]), s.entry[w].state < Ended, NEW r \in activated(s, w)
  PROVE  LET e == s.entry[w]
             n == r.entry[w]
         IN  /\ r \in Lists /\ r.done = s.done /\ Others(s, r, w)
             /\ IsInjective(r.list) /\ w \notin ToSet(r.list)
             /\ HasService(w, n)
             /\ n.repeated = e.repeated /\ n.disabled = e.disabled
             /\ n.cancelled = e.cancelled /\ n.end = e.end
             /\ e.state = Prepared /\ e.cancelled => n.state = Running
             /\ e.state = Running => n.state = Ended
             /\ \A ent \in [Timer -> Entry] :
                  (\A v \in Timer \ {w} : ent[v] = s.entry[v])
                  /\ Sorted(s.list, Activation(ent)) => InOrder(r)
<1>1. s.entry \in [Timer -> Entry] /\ s.list \in Seq(Timer) /\ s.done \in [Timer -> Nat]
  BY DEF Lists
<1>2. PICK e \in Entry : e = s.entry[w]
  BY <1>1
<1>3. PICK o \in activate(w, e) :
        r = [s EXCEPT !.list = RemoveFirst(@, w),
                      !.entry[w] = IF shouldSkip(e) THEN [e EXCEPT !.state = Ended]
                                   ELSE IF o.ok THEN [o.entry EXCEPT !.state = @ + 1]
                                   ELSE o.entry]
  BY <1>2 DEF activated
<1> DEFINE Right(m) == /\ m \in Entry /\ HasService(w, m)
                       /\ m.repeated = e.repeated /\ m.disabled = e.disabled
                       /\ m.cancelled = e.cancelled /\ m.end = e.end
                       /\ e.state = Prepared /\ e.cancelled => m.state = Running
                       /\ e.state = Running => m.state = Ended
           k == IF shouldSkip(e) THEN [e EXCEPT !.state = Ended]
                ELSE IF o.ok THEN [o.entry EXCEPT !.state = @ + 1] ELSE o.entry
<1>4. Right(k)
  <2>1. CASE shouldSkip(e)
    <3>1. k = [e EXCEPT !.state = Ended]
      BY <2>1
    <3> HIDE DEF k
    <3>2. Ended \in Waiting .. Ended /\ e.state = Waiting
      BY <2>1 DEF shouldSkip, Waiting, Ended
    <3>3. k \in Entry
      BY <3>1, <3>2 DEF Entry
    <3>4. /\ k.state = Ended /\ k.record_service = e.record_service
          /\ k.repeated = e.repeated /\ k.disabled = e.disabled
          /\ k.cancelled = e.cancelled /\ k.end = e.end
      BY <3>1 DEF Entry
    <3>5. HasService(w, e)
      BY <1>2
    <3>6. HasService(w, k)
      BY <3>2, <3>4, <3>5 DEF HasService, Waiting, Prepared, Running, Ended
    <3> QED
      BY <3>2, <3>3, <3>4, <3>6 DEF Waiting, Prepared, Running
  <2>2. CASE ~shouldSkip(e)
    <3>1. k = IF o.ok THEN [o.entry EXCEPT !.state = @ + 1] ELSE o.entry
      BY <2>2
    <3> HIDE DEF k
    <3> QED
      BY <1>2, <2>2, <3>1, ActivateEntry
  <2> QED
    BY <2>1, <2>2
<1>5. PICK n \in Entry : n = k /\ Right(n)
  BY <1>4
<1>6. r = [entry |-> [s.entry EXCEPT ![w] = n], list |-> RemoveFirst(s.list, w),
           done |-> s.done]
  BY <1>1, <1>3, <1>5 DEF Lists
<1> HIDE DEF k, Right
<1>7. PICK l \in Seq(Timer) :
        /\ l = RemoveFirst(s.list, w) /\ IsInjective(l) /\ ToSet(l) = ToSet(s.list) \ {w}
        /\ \A when : Sorted(s.list, when) => Sorted(l, when)
  BY <1>1, RemoveKeeps
<1>8. PICK ent \in [Timer -> Entry] : ent = [s.entry EXCEPT ![w] = n]
  BY <1>1
<1>13. ent[w] = n /\ \A v \in Timer \ {w} : ent[v] = s.entry[v]
  BY <1>1, <1>8
<1>9. r = [entry |-> ent, list |-> l, done |-> s.done]
  BY <1>6, <1>7, <1>8
<1>10. r \in Lists /\ Others(s, r, w) /\ r.entry = ent /\ r.list = l /\ r.done = s.done
  BY <1>1, <1>7, <1>9, <1>13 DEF Lists, Others
<1>11. ASSUME NEW old \in [Timer -> Entry], \A v \in Timer \ {w} : old[v] = s.entry[v],
              Sorted(s.list, Activation(old))
       PROVE  InOrder(r)
  <2>1. Sorted(l, Activation(old))
    BY <1>7, <1>11
  <2>2. \A v \in Timer \ {w} : old[v] = ent[v]
    BY <1>11, <1>13
  <2>3. Sorted(l, Activation(ent))
    BY <1>7, <2>1, <2>2, OrderElsewhere
  <2> QED
    BY <1>10, <2>3 DEF InOrder
<1>12. r.entry[w] = n
  BY <1>10, <1>13
<1> QED
  BY <1>2, <1>5, <1>7, <1>10, <1>11, <1>12 DEF Right

(* Forget leaves only entries that are in a list, blank or on the screen.      *)
Loose(s, c, v) ==
  /\ s.done[v] <= 1
  /\ v \in ToSet(s.list) => s.done[v] = 0 /\ s.entry[v].state < Ended
  /\ s.done[v] > 0 => s.entry[v].state = Ended
  /\ \/ v \in ToSet(s.list) \/ s.done[v] > 0
     \/ v # c /\ s.entry[v] = Blank
     \/ s.entry[v].state = Ended
  /\ HasService(v, s.entry[v])

(* A new timer is an entry, and entitled to no service.                       *)
LEMMA BlankEntry ==
  Blank \in Entry /\ \A w \in Timer : HasService(w, Blank)
<1>1. 0 \in 0 .. MaxBackoff /\ 0 \in Nat /\ {} \in SUBSET (0 .. Week - 1)
      /\ Waiting \in Waiting .. Ended /\ "none" \in Service
  BY TimerAssumption DEF Waiting, Ended, Service
<1>2. Blank \in Entry
  BY <1>1 DEF Blank, Entry
<1>3. Blank.state = Waiting /\ Blank.record_service = "none"
  BY DEF Blank
<1> QED
  BY <1>2, <1>3 DEF HasService, Waiting, Prepared, Running

(* What is in a list is not forgotten.                                        *)
LEMMA ForgetEffect ==
  ASSUME NEW s \in Lists, NEW c, IsInjective(s.list), \A v \in Timer : Loose(s, c, v)
  PROVE  LET f == Forget(s, c)
         IN  /\ f \in Lists /\ f.list = s.list /\ f.done = s.done /\ Consistent(f, Nobody, c)
             /\ \A v \in Timer : v \in ToSet(s.list) \/ s.done[v] > 0
                                   => f.entry[v] = s.entry[v]
             /\ InOrder(s) => InOrder(f)
<1> DEFINE f == Forget(s, c)
<1>1. s.entry \in [Timer -> Entry] /\ s.list \in Seq(Timer) /\ s.done \in [Timer -> Nat]
  BY DEF Lists
<1> DEFINE F == [v \in Timer |->
                   IF v \in ToSet(s.list) \cup Over(s.done) \cup {c} THEN s.entry[v]
                   ELSE [Blank EXCEPT !.record_service = s.entry[v].record_service]]
           Kept(v) == v \in ToSet(s.list) \/ s.done[v] > 0 \/ v = c
           New(v) == [Blank EXCEPT !.record_service = s.entry[v].record_service]
<1>2. \A v \in Timer : ~Kept(v) => New(v) = Blank
  <2> SUFFICES ASSUME NEW v \in Timer, ~Kept(v) PROVE New(v) = Blank
    OBVIOUS
  <2>1. Loose(s, c, v)
    OBVIOUS
  <2>2. s.entry[v] = Blank \/ (s.entry[v].state = Ended /\ HasService(v, s.entry[v]))
    BY <2>1 DEF Loose
  <2>3. s.entry[v].record_service = "none"
    BY <2>2 DEF HasService, Blank, Prepared, Running, Ended
  <2>4. PICK b \in Entry : b = Blank /\ b.record_service = "none"
    BY BlankEntry DEF Blank
  <2>5. New(v) = [b EXCEPT !.record_service = "none"]
    BY <2>3, <2>4
  <2>6. [b EXCEPT !.record_service = "none"] = b
    BY <2>4 DEF Entry
  <2> QED
    BY <2>4, <2>5, <2>6
<1> HIDE DEF New
<1>3. PICK ent \in [Timer -> Entry] : /\ ent = F
                                      /\ \A v \in Timer : Kept(v) => ent[v] = s.entry[v]
                                      /\ \A v \in Timer : ~Kept(v) => ent[v] = Blank
  <2>1. F = [v \in Timer |-> IF Kept(v) THEN s.entry[v] ELSE New(v)]
    BY <1>1 DEF Over, New
  <2> HIDE DEF Kept, F
  <2>2. F = [v \in Timer |-> IF Kept(v) THEN s.entry[v] ELSE Blank]
    BY <1>2, <2>1
  <2>3. F \in [Timer -> Entry]
    BY <1>1, <2>2, BlankEntry
  <2> QED
    BY <2>2, <2>3
<1>4. f = [entry |-> ent, list |-> s.list, done |-> s.done]
  <2>1. f = [s EXCEPT !.entry = F]
    BY DEF Forget
  <2> HIDE DEF F, f
  <2> QED
    BY <1>3, <2>1 DEF Lists
<1> HIDE DEF F
<1>5. f \in Lists /\ f.entry = ent /\ f.list = s.list /\ f.done = s.done
  BY <1>1, <1>4 DEF Lists
<1> HIDE DEF f
<1>6. ASSUME NEW v \in Timer PROVE Fits(f, Nobody, c, v)
  <2>1. Loose(s, c, v) /\ Nobody[v] = 0 /\ s.done[v] \in Nat
    BY <1>1, <1>6 DEF Nobody
  <2>2. CASE Kept(v)
    <3>1. f.entry[v] = s.entry[v]
      BY <1>3, <1>5, <2>2
    <3> QED
      BY <1>5, <2>1, <2>2, <3>1 DEF Loose, Fits
  <2>3. CASE ~Kept(v)
    <3>1. f.entry[v] = Blank /\ v # c
      BY <1>3, <1>5, <2>3
    <3> QED
      BY <1>5, <2>1, <2>3, <3>1, BlankEntry DEF Fits
  <2> QED
    BY <2>2, <2>3
<1>7. InOrder(s) => InOrder(f)
  <2>1. PICK a \in [Timer -> Int] : a = Activation(s.entry)
    BY <1>1, ActivationType
  <2>2. PICK b \in [Timer -> Int] : b = Activation(ent)
    BY <1>3, ActivationType
  <2>3. \A v \in ToSet(s.list) : v \in Timer
    BY <1>1, ElementOfSeq DEF ToSet
  <2>4. \A v \in ToSet(s.list) : a[v] = b[v]
    BY <1>3, <2>1, <2>2, <2>3 DEF Activation
  <2> QED
    BY <1>1, <1>5, <2>1, <2>2, <2>4, SameOrder DEF InOrder
<1> QED
  BY <1>3, <1>5, <1>6, <1>7 DEF Consistent, f

-----------------------------------------------------------------------------
(* What a handler hands over.  t is what it made of the entries and the lists,  *)
(* x what is left to be re-evaluated, d and c the timers the two screens show.  *)

File == [Timer -> SUBSET [begin : Nat, end : Nat, repeated : SUBSET (0 .. Week - 1),
                          disabled : BOOLEAN]]

Frame ==
  /\ now' = now /\ lastActivation' \in 0 .. MaxTime /\ wait' \in 0 .. MaxWaitTime
  /\ dialog' \in Timer \cup {NoTimer} /\ conflict' \in Timer \cup {NoTimer}
  /\ saved' \in File /\ upsets' \in 0 .. MaxUpsets /\ edits' \in 0 .. MaxEdits

Kept(t, x, then, d, c) ==
  /\ Consistent(t, x, c)
  /\ d # NoTimer => then = Nothing /\ c = NoTimer /\ GoesOn(t, d)
  /\ then.op = "change" => GoesOn(t, then.timer)
  /\ \A v \in then.timers : v \notin ToSet(t.list) /\ t.done[v] = 0 /\ x[v] = 0
  /\ ~EditConflicts => c = NoTimer /\ InOrder(t)

(* The timer that is being removed is over, or due at the time limit.           *)
Removed(t, then, limit) ==
  then.op = "remove" /\ ~EditConflicts /\ PassTime < KeepTime =>
  LET w == then.timer
  IN  /\ w \in Timer /\ t.entry[w].repeated = {}
      /\ t.entry[w].end <= now /\ now + slack <= t.entry[w].end + PassTime
      /\ \/ t.done[w] > 0
         \/ /\ w \in ToSet(t.list) /\ t.entry[w].cancelled
            /\ t.entry[w].state \in {Prepared, Running}
            /\ getNextActivation(t.entry[w]) <= limit /\ t.entry[w].end <= limit

(* Between two steps the invariant says Kept.                                 *)
LEMMA KeptNow ==
  ASSUME IInv, pc # "error"
  PROVE  Kept(S, warped, after, dialog, conflict)
<1>1. /\ entry \in [Timer -> Entry] /\ processed_timers \in [Timer -> Nat]
      /\ warped \in [Timer -> Nat]
      /\ S.entry = entry /\ S.list = timer_list /\ S.done = processed_timers
  BY DEF IInv, TypeOK, Lists, S
<1>2. ASSUME NEW v \in Timer PROVE Fits(S, warped, conflict, v)
  <2>1. processed_timers[v] \in Nat /\ warped[v] \in Nat
    BY <1>1
  <2>2. warped[v] > 0 => entry[v].state = Ended /\ v \notin ToSet(timer_list)
    BY DEF IInv, WarpKept, Over
  <2>3. HasService(v, entry[v])
    BY DEF IInv, ServiceHeld
  <2>4. /\ processed_timers[v] + warped[v] <= 1
        /\ v \in ToSet(timer_list) => processed_timers[v] = 0 /\ entry[v].state < Ended
        /\ processed_timers[v] > 0 => entry[v].state = Ended
        /\ \/ v \in ToSet(timer_list) \/ processed_timers[v] > 0 \/ warped[v] > 0
           \/ v # conflict /\ entry[v] = Blank
           \/ v = conflict /\ entry[v].state = Ended
    BY <2>1 DEF IInv, ListsAgree, Known, Over
  <2> QED
    BY <1>1, <2>1, <2>2, <2>3, <2>4 DEF Fits
<1>3. Consistent(S, warped, conflict)
  BY <1>1, <1>2 DEF IInv, ListsAgree, Consistent
<1>4. /\ dialog # NoTimer => after = Nothing /\ conflict = NoTimer /\ GoesOn(S, dialog)
      /\ after.op = "change" => GoesOn(S, after.timer)
  BY DEF IInv, DialogKept
<1>5. ASSUME NEW v \in after.timers
      PROVE  v \notin ToSet(S.list) /\ S.done[v] = 0 /\ warped[v] = 0
  <2>1. v \in Timer
    BY DEF IInv, TypeOK, After
  <2> QED
    BY <1>1, <2>1 DEF IInv, LoadKept, Known, Over
<1>6. ~EditConflicts => conflict = NoTimer /\ InOrder(S)
  BY <1>1 DEF IInv, SortedKept, InOrder
<1> QED
  BY <1>3, <1>4, <1>5, <1>6 DEF Kept

(* Outside of the re-evaluation nothing is left to be re-evaluated.           *)
LEMMA NobodyWarped ==
  ASSUME TypeOK, WarpKept, pc \in {"idle", "pass", "after"}
  PROVE  warped = Nobody
<1>1. warped \in [Timer -> Nat]
  BY DEF TypeOK
<1>2. \A v \in Timer : warped[v] = 0
  BY <1>1 DEF WarpKept, Over
<1> QED
  BY <1>1, <1>2 DEF Nobody

(* Kept, of what a step hands over, gives these parts of the invariant.       *)
LEMMA KeptThen ==
  ASSUME TypeOK, Frame, NEW t \in Lists, NEW x \in [Timer -> Nat], NEW then \in After,
         entry' = t.entry, timer_list' = t.list, processed_timers' = t.done,
         warped' = x, after' = then, bound' \in 0 .. MaxTime, slack' \in 0 .. PassTime,
         pc' \in {"idle", "warp", "pass", "after"},
         Kept(t, x, then, dialog', conflict')
  PROVE  /\ TypeOK' /\ ListsAgree' /\ ServiceHeld' /\ DialogKept' /\ LoadKept'
         /\ SortedKept' /\ NoErrorKept'
<1>1. /\ t.entry \in [Timer -> Entry] /\ t.list \in Seq(Timer)
      /\ t.done \in [Timer -> Nat]
  BY DEF Lists
<1>2. S' = t
  BY DEF S, Lists
<1>3. TypeOK'
  <2>1. now' \in 0 .. MaxTime
    BY DEF TypeOK, Frame
  <2> QED
    BY <1>2, <2>1 DEF TypeOK, Frame, File
<1>4. PICK c : c = conflict'
  OBVIOUS
<1>5. \A v \in Timer : Fits(t, x, c, v)
  BY <1>4 DEF Kept, Consistent
<1>6. ListsAgree'
  <2>1. IsInjective(timer_list')
    BY DEF Kept, Consistent
  <2>2. ASSUME NEW v \in Timer
        PROVE  /\ processed_timers'[v] + warped'[v] <= 1
               /\ v \in ToSet(timer_list') => v \notin Over(processed_timers')
                                              /\ entry'[v].state < Ended
               /\ v \in Over(processed_timers') => entry'[v].state = Ended
               /\ \/ v \in Known' \/ v \in Over(warped')
                  \/ v # conflict' /\ entry'[v] = Blank
                  \/ v = conflict' /\ entry'[v].state = Ended
    <3>1. Fits(t, x, c, v) /\ t.done[v] \in Nat /\ x[v] \in Nat
      BY <1>1, <1>5, <2>2
    <3>2. Over(processed_timers') = {u \in Timer : t.done[u] > 0}
          /\ Over(warped') = {u \in Timer : x[u] > 0}
          /\ Known' = ToSet(t.list) \cup {u \in Timer : t.done[u] > 0}
      BY DEF Over, Known
    <3> QED
      BY <1>4, <3>1, <3>2 DEF Fits
  <2> QED
    BY <2>1, <2>2 DEF ListsAgree
<1>7. ServiceHeld'
  BY <1>5 DEF ServiceHeld, Fits, HasService
<1>8. DialogKept'
  BY <1>2 DEF Kept, DialogKept, GoesOn
<1>9. LoadKept'
  <2>1. ASSUME NEW v \in then.timers
        PROVE  v \notin ToSet(t.list) /\ t.done[v] = 0 /\ x[v] = 0
    BY DEF Kept
  <2>2. Over(warped') = {u \in Timer : x[u] > 0}
        /\ Known' = ToSet(t.list) \cup {u \in Timer : t.done[u] > 0}
    BY DEF Over, Known
  <2> QED
    BY <1>1, <2>1, <2>2 DEF LoadKept
<1>10. SortedKept'
  <2>1. ~EditConflicts => conflict' = NoTimer /\ Sorted(t.list, Activation(t.entry))
    BY DEF Kept, InOrder
  <2>2. Activation(entry)' = Activation(t.entry)
    BY DEF Activation
  <2> QED
    BY <2>1, <2>2 DEF SortedKept, Sorted
<1>11. NoErrorKept'
  BY DEF NoErrorKept, NoValueError
<1> QED
  BY <1>3, <1>6, <1>7, <1>8, <1>9, <1>10, <1>11

(* A handler, or an iteration of the loop, that ends without a pass of its own. *)
LEMMA SettleKeeps ==
  ASSUME IInv, Frame, pc \in {"idle", "pass", "after"}, NEW t \in Lists, NEW then \in After,
         Kept(t, Nobody, then, dialog', conflict'), Removed(t, then, bound),
         pc # "pass" /\ then.op = "remove" => t.done[then.timer] > 0, Settle(t, then)
  PROVE  IInv'
<1>0. TypeOK /\ PassTime \in Nat /\ Nobody \in [Timer -> Nat]
  BY TimerAssumption DEF IInv, Nobody
<1>1. warped = Nobody
  BY NobodyWarped DEF IInv
<1>2. /\ entry' = t.entry /\ timer_list' = t.list /\ processed_timers' = t.done
      /\ warped' = Nobody /\ after' = then /\ bound' = bound
      /\ slack' = IF pc' = "idle" THEN PassTime ELSE slack
      /\ pc' = IF pc = "pass" THEN "pass" ELSE IF then = Nothing THEN "idle" ELSE "after"
  BY <1>1 DEF Settle, Put
<1>3. pc' \in {"idle", "pass", "after"}
  BY <1>2
<1>4. bound' \in 0 .. MaxTime /\ slack' \in 0 .. PassTime
  BY <1>0, <1>2 DEF TypeOK
<1>5. /\ TypeOK' /\ ListsAgree' /\ ServiceHeld' /\ DialogKept' /\ LoadKept'
      /\ SortedKept' /\ NoErrorKept'
  BY <1>0, <1>2, <1>3, <1>4, KeptThen
<1>6. WarpKept'
  <2>1. Over(warped') = {}
    BY <1>2 DEF Over, Nobody
  <2> QED
    BY <1>3, <2>1 DEF WarpKept
<1>7. HandlerKept'
  BY <1>2 DEF IInv, HandlerKept, Frame
<1>8. RemovalKept'
  <2> SUFFICES ASSUME then.op = "remove", ~EditConflicts, PassTime < KeepTime
               PROVE  RemovalKept'
    BY <1>2 DEF RemovalKept
  <2>1. slack' = slack /\ now' = now /\ pc' = IF pc = "pass" THEN "pass" ELSE "after"
    BY <1>2 DEF Nothing, Frame
  <2> DEFINE w == then.timer
  <2>2. /\ w \in Timer /\ t.entry[w].repeated = {}
        /\ t.entry[w].end <= now /\ now + slack <= t.entry[w].end + PassTime
        /\ \/ t.done[w] > 0
           \/ /\ w \in ToSet(t.list) /\ t.entry[w].cancelled
              /\ t.entry[w].state \in {Prepared, Running}
              /\ getNextActivation(t.entry[w]) <= bound /\ t.entry[w].end <= bound
    BY DEF Removed
  <2>3. w \in Over(processed_timers') <=> t.done[w] > 0
    BY <1>2, <2>2 DEF Over
  <2> HIDE DEF w
  <2>4. \/ w \in Over(processed_timers')
        \/ /\ w \in ToSet(timer_list') /\ pc' = "pass" /\ entry'[w].cancelled
           /\ entry'[w].state \in {Prepared, Running}
           /\ getNextActivation(entry'[w]) <= bound' /\ entry'[w].end <= bound'
    BY <1>2, <2>1, <2>2, <2>3 DEF w
  <2>5. /\ entry'[w].repeated = {} /\ entry'[w].end <= now'
        /\ now' + slack' <= entry'[w].end + PassTime /\ after'.timer = w
    BY <1>2, <2>1, <2>2 DEF w
  <2> QED
    BY <2>2, <2>4, <2>5 DEF RemovalKept, getNextActivation
<1> QED
  BY <1>5, <1>6, <1>7, <1>8 DEF IInv

(* The same for one that begins a pass.                                         *)
LEMMA CalcKeeps ==
  ASSUME IInv, Frame, pc \in {"idle", "pass", "after"}, NEW t \in Lists, NEW then \in After,
         Kept(t, Nobody, then, dialog', conflict'), Removed(t, then, now),
         calcNextActivation(t, then)
  PROVE  IInv'
<1>0. TypeOK /\ Nobody \in [Timer -> Nat] /\ now \in 0 .. MaxTime /\ slack \in 0 .. PassTime
      /\ bound \in 0 .. MaxTime
  BY DEF IInv, TypeOK, Nobody
<1>1. t.entry \in [Timer -> Entry] /\ t.list \in Seq(Timer) /\ t.done \in [Timer -> Nat]
  BY DEF Lists
<1>2. ASSUME then.op = "remove", ~EditConflicts, PassTime < KeepTime
      PROVE  LET w == then.timer
             IN  /\ w \in Timer /\ t.entry[w].repeated = {}
                 /\ t.entry[w].end <= now /\ now + slack <= t.entry[w].end + PassTime
                 /\ \/ t.done[w] > 0
                    \/ /\ w \in ToSet(t.list) /\ t.entry[w].cancelled
                       /\ t.entry[w].state \in {Prepared, Running}
                       /\ getNextActivation(t.entry[w]) <= now /\ t.entry[w].end <= now
  BY <1>2 DEF Removed
<1>3. CASE lastActivation > now
  <2> DEFINE u == [entry |-> t.entry, list |-> t.list, done |-> Nobody]
  <2>1. [t EXCEPT !.done = Nobody] = u
    BY DEF Lists
  <2>2. /\ entry' = t.entry /\ timer_list' = t.list /\ processed_timers' = Nobody
        /\ warped' = t.done /\ after' = then /\ bound' = bound /\ pc' = "warp"
        /\ slack' = slack
    BY <1>3, <2>1 DEF calcNextActivation, Put
  <2>3. u \in Lists /\ u.entry = t.entry /\ u.list = t.list /\ u.done = Nobody
    BY <1>0, <1>1 DEF Lists
  <2> HIDE DEF u
  <2>4. \A v \in Timer : Nobody[v] = 0 /\ t.done[v] \in Nat
    BY <1>1 DEF Nobody
  <2>5. PICK d : d = dialog'
    OBVIOUS
  <2>6. PICK c : c = conflict'
    OBVIOUS
  <2>7. Consistent(u, t.done, c)
    <3>1. Consistent(t, Nobody, c)
      BY <2>6 DEF Kept
    <3>2. ASSUME NEW v \in Timer PROVE Fits(u, t.done, c, v)
      <4>1. Fits(t, Nobody, c, v) /\ Nobody[v] = 0 /\ t.done[v] \in Nat
        BY <2>4, <3>1, <3>2 DEF Consistent
      <4> QED
        BY <2>3, <4>1 DEF Fits
    <3> QED
      BY <2>3, <3>1, <3>2 DEF Consistent
  <2>8. Kept(u, t.done, then, d, c)
    <3>1. ASSUME NEW v \in then.timers
          PROVE  v \notin ToSet(u.list) /\ u.done[v] = 0 /\ t.done[v] = 0
      <4>1. v \in Timer
        BY <3>1 DEF After
      <4> QED
        BY <2>3, <2>4, <4>1, <3>1 DEF Kept
    <3>2. \A v : GoesOn(t, v) <=> GoesOn(u, v)
      BY <2>3 DEF GoesOn
    <3>3. InOrder(t) <=> InOrder(u)
      BY <2>3 DEF InOrder
    <3> QED
      BY <2>5, <2>6, <2>7, <3>1, <3>2, <3>3 DEF Kept
  <2>9. /\ TypeOK' /\ ListsAgree' /\ ServiceHeld' /\ DialogKept' /\ LoadKept'
        /\ SortedKept' /\ NoErrorKept'
    BY <1>0, <1>1, <2>2, <2>3, <2>5, <2>6, <2>8, KeptThen
  <2>10. WarpKept'
    <3>1. Over(processed_timers') = {} /\ Over(warped') = {v \in Timer : t.done[v] > 0}
      BY <2>2, <2>4 DEF Over
    <3>2. ASSUME NEW v \in Timer, t.done[v] > 0
          PROVE  t.entry[v].state = Ended /\ v \notin ToSet(t.list)
      <4>1. Fits(t, Nobody, c, v) /\ Nobody[v] = 0 /\ t.done[v] \in Nat
        BY <2>4, <2>6, <3>2 DEF Kept, Consistent
      <4> QED
        BY <3>2, <4>1 DEF Fits
    <3> QED
      BY <2>2, <3>1, <3>2 DEF WarpKept
  <2>11. HandlerKept'
    BY <2>2 DEF HandlerKept
  <2>12. RemovalKept'
    <3> SUFFICES ASSUME then.op = "remove", ~EditConflicts, PassTime < KeepTime
                 PROVE  RemovalKept'
      BY <2>2 DEF RemovalKept
    <3>1. then.timer \in Over(warped') <=> t.done[then.timer] > 0
      BY <1>2, <2>2 DEF Over
    <3>2. now' = now
      BY DEF Frame
    <3> QED
      BY <1>2, <2>2, <3>1, <3>2 DEF RemovalKept, getNextActivation
  <2> QED
    BY <2>9, <2>10, <2>11, <2>12 DEF IInv
<1>4. CASE ~(lastActivation > now)
  <2>1. warped = Nobody
    BY NobodyWarped DEF IInv
  <2>2. /\ entry' = t.entry /\ timer_list' = t.list /\ processed_timers' = t.done
        /\ warped' = Nobody /\ after' = then /\ bound' = now /\ pc' = "pass"
        /\ slack' = slack
    BY <1>4, <2>1 DEF calcNextActivation, Put
  <2>3. /\ TypeOK' /\ ListsAgree' /\ ServiceHeld' /\ DialogKept' /\ LoadKept'
        /\ SortedKept' /\ NoErrorKept'
    BY <1>0, <2>2, KeptThen
  <2>4. WarpKept'
    <3>1. Over(warped') = {}
      BY <2>2 DEF Over, Nobody
    <3> QED
      BY <2>2, <3>1 DEF WarpKept
  <2>5. HandlerKept'
    BY <1>0, <2>2 DEF HandlerKept, Frame
  <2>6. RemovalKept'
    <3> SUFFICES ASSUME then.op = "remove", ~EditConflicts, PassTime < KeepTime
                 PROVE  RemovalKept'
      BY <2>2 DEF RemovalKept
    <3>1. then.timer \in Over(processed_timers') <=> t.done[then.timer] > 0
      BY <1>2, <2>2 DEF Over
    <3>2. now' = now
      BY DEF Frame
    <3> QED
      BY <1>2, <2>2, <3>1, <3>2 DEF RemovalKept, getNextActivation
  <2> QED
    BY <2>3, <2>4, <2>5, <2>6 DEF IInv
<1> QED
  BY <1>3, <1>4

(* The same for one that puts a timer, w, back: u is what it has until then.    *)
Carries(u, w, v) ==
  IF v = w THEN u.entry[w].state # Ended /\ u.entry[w].repeated # {} /\ ~u.entry[w].disabled
  ELSE GoesOn(u, v)

Handed(u, x, w, then, d, c) ==
  /\ InHand(u, x, c, w)
  /\ d # NoTimer => then = Nothing /\ c = NoTimer /\ Carries(u, w, d)
  /\ then.op = "change" => Carries(u, w, then.timer)
  /\ \A v \in then.timers : v # w /\ v \notin ToSet(u.list) /\ u.done[v] = 0 /\ x[v] = 0
  /\ ~EditConflicts => c = NoTimer /\ InOrder(u)

(* addTimerEntry makes Kept of what it is handed.                             *)
LEMMA AddKept ==
  ASSUME now \in Nat, NEW u \in Lists, NEW x \in [Timer -> Nat], NEW w \in Timer,
         NEW then \in After, NEW d, NEW c, Handed(u, x, w, then, d, c)
  PROVE  Kept(addTimerEntry(u, w), x, then, d, c)
<1>1. PICK a \in Lists :
        /\ a = addTimerEntry(u, w) /\ Consistent(a, x, c) /\ Others(u, a, w)
        /\ ~IsOver(processRepeated(u.entry[w], TRUE))
             => a.entry[w] = processRepeated(u.entry[w], TRUE) /\ w \in ToSet(a.list)
        /\ InOrder(u) => InOrder(a)
  BY AddEffect DEF Handed
<1>2. u.entry[w] \in Entry /\ u.list \in Seq(Timer) /\ a.list \in Seq(Timer)
  BY DEF Lists
<1>3. PICK p \in Entry :
        /\ p = processRepeated(u.entry[w], TRUE) /\ p.state = u.entry[w].state
        /\ p.disabled = u.entry[w].disabled /\ p.repeated = u.entry[w].repeated
        /\ u.entry[w].repeated # {} => p.end > now
  BY <1>2, RepeatedEntry
<1>4. ASSUME NEW v, Carries(u, w, v) PROVE GoesOn(a, v)
  <2>1. CASE v = w
    <3>1. p.state # Ended /\ p.repeated # {} /\ ~p.disabled /\ p.end > now /\ p.end \in Int
      <4>1. PICK q \in Entry : q = u.entry[w]
        BY <1>2
      <4>2. q.state # Ended /\ q.repeated # {} /\ ~q.disabled
        BY <1>4, <2>1, <4>1 DEF Carries
      <4>3. p.disabled = q.disabled /\ p.state = q.state /\ p.repeated = q.repeated
            /\ (q.repeated # {} => p.end > now)
        BY <1>3, <4>1
      <4> QED
        BY <4>2, <4>3 DEF Entry
    <3>2. ~IsOver(p)
      BY <3>1 DEF IsOver, shouldSkip
    <3> QED
      BY <1>1, <1>3, <2>1, <3>1, <3>2 DEF GoesOn
  <2>2. CASE v # w
    <3>1. GoesOn(u, v)
      BY <1>4, <2>2 DEF Carries
    <3>2. v \in Timer
      BY <1>2, <3>1, ElementOfSeq DEF GoesOn, ToSet
    <3> QED
      BY <1>1, <2>2, <3>1, <3>2 DEF GoesOn, Others
  <2> QED
    BY <2>1, <2>2
<1>5. ASSUME NEW v \in then.timers PROVE v \notin ToSet(a.list) /\ a.done[v] = 0 /\ x[v] = 0
  <2>1. v \in Timer
    BY <1>5 DEF After
  <2> QED
    BY <1>1, <1>5, <2>1 DEF Handed, Others
<1>6. Kept(a, x, then, d, c)
  BY <1>1, <1>4, <1>5 DEF Kept, Handed
<1> QED
  BY <1>1, <1>6

(* The timer that is being removed: w itself, stopped and still to be queued,   *)
(* or another, in the course of a pass.                                         *)
RemovedSoon(u, w, then) ==
  then.op = "remove" /\ ~EditConflicts /\ PassTime < KeepTime =>
    IF then.timer = w
    THEN /\ u.entry[w].repeated = {} /\ u.entry[w].cancelled /\ u.entry[w].end = now
         /\ u.entry[w].begin <= now /\ u.entry[w].state < Ended
    ELSE pc = "pass" /\ Removed(u, then, bound)

(* enqueue, from any handler, keeps the invariant.                            *)
LEMMA EnqueueKeeps ==
  ASSUME IInv, Frame, pc \in {"idle", "pass", "after"}, NEW u \in Lists, NEW w \in Timer,
         NEW then \in After, Handed(u, Nobody, w, then, dialog', conflict'),
         RemovedSoon(u, w, then),
         pc = "idle" /\ then.op = "remove" => then.timer = w, pc = "after" => then.op # "remove",
         enqueue(u, w, then)
  PROVE  IInv'
<1>0. /\ now \in Nat /\ bound \in Nat /\ slack \in Nat /\ slack <= PassTime
      /\ PassTime \in Nat /\ Nobody \in [Timer -> Nat]
      /\ pc = "pass" => bound <= now
  BY TimerAssumption DEF IInv, TypeOK, Nobody, HandlerKept
<1>1. PICK c : c = conflict'
  OBVIOUS
<1>2. PICK a \in Lists :
        /\ a = addTimerEntry(u, w) /\ Consistent(a, Nobody, c) /\ Others(u, a, w)
        /\ IsOver(processRepeated(u.entry[w], TRUE))
             => a.entry[w] = [processRepeated(u.entry[w], TRUE) EXCEPT !.state = Ended]
                /\ w \notin ToSet(a.list) /\ a.done[w] = 1
        /\ ~IsOver(processRepeated(u.entry[w], TRUE))
             => a.entry[w] = processRepeated(u.entry[w], TRUE) /\ w \in ToSet(a.list)
  BY <1>0, <1>1, AddEffect DEF Handed
<1>3. Kept(a, Nobody, then, dialog', conflict')
  <2>1. PICK d : d = dialog'
    OBVIOUS
  <2>2. Handed(u, Nobody, w, then, d, c)
    BY <1>1, <2>1
  <2>3. Kept(a, Nobody, then, d, c)
    BY <1>0, <1>2, <2>2, AddKept
  <2> QED
    BY <1>1, <2>1, <2>3
<1>4. /\ Removed(a, then, now)
      /\ w \notin ToSet(a.list) => Removed(a, then, bound)
      /\ w \notin ToSet(a.list) /\ pc # "pass" /\ then.op = "remove"
         /\ ~EditConflicts /\ PassTime < KeepTime => a.done[then.timer] > 0
  <2> SUFFICES ASSUME then.op = "remove", ~EditConflicts, PassTime < KeepTime
               PROVE  /\ Removed(a, then, now)
                      /\ w \notin ToSet(a.list) => Removed(a, then, bound)
                      /\ w \notin ToSet(a.list) /\ pc # "pass" => a.done[then.timer] > 0
    BY DEF Removed
  <2>1. u.entry[w] \in Entry /\ \A v \in Timer : a.entry[v] \in Entry
    BY DEF Lists
  <2>2. CASE then.timer = w
    <3>1. /\ u.entry[w].repeated = {} /\ u.entry[w].cancelled /\ u.entry[w].end = now
          /\ u.entry[w].begin <= now /\ u.entry[w].state < Ended
      BY <2>2 DEF RemovedSoon
    <3>2. processRepeated(u.entry[w], TRUE) = u.entry[w]
      BY <3>1 DEF processRepeated
    <3>3. PICK p \in Entry : p = u.entry[w]
      BY <2>1
    <3>4. CASE IsOver(p)
      <4>1. a.entry[w] = [p EXCEPT !.state = Ended] /\ a.done[w] = 1
        BY <1>2, <3>2, <3>3, <3>4
      <4>2. a.entry[w].repeated = {} /\ a.entry[w].end = now
        BY <3>1, <3>3, <4>1 DEF Entry
      <4> QED
        BY <1>0, <2>2, <4>1, <4>2 DEF Removed
    <3>5. CASE ~IsOver(p)
      <4>1. a.entry[w] = p /\ w \in ToSet(a.list)
        BY <1>2, <3>2, <3>3, <3>5
      <4>2. p.state \in {Prepared, Running}
        BY <3>1, <3>3, <3>5
           DEF IsOver, shouldSkip, Entry, Waiting, Prepared, Running, Ended
      <4>3. getNextActivation(p) <= now
        BY <1>0, <3>1, <3>3, <4>2 DEF getNextActivation, Waiting, Prepared, Running
      <4> QED
        BY <1>0, <2>2, <3>1, <3>3, <4>1, <4>2, <4>3 DEF Removed
    <3> QED
      BY <3>4, <3>5
  <2>3. CASE then.timer # w
    <3>1. pc = "pass" /\ Removed(u, then, bound)
      BY <2>3 DEF RemovedSoon
    <3>2. then.timer \in Timer
      BY <3>1 DEF Removed
    <3>3. PICK v \in Timer \ {w} : v = then.timer
      BY <2>3, <3>2
    <3>4. a.entry[v] = u.entry[v] /\ a.done[v] = u.done[v]
          /\ (v \in ToSet(a.list) <=> v \in ToSet(u.list))
      BY <1>2 DEF Others
    <3>5. Removed(a, then, bound)
      BY <3>1, <3>3, <3>4 DEF Removed
    <3>6. getNextActivation(a.entry[v]) \in Int /\ a.entry[v].end \in Int
      BY <2>1 DEF Entry, getNextActivation
    <3>7. Removed(a, then, now)
      BY <1>0, <3>1, <3>3, <3>5, <3>6 DEF Removed
    <3> QED
      BY <3>1, <3>5, <3>7
  <2> QED
    BY <2>2, <2>3
<1>5. CASE w \in ToSet(a.list)
  <2>1. calcNextActivation(a, then)
    BY <1>2, <1>5 DEF enqueue
  <2> QED
    BY <1>3, <1>4, <2>1, CalcKeeps
<1>6. CASE w \notin ToSet(a.list)
  <2>1. Settle(a, then)
    BY <1>2, <1>6 DEF enqueue
  <2>2. pc # "pass" /\ then.op = "remove" => a.done[then.timer] > 0
    <3> SUFFICES ASSUME pc # "pass", then.op = "remove" PROVE a.done[w] > 0
      OBVIOUS
    <3>1. a.done[w] = 1
      BY Zenon, <1>2, <1>6
    <3> QED
      BY <3>1
  <2> QED
    BY <1>3, <1>4, <1>6, <2>1, <2>2, SettleKeeps
<1> QED
  BY <1>5, <1>6

(* The fields of the triple after an assignment to one of them.                 *)
LEMMA Assigned ==
  ASSUME NEW r \in Lists, NEW v
  PROVE  /\ [r EXCEPT !.entry = v] = [entry |-> v, list |-> r.list, done |-> r.done]
         /\ [r EXCEPT !.list = v] = [entry |-> r.entry, list |-> v, done |-> r.done]
         /\ [r EXCEPT !.done = v] = [entry |-> r.entry, list |-> r.list, done |-> v]
BY DEF Lists

(* doActivate, within a pass or for a handler that ends a running event itself. *)
LEMMA ActivateKeeps ==
  ASSUME IInv, Frame, conflict' = conflict, pc \in {"idle", "pass"},
         NEW s \in Lists, NEW w \in Timer, NEW then \in After, w \in ToSet(timer_list),
         s.list = timer_list, s.done = processed_timers,
         \A v \in Timer \ {w} : s.entry[v] = entry[v],
         HasService(w, s.entry[w]), s.entry[w].state < Ended,
         dialog' # NoTimer => then = Nothing /\ conflict = NoTimer /\ GoesOn(s, dialog'),
         then.op = "change" => GoesOn(s, then.timer),
         then.timers \subseteq after.timers,
         pc = "pass" => s = S /\ then = after,
         pc = "idle" => then.op # "remove",
         doActivate(s, w, then)
  PROVE  IInv'
<1>0. /\ now \in Nat /\ slack \in Nat /\ PassTime \in Nat /\ KeepTime \in Nat /\ bound \in Nat
      /\ entry \in [Timer -> Entry] /\ S.entry = entry /\ S.list = timer_list
      /\ S.done = processed_timers /\ Nobody \in [Timer -> Nat]
      /\ processed_timers \in [Timer -> Nat] /\ pc # "error"
  BY TimerAssumption DEF IInv, TypeOK, Lists, S, Nobody
<1>1. PICK c : c = conflict /\ c = conflict'
  OBVIOUS
<1>2. PICK d : d = dialog'
  OBVIOUS
<1>3. warped = Nobody
  BY <1>0, NobodyWarped DEF IInv
<1>4. Kept(S, Nobody, after, dialog, c)
  BY <1>0, <1>1, <1>3, KeptNow
<1>5. IsInjective(s.list) /\ \A v \in Timer : Fits(S, Nobody, c, v)
  BY <1>0, <1>4 DEF Kept, Consistent
<1>6. s.done[w] = 0 /\ Nobody[w] = 0
  BY <1>0, <1>5 DEF Fits, Nobody
<1>7. PICK r \in activated(s, w) :
        IF w \notin ToSet(s.list) THEN Fail(r)
        ELSE IF r.entry[w].state < Ended
        THEN Settle([r EXCEPT !.list = insort(r.entry, @, w)], then)
        ELSE IF r.entry[w].repeated = {}
        THEN Settle(Forget([cleanupDaily(r) EXCEPT !.done = Add(@, w)], conflict), then)
        ELSE enqueue([r EXCEPT !.entry[w] = [processRepeated(@, TRUE) EXCEPT !.state = Waiting]],
                     w, then)
  BY DEF doActivate
<1>8. PICK e \in Entry : e = s.entry[w]
  BY DEF Lists
<1>9. /\ r \in Lists /\ r.done = s.done /\ Others(s, r, w)
      /\ IsInjective(r.list) /\ w \notin ToSet(r.list)
      /\ HasService(w, r.entry[w])
      /\ r.entry[w].repeated = e.repeated /\ r.entry[w].disabled = e.disabled
      /\ r.entry[w].cancelled = e.cancelled /\ r.entry[w].end = e.end
      /\ e.state = Prepared /\ e.cancelled => r.entry[w].state = Running
      /\ e.state = Running => r.entry[w].state = Ended
      /\ \A ent \in [Timer -> Entry] :
           (\A v \in Timer \ {w} : ent[v] = s.entry[v])
           /\ Sorted(s.list, Activation(ent)) => InOrder(r)
  BY <1>0, <1>5, <1>8, ActivatedEffect
<1>10. ~EditConflicts => c = NoTimer /\ InOrder(r)
  <2> SUFFICES ASSUME ~EditConflicts PROVE c = NoTimer /\ InOrder(r)
    OBVIOUS
  <2>1. c = NoTimer /\ Sorted(timer_list, Activation(entry))
    BY <1>0, <1>1 DEF IInv, SortedKept
  <2> QED
    BY <1>0, <1>9, <2>1
<1>11. InHand(r, Nobody, c, w)
  <2>1. ASSUME NEW v \in Timer \ {w} PROVE Fits(r, Nobody, c, v)
    <3>1. r.entry[v] = S.entry[v] /\ r.done[v] = S.done[v]
          /\ (v \in ToSet(r.list) <=> v \in ToSet(S.list))
      BY <1>0, <1>9, <2>1 DEF Others
    <3> QED
      BY <1>5, <2>1, <3>1 DEF Fits
  <2> QED
    BY <1>6, <1>9, <2>1 DEF InHand
<1>12. /\ r.entry \in [Timer -> Entry] /\ r.list \in Seq(Timer) /\ r.done \in [Timer -> Nat]
       /\ r.entry[w] \in Entry
  BY <1>9 DEF Lists
<1>13. ASSUME NEW v, GoesOn(s, v)
       PROVE  IF v = w THEN r.entry[w].repeated # {} /\ ~r.entry[w].disabled ELSE GoesOn(r, v)
  <2>1. s.list \in Seq(Timer)
    BY DEF Lists
  <2>2. v \in Timer
    BY <1>13, <2>1, ElementOfSeq DEF GoesOn, ToSet
  <2>3. CASE v = w
    BY <1>8, <1>9, <1>13, <2>3 DEF GoesOn
  <2>4. CASE v # w
    BY <1>9, <1>13, <2>2, <2>4 DEF GoesOn, Others
  <2> QED
    BY <2>3, <2>4
<1>14. ASSUME NEW v \in then.timers
       PROVE  v \in Timer /\ v # w /\ v \notin ToSet(r.list) /\ r.done[v] = 0
  <2>1. v \in Timer /\ v \in after.timers
    BY <1>14 DEF After
  <2>2. v \notin ToSet(timer_list) /\ processed_timers[v] = 0
    BY <1>0, <1>4, <2>1 DEF Kept
  <2> QED
    BY <1>9, <2>1, <2>2 DEF Others
<1>15. ASSUME then.op = "remove", ~EditConflicts, PassTime < KeepTime
       PROVE  LET u == then.timer
              IN  /\ u \in Timer /\ pc = "pass"
                  /\ r.entry[u].repeated = {} /\ r.entry[u].end <= now
                  /\ now + slack <= r.entry[u].end + PassTime
                  /\ u # w => \/ r.done[u] > 0
                              \/ /\ u \in ToSet(r.list) /\ r.entry[u].cancelled
                                 /\ r.entry[u].state \in {Prepared, Running}
                                 /\ getNextActivation(r.entry[u]) <= bound
                                 /\ r.entry[u].end <= bound
                  /\ u = w => /\ r.entry[w].cancelled /\ r.entry[w].state \in {Running, Ended}
                              /\ r.entry[w].end <= bound
  <2>1. pc = "pass" /\ s = S /\ then = after
    BY <1>15
  <2> DEFINE u == after.timer
  <2>2. /\ u \in Timer /\ entry[u].repeated = {}
        /\ entry[u].end <= now /\ now + slack <= entry[u].end + PassTime
        /\ \/ u \in Over(processed_timers)
           \/ u \in Over(warped)
           \/ /\ u \in ToSet(timer_list)
              /\ entry[u].cancelled /\ entry[u].state \in {Prepared, Running}
              /\ getNextActivation(entry[u]) <= bound /\ entry[u].end <= bound
    BY <1>0, <1>15, <2>1 DEF IInv, RemovalKept
  <2> HIDE DEF u
  <2>3. \/ processed_timers[u] > 0
        \/ /\ u \in ToSet(timer_list)
           /\ entry[u].cancelled /\ entry[u].state \in {Prepared, Running}
           /\ getNextActivation(entry[u]) <= bound /\ entry[u].end <= bound
    BY <1>3, <2>2 DEF Over, Nobody
  <2>4. CASE u # w
    <3>1. r.entry[u] = entry[u] /\ r.done[u] = processed_timers[u]
          /\ (u \in ToSet(r.list) <=> u \in ToSet(timer_list))
      BY <1>9, <2>2, <2>4 DEF Others
    <3> QED
      BY <2>1, <2>2, <2>3, <2>4, <3>1 DEF u
  <2>5. CASE u = w
    <3>1. e = entry[w] /\ processed_timers[w] = 0
      BY <1>0, <1>6, <1>8, <2>1
    <3>2. e.cancelled /\ e.state \in {Prepared, Running} /\ e.end <= bound
      BY <2>3, <2>5, <3>1
    <3>3. r.entry[w].state \in {Running, Ended}
      BY <1>9, <3>2
    <3>4. r.entry[w].cancelled
      BY <1>9, <3>2
    <3> QED
      BY <1>9, <2>1, <2>2, <2>5, <3>1, <3>2, <3>3, <3>4 DEF u
  <2> QED
    BY <2>4, <2>5
<1>16. w \in ToSet(s.list)
  OBVIOUS
<1>20. r \in Lists
  BY <1>9
<1>17. CASE r.entry[w].state < Ended
  <2>1. PICK ent \in [Timer -> Entry] : ent = r.entry
    BY <1>12
  <2>2. PICK l \in Seq(Timer) :
          /\ l = insort(ent, r.list, w) /\ IsInjective(l) /\ ToSet(l) = ToSet(r.list) \cup {w}
          /\ Sorted(r.list, Activation(ent)) => Sorted(l, Activation(ent))
    BY <1>9, <1>12, InsortKeeps
  <2>3. PICK t \in Lists : /\ t = [r EXCEPT !.list = insort(r.entry, @, w)]
                           /\ t.entry = ent /\ t.list = l /\ t.done = r.done
    <3> DEFINE t == [entry |-> ent, list |-> l, done |-> r.done]
    <3>1. t = [r EXCEPT !.list = insort(r.entry, @, w)]
      <4>1. [r EXCEPT !.list = insort(r.entry, @, w)] = [r EXCEPT !.list = l]
        BY <2>1, <2>2
      <4> QED
        BY <1>20, <2>1, <4>1, Assigned
    <3>2. t \in Lists /\ t.entry = ent /\ t.list = l /\ t.done = r.done
      BY <1>12 DEF Lists
    <3> QED
      BY <3>1, <3>2
  <2>4. Settle(t, then)
    BY <1>7, <1>16, <1>17, <2>3
  <2>5. Others(r, t, w)
    BY <2>1, <2>2, <2>3 DEF Others
  <2>6. Consistent(t, Nobody, c)
    <3>1. \A v \in Timer \ {w} : Fits(t, Nobody, c, v)
      BY <1>11, <2>5, OthersFit DEF InHand
    <3>2. t.done[w] + Nobody[w] = 0 /\ w \in ToSet(t.list) /\ HasService(w, t.entry[w])
          /\ t.entry[w].state < Ended
      BY <1>6, <1>9, <1>17, <2>1, <2>2, <2>3
    <3>3. Fits(t, Nobody, c, w)
      BY <3>2 DEF Fits
    <3> QED
      BY <2>2, <2>3, <3>1, <3>3 DEF Consistent
  <2>7. ASSUME NEW v, GoesOn(s, v) PROVE GoesOn(t, v)
    BY <1>13, <2>1, <2>2, <2>3, <2>7 DEF GoesOn
  <2>8. \A v \in then.timers : v \notin ToSet(t.list) /\ t.done[v] = 0 /\ Nobody[v] = 0
    BY <1>14, <2>2, <2>3 DEF Nobody
  <2>9. InOrder(r) => InOrder(t)
    BY <2>1, <2>2, <2>3 DEF InOrder
  <2>10. Kept(t, Nobody, then, dialog', conflict')
    <3>1. dialog' # NoTimer => then = Nothing /\ c = NoTimer /\ GoesOn(t, dialog')
      BY <1>1, <1>2, <2>7
    <3>2. then.op = "change" => GoesOn(t, then.timer)
      BY <2>7
    <3> QED
      BY <1>1, <1>10, <2>6, <2>8, <2>9, <3>1, <3>2 DEF Kept
  <2>11. Removed(t, then, bound)
    <3> SUFFICES ASSUME then.op = "remove", ~EditConflicts, PassTime < KeepTime
                 PROVE  Removed(t, then, bound)
      BY DEF Removed
    <3> DEFINE u == then.timer
    <3>1. CASE u # w
      <4>1. u \in Timer /\ t.entry[u] = r.entry[u] /\ t.done[u] = r.done[u]
            /\ (u \in ToSet(t.list) <=> u \in ToSet(r.list))
        BY <1>15, <2>5, <3>1 DEF Others
      <4> QED
        BY <1>15, <3>1, <4>1 DEF Removed
    <3>2. CASE u = w
      <4>1. PICK m \in Entry : m = r.entry[w] /\ m = t.entry[w]
        BY <1>12, <2>1, <2>3
      <4>2. /\ m.repeated = {} /\ m.end <= now /\ now + slack <= m.end + PassTime
            /\ m.cancelled /\ m.state \in {Running, Ended} /\ m.end <= bound
        BY <1>15, <3>2, <4>1
      <4>3. m.state = Running
        BY <1>17, <4>1, <4>2 DEF Running, Ended
      <4>4. getNextActivation(m) = m.end
        BY <4>3 DEF getNextActivation, Waiting, Prepared, Running
      <4> QED
        BY <2>2, <2>3, <3>2, <4>1, <4>2, <4>3, <4>4 DEF Removed
    <3> QED
      BY <3>1, <3>2
  <2> QED
    BY <1>0, <2>4, <2>10, <2>11, SettleKeeps
<1>18. CASE ~(r.entry[w].state < Ended) /\ r.entry[w].repeated = {}
  <2>0. r.entry[w].state = Ended
    BY <1>12, <1>18 DEF Entry, Waiting, Ended
  <2>1. PICK T \in SUBSET Timer :
          T = {v \in Timer : \/ r.entry[v].disabled /\ r.entry[v].repeated # {}
                             \/ r.entry[v].end > now - KeepTime}
    OBVIOUS
  <2>2. PICK dn \in [Timer -> Nat] :
          /\ dn = Add(Only(r.done, T), w)
          /\ dn[w] = 1
          /\ \A v \in Timer \ {w} : dn[v] = IF v \in T THEN r.done[v] ELSE 0
    <3>1. Only(r.done, T) \in [Timer -> Nat]
      BY <1>12 DEF Only
    <3>2. PICK on \in [Timer -> Nat] : on = Only(r.done, T)
      BY <3>1
    <3>3. \A v \in Timer : on[v] = IF v \in T THEN r.done[v] ELSE 0
      BY <3>2 DEF Only
    <3>4. on[w] = 0 /\ on[w] + 1 \in Nat
      BY <1>6, <1>9, <3>3
    <3>5. PICK dn \in [Timer -> Nat] : dn = [on EXCEPT ![w] = @ + 1]
      BY <3>4
    <3>6. dn[w] = 1 /\ \A v \in Timer \ {w} : dn[v] = on[v]
      BY <3>4, <3>5
    <3>7. dn = Add(Only(r.done, T), w)
      BY <3>2, <3>5 DEF Add
    <3> QED
      BY <3>3, <3>6, <3>7
  <2>3. PICK g \in Lists : /\ g = [cleanupDaily(r) EXCEPT !.done = Add(@, w)]
                           /\ g.entry = r.entry /\ g.list = r.list /\ g.done = dn
    <3> DEFINE g == [entry |-> r.entry, list |-> r.list, done |-> dn]
    <3>1. cleanupDaily(r) = [entry |-> r.entry, list |-> r.list, done |-> Only(r.done, T)]
      <4>1. cleanupDaily(r) = [r EXCEPT !.done = Only(r.done, T)]
        BY <2>1 DEF cleanupDaily
      <4> QED
        BY <1>20, <4>1, Assigned
    <3>2. g = [cleanupDaily(r) EXCEPT !.done = Add(@, w)]
      BY <2>2, <3>1
    <3>3. g \in Lists /\ g.entry = r.entry /\ g.list = r.list /\ g.done = dn
      BY <1>12 DEF Lists
    <3> QED
      BY <3>2, <3>3
  <2>4. ASSUME NEW v \in Timer PROVE Loose(g, c, v)
    <3>1. CASE v = w
      BY <1>9, <2>0, <2>2, <2>3, <3>1 DEF Loose
    <3>2. CASE v # w
      <4>1. Fits(r, Nobody, c, v) /\ Nobody[v] = 0 /\ r.done[v] \in Nat
        BY <1>11, <1>12, <2>4, <3>2 DEF InHand, Nobody
      <4>2. dn[v] = r.done[v] \/ dn[v] = 0
        BY <2>2, <2>4, <3>2
      <4> QED
        BY <2>3, <4>1, <4>2 DEF Fits, Loose
    <3> QED
      BY <3>1, <3>2
  <2>5. PICK f \in Lists :
          /\ f = Forget(g, c) /\ f.list = g.list /\ f.done = g.done /\ Consistent(f, Nobody, c)
          /\ \A v \in Timer : v \in ToSet(g.list) \/ g.done[v] > 0 => f.entry[v] = g.entry[v]
          /\ InOrder(g) => InOrder(f)
    BY <1>9, <2>3, <2>4, ForgetEffect
  <2>6. Settle(f, then)
    BY <1>1, <1>7, <1>16, <1>18, <2>3, <2>5
  <2>7. ASSUME NEW v, GoesOn(s, v) PROVE GoesOn(f, v)
    <3>1. v # w /\ GoesOn(r, v)
      BY <1>13, <1>18, <2>7
    <3>2. v \in Timer
      BY <1>12, <3>1, ElementOfSeq DEF GoesOn, ToSet
    <3> QED
      BY <2>3, <2>5, <3>1, <3>2 DEF GoesOn
  <2>8. \A v \in then.timers : v \notin ToSet(f.list) /\ f.done[v] = 0 /\ Nobody[v] = 0
    BY <1>14, <2>2, <2>3, <2>5 DEF Nobody
  <2>9. InOrder(r) => InOrder(f)
    BY <2>3, <2>5 DEF InOrder
  <2>10. Kept(f, Nobody, then, dialog', conflict')
    <3>1. dialog' # NoTimer => then = Nothing /\ c = NoTimer /\ GoesOn(f, dialog')
      BY <1>1, <1>2, <2>7
    <3>2. then.op = "change" => GoesOn(f, then.timer)
      BY <2>7
    <3> QED
      BY <1>1, <1>10, <2>5, <2>8, <2>9, <3>1, <3>2 DEF Kept
  <2>11. Removed(f, then, bound)
    <3> SUFFICES ASSUME then.op = "remove", ~EditConflicts, PassTime < KeepTime
                 PROVE  Removed(f, then, bound)
      BY DEF Removed
    <3>1. PICK u \in Timer : u = then.timer
      BY <1>15
    <3>2. CASE u # w
      <4>1. PICK m \in Entry : m = r.entry[u]
        BY <1>12
      <4>2. m.end > now - KeepTime
        BY <1>0, <1>15, <3>1, <4>1 DEF Entry
      <4>3. u \in T
        BY <2>1, <4>1, <4>2
      <4>4. f.done[u] = r.done[u] /\ (u \in ToSet(f.list) <=> u \in ToSet(r.list))
        BY <2>2, <2>3, <2>5, <3>2, <4>3
      <4>5. r.done[u] > 0 \/ u \in ToSet(r.list)
        BY <1>15, <3>1, <3>2
      <4>6. f.entry[u] = r.entry[u]
        BY <2>3, <2>5, <4>4, <4>5
      <4> QED
        BY <1>15, <3>1, <3>2, <4>4, <4>6 DEF Removed
    <3>3. CASE u = w
      <4>1. f.done[w] = 1 /\ f.entry[w] = r.entry[w]
        BY <2>2, <2>3, <2>5
      <4> QED
        BY <1>15, <3>1, <3>3, <4>1 DEF Removed
    <3> QED
      BY <3>2, <3>3
  <2> QED
    BY <1>0, <2>6, <2>10, <2>11, <1>15, SettleKeeps
<1>19. CASE ~(r.entry[w].state < Ended) /\ r.entry[w].repeated # {}
  <2>0. r.entry[w].state = Ended
    BY <1>12, <1>19 DEF Entry, Waiting, Ended
  <2>1. PICK p \in Entry :
          /\ p = processRepeated(r.entry[w], TRUE) /\ p.disabled = r.entry[w].disabled
          /\ p.repeated = r.entry[w].repeated /\ p.record_service = r.entry[w].record_service
    BY <1>0, <1>12, RepeatedEntry
  <2>2. PICK n \in Entry :
          /\ n = [p EXCEPT !.state = Waiting] /\ n.state = Waiting
          /\ n.disabled = p.disabled /\ n.repeated = p.repeated
          /\ n.record_service = p.record_service
    <3>1. Waiting \in Waiting .. Ended
      BY DEF Waiting, Ended
    <3>2. [p EXCEPT !.state = Waiting] \in Entry
      BY <3>1 DEF Entry
    <3> QED
      BY <3>2 DEF Entry
  <2>3. HasService(w, n)
    <3>1. PICK m \in Entry : m = r.entry[w]
      BY <1>12
    <3>2. HasService(w, m) /\ m.state = Ended
      BY <1>9, <2>0, <3>1
    <3>3. m.record_service = "none"
      BY <3>2 DEF HasService, Prepared, Running, Ended
    <3>4. n.record_service = "none" /\ n.state = Waiting
      BY <2>1, <2>2, <3>1, <3>3
    <3> QED
      BY <3>4 DEF HasService, Waiting, Prepared, Running
  <2>14. PICK ent \in [Timer -> Entry] : ent = [r.entry EXCEPT ![w] = n]
    BY <1>12
  <2>4. \A v \in Timer \ {w} : ent[v] = r.entry[v]
    BY <1>12, <2>14
  <2>5. ent[w] = n
    BY <1>12, <2>14
  <2>6. PICK u \in Lists :
          /\ u = [r EXCEPT !.entry[w] = [processRepeated(@, TRUE) EXCEPT !.state = Waiting]]
          /\ u.entry = ent /\ u.list = r.list /\ u.done = r.done
    <3> DEFINE u == [entry |-> ent, list |-> r.list, done |-> r.done]
    <3>1. u = [r EXCEPT !.entry[w] = n]
      <4>1. [r EXCEPT !.entry = ent] = u
        BY <1>20, Assigned
      <4>2. [r EXCEPT !.entry[w] = n] = [r EXCEPT !.entry = [r.entry EXCEPT ![w] = n]]
        OBVIOUS
      <4> QED
        BY <2>14, <4>1, <4>2
    <3>2. u = [r EXCEPT !.entry[w] = [processRepeated(@, TRUE) EXCEPT !.state = Waiting]]
      BY <2>1, <2>2, <3>1
    <3>3. u \in Lists /\ u.entry = ent /\ u.list = r.list /\ u.done = r.done
      BY <1>12 DEF Lists
    <3> QED
      BY <3>2, <3>3
  <2>7. enqueue(u, w, then)
    BY <1>7, <1>16, <1>19, <2>6
  <2>8. Others(r, u, w)
    BY <2>4, <2>6 DEF Others
  <2>9. InHand(u, Nobody, c, w)
    <3>1. \A v \in Timer \ {w} : Fits(u, Nobody, c, v)
      BY <1>11, <2>8, OthersFit DEF InHand
    <3> QED
      BY <1>9, <1>11, <2>3, <2>5, <2>6, <3>1 DEF InHand
  <2>10. InOrder(r) => InOrder(u)
    <3>1. Sorted(r.list, Activation(r.entry)) => Sorted(r.list, Activation(ent))
      BY <1>9, <1>12, <2>4, OrderElsewhere
    <3> QED
      BY <2>6, <3>1 DEF InOrder
  <2>11. ASSUME NEW v, GoesOn(s, v) PROVE Carries(u, w, v)
    <3>1. CASE v = w
      <4>1. r.entry[w].repeated # {} /\ ~r.entry[w].disabled
        BY <1>13, <2>11, <3>1
      <4>2. n.state # Ended /\ n.repeated # {}
        <5>1. n.state # Ended
          BY <2>2 DEF Waiting, Ended
        <5>2. n.repeated = r.entry[w].repeated
          BY <2>1, <2>2
        <5> QED
          BY <4>1, <5>1, <5>2
      <4>3. ~n.disabled
        BY <2>1, <2>2, <4>1
      <4> QED
        BY <2>5, <2>6, <3>1, <4>2, <4>3 DEF Carries
    <3>2. CASE v # w
      <4>1. GoesOn(r, v)
        BY <1>13, <2>11, <3>2
      <4>2. v \in Timer
        BY <1>12, <4>1, ElementOfSeq DEF GoesOn, ToSet
      <4>3. GoesOn(u, v)
        BY <2>4, <2>6, <3>2, <4>1, <4>2 DEF GoesOn
      <4> QED
        BY <3>2, <4>3 DEF Carries
    <3> QED
      BY <3>1, <3>2
  <2>12. Handed(u, Nobody, w, then, dialog', conflict')
    <3>1. dialog' # NoTimer => then = Nothing /\ c = NoTimer /\ Carries(u, w, dialog')
      BY <1>1, <1>2, <2>11
    <3>2. then.op = "change" => Carries(u, w, then.timer)
      BY <2>11
    <3>3. \A v \in then.timers : v # w /\ v \notin ToSet(u.list) /\ u.done[v] = 0 /\ Nobody[v] = 0
      BY <1>14, <2>6 DEF Nobody
    <3> QED
      BY <1>1, <1>10, <2>9, <2>10, <3>1, <3>2, <3>3 DEF Handed
  <2>13. RemovedSoon(u, w, then)
    <3> SUFFICES ASSUME then.op = "remove", ~EditConflicts, PassTime < KeepTime
                 PROVE  RemovedSoon(u, w, then)
      BY DEF RemovedSoon
    <3>1. PICK x \in Timer : x = then.timer
      BY <1>15
    <3>2. x # w
      BY <1>15, <1>19, <3>1
    <3>3. u.entry[x] = r.entry[x] /\ u.list = r.list /\ u.done = r.done
      BY <2>4, <2>6, <3>2
    <3>4. Removed(u, then, bound)
      BY <1>15, <3>1, <3>2, <3>3 DEF Removed
    <3> QED
      BY <1>15, <3>1, <3>2, <3>4 DEF RemovedSoon
  <2> QED
    BY <1>0, <2>7, <2>12, <2>13, EnqueueKeeps
<1> QED
  BY <1>17, <1>18, <1>19

(* An exception keeps what does not depend on the program going on.             *)
LEMMA FailKeeps ==
  ASSUME IInv, Frame, pc \in {"idle", "after"}, NEW s \in Lists,
         s.list = timer_list, s.done = processed_timers,
         \A v \in Timer : HasService(v, s.entry[v]),
         ~EditConflicts => conflict' = NoTimer, ~(~EditConflicts /\ PassTime < KeepTime),
         Fail(s)
  PROVE  IInv'
<1>1. /\ entry' = s.entry /\ timer_list' = timer_list /\ processed_timers' = processed_timers
      /\ warped' = warped /\ after' = after /\ bound' = bound /\ slack' = slack
      /\ pc' = "error"
  BY DEF Fail, Put
<1>2. TypeOK'
  <2>1. S' = s
    BY <1>1 DEF S, Lists
  <2>2. now' \in 0 .. MaxTime
    BY DEF IInv, TypeOK, Frame
  <2> QED
    BY <1>1, <2>1, <2>2 DEF IInv, TypeOK, Frame, File
<1>3. ListsAgree' /\ DialogKept' /\ HandlerKept' /\ RemovalKept'
  BY <1>1 DEF ListsAgree, DialogKept, HandlerKept, RemovalKept
<1>4. ServiceHeld'
  BY <1>1 DEF ServiceHeld, HasService
<1>5. WarpKept'
  <2>1. Over(warped') = {}
    BY <1>1 DEF IInv, WarpKept, Over
  <2> QED
    BY <1>1, <2>1 DEF WarpKept
<1>6. LoadKept'
  BY <1>1 DEF IInv, LoadKept, Known, Over
<1>7. SortedKept'
  BY <1>1 DEF SortedKept
<1>8. NoErrorKept'
  BY DEF NoErrorKept
<1> QED
  BY <1>2, <1>3, <1>4, <1>5, <1>6, <1>7, <1>8 DEF IInv

(* timeChanged takes a timer out of the list it is in and queues it again.      *)
LEMMA ChangedKeeps ==
  ASSUME IInv, Frame, pc \in {"idle", "after"}, NEW w \in Timer, NEW e \in Entry,
         NEW then \in After,
         e.state = entry[w].state, e.record_service = entry[w].record_service,
         w \in Known \/ entry[w].state = Ended,
         \A v \in Timer \ {w} : v = conflict <=> v = conflict',
         dialog' # NoTimer => /\ dialog' = w /\ then = Nothing /\ conflict' = NoTimer
                              /\ e.state # Ended /\ e.repeated # {} /\ ~e.disabled,
         ~EditConflicts => conflict' = NoTimer,
         then.op \in {"nothing", "remove"}, then.timers = {},
         then.op = "remove" => /\ pc = "idle" /\ then.timer = w
                               /\ e.repeated = {} /\ e.cancelled /\ e.end = now
                               /\ e.begin <= now /\ e.state < Ended,
         timeChanged(w, e, then)
  PROVE  IInv'
<1>0. /\ now \in Nat /\ entry \in [Timer -> Entry] /\ processed_timers \in [Timer -> Nat]
      /\ timer_list \in Seq(Timer) /\ pc # "error" /\ Nobody \in [Timer -> Nat]
      /\ S.entry = entry /\ S.list = timer_list /\ S.done = processed_timers /\ S \in Lists
  BY DEF IInv, TypeOK, Lists, S, Nobody
<1>1. PICK c : c = conflict'
  OBVIOUS
<1>2. PICK d : d = dialog'
  OBVIOUS
<1>3. warped = Nobody
  BY <1>0, NobodyWarped DEF IInv
<1>4. Kept(S, Nobody, after, dialog, conflict)
  BY <1>0, <1>3, KeptNow
<1>5. PICK k \in Entry :
        /\ k = EntryTimeChanged(e) /\ k.state = e.state /\ k.begin = e.begin /\ k.end = e.end
        /\ k.cancelled = e.cancelled /\ k.disabled = e.disabled
        /\ k.repeated = e.repeated /\ k.record_service = e.record_service
  BY TimeChangedEntry
<1>6. IsInjective(timer_list) /\ Fits(S, Nobody, conflict, w)
      /\ \A v \in Timer \ {w} : Fits(S, Nobody, conflict, v)
  BY <1>0, <1>4 DEF Kept, Consistent
<1>7. HasService(w, k)
  <2>1. HasService(w, entry[w])
    BY <1>0, <1>6 DEF Fits
  <2>2. k.state = entry[w].state /\ k.record_service = entry[w].record_service
    BY <1>5
  <2> QED
    BY <2>1, <2>2 DEF HasService
<1>8. /\ Nobody[w] = 0 /\ processed_timers[w] <= 1 /\ processed_timers[w] \in Nat
      /\ w \in ToSet(timer_list) => processed_timers[w] = 0 /\ k.state < Ended
      /\ processed_timers[w] > 0 => k.state = Ended
      /\ w \in ToSet(timer_list) \/ processed_timers[w] > 0 \/ k.state = Ended
      /\ w \notin ToSet(timer_list) /\ processed_timers[w] = 0 => w = conflict
  <2>1. Nobody[w] = 0 /\ processed_timers[w] \in Nat
    BY <1>0 DEF Nobody
  <2>2. Blank.state # Ended
    BY DEF Blank, Waiting, Ended
  <2>3. w \in Known => w \in ToSet(timer_list) \/ processed_timers[w] > 0
    BY DEF Known, Over
  <2> QED
    BY <1>0, <1>5, <1>6, <2>1, <2>2, <2>3 DEF Fits
<1> DEFINE s == [S EXCEPT !.entry[w] = k]
<1>9. IF k.state = Ended
      THEN IF w \in Over(processed_timers)
           THEN enqueue([s EXCEPT !.entry[w].state = Waiting, !.done = Take(@, w)], w, then)
           ELSE Fail(s)
      ELSE IF w \in ToSet(timer_list)
           THEN enqueue([s EXCEPT !.list = RemoveFirst(@, w)], w, then)
           ELSE Settle(s, then)
  BY <1>5 DEF timeChanged
<1>10. PICK ent \in [Timer -> Entry] : ent = [entry EXCEPT ![w] = k]
  BY <1>0
<1>11. ent[w] = k /\ \A v \in Timer \ {w} : ent[v] = entry[v]
  BY <1>0, <1>10
<1>12. s = [entry |-> ent, list |-> timer_list, done |-> processed_timers]
  BY <1>10 DEF S
<1> HIDE DEF s
<1>13. s \in Lists
  BY <1>0, <1>12 DEF Lists
<1>14. PICK l \in Seq(Timer) :
         /\ l = RemoveFirst(timer_list, w) /\ IsInjective(l)
         /\ ToSet(l) = ToSet(timer_list) \ {w}
         /\ \A when : Sorted(timer_list, when) => Sorted(l, when)
  BY <1>0, <1>6, RemoveKeeps
<1>15. ASSUME NEW u \in Lists, enqueue(u, w, then), IsInjective(u.list),
              ToSet(u.list) = ToSet(timer_list) \ {w}, u.done[w] = 0,
              \A v \in Timer \ {w} : u.entry[v] = entry[v] /\ u.done[v] = processed_timers[v],
              HasService(w, u.entry[w]),
              k.state < Ended => u.entry[w] = k,
              ~EditConflicts => InOrder(u)
       PROVE  IInv'
  <2>1. ASSUME NEW v \in Timer \ {w} PROVE Fits(u, Nobody, c, v)
    <3>1. Fits(S, Nobody, conflict, v) /\ (v = conflict <=> v = c)
      BY <1>1, <1>6, <2>1
    <3>2. u.entry[v] = S.entry[v] /\ u.done[v] = S.done[v]
          /\ (v \in ToSet(u.list) <=> v \in ToSet(S.list))
      BY <1>0, <1>15, <2>1
    <3> QED
      BY <3>1, <3>2 DEF Fits
  <2>2. InHand(u, Nobody, c, w)
    BY <1>8, <1>15, <2>1 DEF InHand
  <2>3. d # NoTimer => then = Nothing /\ c = NoTimer /\ Carries(u, w, d)
    <3> SUFFICES ASSUME d # NoTimer PROVE then = Nothing /\ c = NoTimer /\ Carries(u, w, d)
      OBVIOUS
    <3>1. d = w /\ then = Nothing /\ c = NoTimer /\ e.state # Ended /\ e.repeated # {}
      BY <1>1, <1>2
    <3>2. ~e.disabled
      BY <1>2
    <3>3. k.state < Ended
      BY <1>5, <3>1 DEF Entry, Waiting, Ended
    <3>4. u.entry[w] = k
      BY <1>15, <3>3
    <3>5. u.entry[w].state # Ended /\ u.entry[w].repeated # {}
      BY <1>5, <3>1, <3>4
    <3>6. ~u.entry[w].disabled
      BY <1>5, <3>2, <3>4
    <3> QED
      BY <3>1, <3>5, <3>6 DEF Carries
  <2>4. Handed(u, Nobody, w, then, dialog', conflict')
    BY <1>1, <1>2, <1>15, <2>2, <2>3 DEF Handed
  <2>5. RemovedSoon(u, w, then)
    <3> SUFFICES ASSUME then.op = "remove" PROVE RemovedSoon(u, w, then)
      BY DEF RemovedSoon
    <3>1. then.timer = w /\ e.repeated = {} /\ e.end = now /\ e.begin <= now /\ e.state < Ended
      OBVIOUS
    <3>2. e.cancelled
      OBVIOUS
    <3>3. u.entry[w] = k
      BY <1>5, <1>15, <3>1
    <3>4. k.cancelled
      BY <1>5, <3>2
    <3> QED
      BY <1>5, <3>1, <3>3, <3>4 DEF RemovedSoon
  <2> QED
    BY <1>15, <2>4, <2>5, EnqueueKeeps
<1>16. ~EditConflicts => /\ conflict = NoTimer
                         /\ Sorted(timer_list, Activation(entry))
  BY <1>0 DEF IInv, SortedKept
<1>17. CASE k.state = Ended /\ w \in Over(processed_timers)
  <2>1. w \notin ToSet(timer_list) /\ processed_timers[w] = 1
    BY <1>8, <1>17 DEF Over, Ended
  <2>2. PICK n \in Entry : n = [k EXCEPT !.state = Waiting]
                           /\ n.state = Waiting /\ n.record_service = k.record_service
    <3>1. Waiting \in Waiting .. Ended
      BY DEF Waiting, Ended
    <3>2. [k EXCEPT !.state = Waiting] \in Entry
      BY <3>1 DEF Entry
    <3> QED
      BY <3>2 DEF Entry
  <2>3. HasService(w, n)
    <3>1. k.record_service = "none"
      BY <1>7, <1>17 DEF HasService, Prepared, Running, Ended
    <3> QED
      BY <2>2, <3>1 DEF HasService, Waiting, Prepared, Running
  <2>4. PICK en \in [Timer -> Entry] : en = [ent EXCEPT ![w] = n]
    OBVIOUS
  <2>5. en[w] = n /\ \A v \in Timer \ {w} : en[v] = entry[v]
    BY <1>11, <2>4
  <2>6. PICK dn \in [Timer -> Nat] : dn = [processed_timers EXCEPT ![w] = @ - 1]
    <3>1. processed_timers[w] - 1 \in Nat
      BY <2>1
    <3> QED
      BY <1>0, <3>1
  <2>7. dn[w] = 0 /\ \A v \in Timer \ {w} : dn[v] = processed_timers[v]
    BY <1>0, <2>1, <2>6
  <2> DEFINE u == [entry |-> en, list |-> timer_list, done |-> dn]
  <2>8. [s EXCEPT !.entry[w].state = Waiting, !.done = Take(@, w)] = u
    <3>1. s.entry = ent /\ s.list = timer_list /\ s.done = processed_timers
      BY <1>12
    <3>2. en = [ent EXCEPT ![w].state = Waiting]
      BY <1>11, <2>2, <2>4
    <3>3. [s EXCEPT !.entry[w].state = Waiting, !.done = Take(@, w)]
          = [s EXCEPT !.entry = en, !.done = dn]
      BY <2>6, <3>1, <3>2 DEF Take
    <3>4. [s EXCEPT !.entry = en, !.done = dn] = u
      <4>1. PICK t \in Lists : t = [entry |-> en, list |-> timer_list, done |-> processed_timers]
        BY <1>0 DEF Lists
      <4>2. [s EXCEPT !.entry = en] = t
        BY <1>13, <3>1, <4>1, Assigned
      <4>3. [t EXCEPT !.done = dn] = u
        BY <4>1, Assigned
      <4>4. [s EXCEPT !.entry = en, !.done = dn] = [[s EXCEPT !.entry = en] EXCEPT !.done = dn]
        OBVIOUS
      <4> QED
        BY <4>2, <4>3, <4>4
    <3> QED
      BY <3>3, <3>4
  <2>9. enqueue(u, w, then)
    BY <1>9, <1>17, <2>8
  <2>10. u \in Lists /\ u.entry = en /\ u.list = timer_list /\ u.done = dn
    BY <1>0 DEF Lists
  <2> HIDE DEF u
  <2>11. ~EditConflicts => InOrder(u)
    <3>1. Sorted(timer_list, Activation(entry)) => Sorted(timer_list, Activation(en))
      <4>1. PICK q \in Seq(Timer) : q = timer_list
        BY <1>0
      <4>2. PICK old \in [Timer -> Entry] : old = entry
        BY <1>0
      <4>3. w \notin ToSet(q) /\ \A v \in Timer \ {w} : old[v] = en[v]
        BY <2>1, <2>5, <4>1, <4>2
      <4>4. Sorted(q, Activation(old)) => Sorted(q, Activation(en))
        BY <4>3, OrderElsewhere
      <4> QED
        BY <4>1, <4>2, <4>4
    <3> QED
      BY <1>16, <2>10, <3>1 DEF InOrder
  <2>12. ~(k.state < Ended)
    BY <1>17 DEF Ended
  <2>13. ToSet(u.list) = ToSet(timer_list) \ {w} /\ IsInjective(u.list) /\ u.done[w] = 0
         /\ HasService(w, u.entry[w])
         /\ \A v \in Timer \ {w} : u.entry[v] = entry[v] /\ u.done[v] = processed_timers[v]
    BY <1>6, <2>1, <2>3, <2>5, <2>7, <2>10
  <2> QED
    BY <1>15, <2>9, <2>10, <2>11, <2>12, <2>13
<1>18. CASE k.state = Ended /\ w \notin Over(processed_timers)
  <2>1. Fail(s)
    BY <1>9, <1>18
  <2>2. w \notin ToSet(timer_list) /\ processed_timers[w] = 0
    BY <1>8, <1>18 DEF Over, Ended
  <2>3. conflict = w /\ w # NoTimer
    BY <1>8, <2>2, TimerAssumption
  <2>4. EditConflicts
    BY <1>16, <2>3
  <2>5. s.entry = ent /\ s.list = timer_list /\ s.done = processed_timers
    BY <1>12
  <2>6. ASSUME NEW v \in Timer PROVE HasService(v, s.entry[v])
    <3>1. HasService(v, entry[v])
      BY DEF IInv, ServiceHeld
    <3> QED
      BY <1>7, <1>11, <2>5, <3>1
  <2> QED
    BY <1>13, <2>1, <2>4, <2>5, <2>6, FailKeeps
<1>19. CASE k.state # Ended
  <2>1. w \in ToSet(timer_list) /\ processed_timers[w] = 0
    BY <1>8, <1>19
  <2> DEFINE u == [entry |-> ent, list |-> l, done |-> processed_timers]
  <2>2. [s EXCEPT !.list = RemoveFirst(@, w)] = u
    BY <1>12, <1>14
  <2>3. enqueue(u, w, then)
    BY <1>9, <1>19, <2>1, <2>2
  <2>4. u \in Lists /\ u.entry = ent /\ u.list = l /\ u.done = processed_timers
    BY <1>0 DEF Lists
  <2> HIDE DEF u
  <2>5. ~EditConflicts => InOrder(u)
    <3>1. Sorted(timer_list, Activation(entry)) => Sorted(l, Activation(entry))
      BY <1>14
    <3>2. w \notin ToSet(l)
      BY <1>14
    <3>3. Sorted(l, Activation(entry)) => Sorted(l, Activation(ent))
      <4>1. PICK q \in Seq(Timer) : q = l
        BY <1>14
      <4>2. PICK old \in [Timer -> Entry] : old = entry
        BY <1>0
      <4>3. PICK new \in [Timer -> Entry] : new = ent
        BY <1>0
      <4>4. w \notin ToSet(q) /\ \A v \in Timer \ {w} : old[v] = new[v]
        BY <1>11, <3>2, <4>1, <4>2, <4>3
      <4>5. Sorted(q, Activation(old)) => Sorted(q, Activation(new))
        BY <4>4, OrderElsewhere
      <4> QED
        BY <4>1, <4>2, <4>3, <4>5
    <3> QED
      BY <1>16, <2>4, <3>1, <3>3 DEF InOrder
  <2>6. ToSet(u.list) = ToSet(timer_list) \ {w} /\ IsInjective(u.list) /\ u.done[w] = 0
        /\ HasService(w, u.entry[w]) /\ u.entry[w] = k
        /\ \A v \in Timer \ {w} : u.entry[v] = entry[v] /\ u.done[v] = processed_timers[v]
    BY <1>7, <1>11, <1>14, <2>1, <2>4
  <2> QED
    BY <1>15, <2>3, <2>4, <2>5, <2>6
<1> QED
  BY <1>17, <1>18, <1>19

-----------------------------------------------------------------------------
(* The steps.                                                                   *)

(* What does not depend on the time of day survives a step of the clocks.       *)
LEMMA ClockKeeps ==
  ASSUME IInv, UNCHANGED <<entry, timer_list, processed_timers, warped, pc, bound, after,
                           dialog, conflict, saved>>,
         now' \in 0 .. MaxTime, lastActivation' \in 0 .. MaxTime, wait' \in 0 .. MaxWaitTime,
         slack' \in 0 .. PassTime, upsets' \in 0 .. MaxUpsets, edits' \in 0 .. MaxEdits
  PROVE  /\ TypeOK' /\ ListsAgree' /\ ServiceHeld' /\ DialogKept' /\ LoadKept'
         /\ SortedKept' /\ NoErrorKept'
<1>1. S' = S
  BY DEF S
<1>2. TypeOK'
  BY <1>1 DEF IInv, TypeOK
<1>3. ListsAgree'
  BY DEF IInv, ListsAgree, Known
<1>4. ServiceHeld'
  BY DEF IInv, ServiceHeld
<1>5. DialogKept'
  BY <1>1 DEF IInv, DialogKept
<1>6. LoadKept'
  BY DEF IInv, LoadKept, Known
<1>7. SortedKept'
  BY DEF IInv, SortedKept
<1>8. NoErrorKept'
  BY DEF IInv, NoErrorKept, NoValueError
<1> QED
  BY <1>2, <1>3, <1>4, <1>5, <1>6, <1>7, <1>8

(* Time goes on.                                                              *)
LEMMA TickKeeps == IInv /\ Tick => IInv'
<1> SUFFICES ASSUME IInv, Tick PROVE IInv'
  OBVIOUS
<1>1. /\ now \in Nat /\ now < MaxTime /\ MaxTime \in Nat /\ wait \in 0 .. MaxWaitTime
      /\ bound \in Nat /\ slack \in 0 .. PassTime /\ PassTime \in Nat /\ MaxWaitTime \in Nat
      /\ lastActivation \in 0 .. MaxTime /\ upsets \in 0 .. MaxUpsets
      /\ edits \in 0 .. MaxEdits
      /\ entry \in [Timer -> Entry]
  BY TimerAssumption DEF IInv, TypeOK, Lists, S, Tick
<1>2. /\ UNCHANGED <<entry, timer_list, processed_timers, warped, lastActivation, pc, bound,
                     after, dialog, conflict, saved, upsets, edits>>
      /\ now' = now + 1 /\ wait' = IF wait > 0 THEN wait - 1 ELSE 0
      /\ \/ pc = "idle" /\ slack' = slack
         \/ pc \in {"warp", "pass", "after"} /\ slack > 0 /\ slack' = slack - 1
  BY DEF Tick, screens, limits
<1>3. now' \in 0 .. MaxTime /\ wait' \in 0 .. MaxWaitTime /\ slack' \in 0 .. PassTime
  BY <1>1, <1>2
<1>4. /\ TypeOK' /\ ListsAgree' /\ ServiceHeld' /\ DialogKept' /\ LoadKept'
      /\ SortedKept' /\ NoErrorKept'
  BY <1>1, <1>2, <1>3, ClockKeeps
<1>5. WarpKept'
  <2>1. \A w \in Timer : entry[w].end <= now => entry[w].end <= now'
    BY <1>1, <1>2 DEF Entry
  <2>2. \A w \in Over(warped) : /\ pc \in {"warp", "error"} /\ entry[w].state = Ended
                                /\ w \notin ToSet(timer_list)
    BY DEF IInv, WarpKept
  <2>3. pc = "warp" => \A w \in Over(processed_timers) : entry[w].disabled \/ entry[w].end <= now
    BY DEF IInv, WarpKept
  <2>4. \A w \in Over(processed_timers) : w \in Timer
    BY DEF Over
  <2> QED
    BY <1>2, <2>1, <2>2, <2>3, <2>4 DEF WarpKept
<1>6. HandlerKept'
  BY <1>1, <1>2 DEF IInv, HandlerKept
<1>7. RemovalKept'
  <2> SUFFICES ASSUME after.op = "remove", pc # "error", ~EditConflicts, PassTime < KeepTime
               PROVE  RemovalKept'
    BY <1>2 DEF RemovalKept
  <2>1. pc # "idle"
    BY DEF IInv, HandlerKept, Nothing
  <2>2. now' + slack' = now + slack
    BY <1>1, <1>2, <2>1
  <2> DEFINE w == after.timer
  <2>3. /\ w \in Timer /\ entry[w].repeated = {}
        /\ entry[w].end <= now /\ now + slack <= entry[w].end + PassTime
        /\ \/ w \in Over(processed_timers)
           \/ w \in Over(warped)
           \/ /\ w \in ToSet(timer_list) /\ pc \in {"warp", "pass"}
              /\ entry[w].cancelled /\ entry[w].state \in {Prepared, Running}
              /\ pc = "pass" => /\ getNextActivation(entry[w]) <= bound
                                /\ entry[w].end <= bound
              /\ pc = "warp" => getNextActivation(entry[w]) <= now
    BY DEF IInv, RemovalKept
  <2> HIDE DEF w
  <2>4. PICK e \in Entry : e = entry[w]
    BY <1>1, <2>3
  <2>5. e.end \in Int /\ getNextActivation(e) \in Int
    BY <2>4 DEF Entry, getNextActivation
  <2>6. e.end <= now' /\ (getNextActivation(e) <= now => getNextActivation(e) <= now')
    BY <1>1, <1>2, <2>3, <2>4, <2>5
  <2>7. Over(processed_timers') = Over(processed_timers) /\ Over(warped') = Over(warped)
    BY <1>2
  <2> HIDE DEF Tick
  <2> QED
    BY <1>2, <2>2, <2>3, <2>4, <2>6, <2>7 DEF RemovalKept, w, getNextActivation
<1> QED
  BY <1>4, <1>5, <1>6, <1>7 DEF IInv

(* The clock is set back.                                                     *)
LEMMA WarpBackKeeps == IInv /\ WarpBack => IInv'
<1> SUFFICES ASSUME IInv, WarpBack PROVE IInv'
  OBVIOUS
<1>1. /\ now \in 0 .. MaxTime /\ MaxTime \in Nat /\ wait \in 0 .. MaxWaitTime
      /\ slack \in 0 .. PassTime /\ lastActivation \in 0 .. MaxTime
      /\ upsets \in 0 .. MaxUpsets /\ edits \in 0 .. MaxEdits /\ MaxUpsets \in Nat
  BY TimerAssumption DEF IInv, TypeOK
<1>2. PICK n \in 0 .. now - 1 : now' = n
  BY DEF WarpBack
<1>3. /\ UNCHANGED <<entry, timer_list, processed_timers, warped, lastActivation, wait, pc,
                     bound, slack, after, dialog, conflict, saved, edits>>
      /\ pc = "idle" /\ upsets > 0 /\ upsets' = upsets - 1
  BY DEF WarpBack, screens
<1>4. now' \in 0 .. MaxTime /\ upsets' \in 0 .. MaxUpsets
  BY <1>1, <1>2, <1>3
<1>5. /\ TypeOK' /\ ListsAgree' /\ ServiceHeld' /\ DialogKept' /\ LoadKept'
      /\ SortedKept' /\ NoErrorKept'
  BY <1>1, <1>3, <1>4, ClockKeeps
<1>6. after = Nothing /\ Over(warped) = {}
  BY <1>3 DEF IInv, HandlerKept, WarpKept
<1>7. WarpKept' /\ HandlerKept' /\ RemovalKept'
  BY <1>3, <1>6 DEF WarpKept, HandlerKept, RemovalKept, Nothing
<1> QED
  BY <1>5, <1>7 DEF IInv

(* Nothing is being done for anyone but w.                                      *)
LEMMA IdleFacts ==
  ASSUME IInv, pc \in {"idle", "pass", "after"}
  PROVE  /\ S \in Lists /\ S.entry = entry /\ S.list = timer_list
         /\ S.done = processed_timers /\ entry \in [Timer -> Entry]
         /\ timer_list \in Seq(Timer) /\ processed_timers \in [Timer -> Nat]
         /\ now \in Nat /\ Nobody \in [Timer -> Nat]
         /\ after \in After /\ Nothing \in After /\ AfterSave \in After
         /\ Kept(S, Nobody, after, dialog, conflict)
<1>1. warped = Nobody /\ pc # "error"
  BY NobodyWarped DEF IInv
<1>2. Kept(S, Nobody, after, dialog, conflict)
  BY <1>1, KeptNow
<1>3. Nothing \in After /\ AfterSave \in After
  BY DEF Nothing, AfterSave, After
<1> QED
  BY <1>2, <1>3 DEF IInv, TypeOK, Lists, S, Nobody

(* A poll has nothing left to do after the pass.                              *)
LEMMA NothingToCarry ==
  Nothing.op = "nothing" /\ Nothing.timers = {}
BY DEF Nothing

(* The eTimer fires.                                                          *)
LEMMA PollKeeps == IInv /\ Poll => IInv'
<1> SUFFICES ASSUME IInv, Poll PROVE IInv'
  OBVIOUS
<1>1. Frame /\ dialog' = dialog /\ conflict' = conflict /\ pc = "idle"
      /\ calcNextActivation(S, Nothing)
  BY DEF Poll, Frame, IInv, TypeOK, File, clocks, screens, limits
<1>2. after = Nothing
  BY <1>1 DEF IInv, HandlerKept
<1>3. Kept(S, Nobody, Nothing, dialog', conflict')
  BY <1>1, <1>2, IdleFacts
<1>4. Removed(S, Nothing, now)
  BY NothingToCarry DEF Removed
<1> QED
  BY <1>1, <1>3, <1>4, IdleFacts, CalcKeeps

(* One more timer gets another chance.                                        *)
LEMMA ReEvaluateKeeps == IInv /\ ReEvaluate => IInv'
<1> SUFFICES ASSUME IInv, ReEvaluate PROVE IInv'
  OBVIOUS
<1>1. /\ pc = "warp" /\ Frame /\ dialog' = dialog /\ conflict' = conflict /\ after' = after
      /\ UNCHANGED now
  BY DEF ReEvaluate, Frame, IInv, TypeOK, File, clocks, screens, limits
<1>2. /\ S \in Lists /\ S.entry = entry /\ S.list = timer_list /\ S.done = processed_timers
      /\ entry \in [Timer -> Entry] /\ timer_list \in Seq(Timer)
      /\ processed_timers \in [Timer -> Nat] /\ warped \in [Timer -> Nat] /\ after \in After
      /\ now \in 0 .. MaxTime /\ bound \in 0 .. MaxTime /\ slack \in 0 .. PassTime /\ TypeOK
      /\ now \in Nat
  BY TimerAssumption DEF IInv, TypeOK, Lists, S
<1>3. Kept(S, warped, after, dialog, conflict)
  BY <1>1, KeptNow
<1>4. /\ \A w \in Over(warped) : entry[w].state = Ended /\ w \notin ToSet(timer_list)
      /\ \A w \in Over(processed_timers) : entry[w].disabled \/ entry[w].end <= now
  BY <1>1 DEF IInv, WarpKept
<1>5. ASSUME after.op = "remove", ~EditConflicts, PassTime < KeepTime
      PROVE  LET w == after.timer
             IN  /\ w \in Timer /\ entry[w].repeated = {}
                 /\ entry[w].end <= now /\ now + slack <= entry[w].end + PassTime
                 /\ \/ w \in Over(processed_timers)
                    \/ w \in Over(warped)
                    \/ /\ w \in ToSet(timer_list) /\ entry[w].cancelled
                       /\ entry[w].state \in {Prepared, Running}
                       /\ getNextActivation(entry[w]) <= now
  BY <1>1, <1>5 DEF IInv, RemovalKept
<1>6. CASE Over(warped) = {}
  <2>1. /\ entry' = entry /\ timer_list' = timer_list /\ processed_timers' = processed_timers
        /\ warped' = warped /\ bound' = now /\ slack' = slack /\ pc' = "pass"
    BY <1>2, <1>6 DEF ReEvaluate, Put
  <2>2. /\ TypeOK' /\ ListsAgree' /\ ServiceHeld' /\ DialogKept' /\ LoadKept'
        /\ SortedKept' /\ NoErrorKept'
    BY <1>1, <1>2, <1>3, <2>1, KeptThen
  <2>3. WarpKept'
    BY <1>6, <2>1 DEF WarpKept
  <2>4. HandlerKept'
    BY <1>1, <1>2, <2>1 DEF HandlerKept
  <2>5. RemovalKept'
    <3> SUFFICES ASSUME after.op = "remove", ~EditConflicts, PassTime < KeepTime
                 PROVE  RemovalKept'
      BY <1>1 DEF RemovalKept
    <3>1. Over(processed_timers') = Over(processed_timers) /\ Over(warped') = {}
      BY <1>6, <2>1
    <3> HIDE DEF ReEvaluate
    <3> QED
      BY <1>1, <1>5, <1>6, <2>1, <3>1 DEF RemovalKept, getNextActivation
  <2> QED
    BY <2>2, <2>3, <2>4, <2>5 DEF IInv
<1>7. CASE Over(warped) # {}
  <2>1. PICK w \in Over(warped) :
          /\ warped' = Take(warped, w)
          /\ Put(addTimerEntry([S EXCEPT !.entry[w] = resetState(@)], w))
    BY <1>7 DEF ReEvaluate
  <2>2. pc' = "warp" /\ bound' = bound /\ slack' = slack
    BY <1>1, <1>7, <2>1 DEF ReEvaluate, Put
  <2>3. w \in Timer /\ warped[w] > 0
    BY <2>1 DEF Over
  <2>4. PICK c : c = conflict /\ c = conflict'
    BY <1>1
  <2>5. PICK d : d = dialog /\ d = dialog'
    BY <1>1
  <2>6. \A v \in Timer : Fits(S, warped, c, v)
    BY <1>3, <2>4 DEF Kept, Consistent
  <2>7. warped[w] = 1 /\ processed_timers[w] = 0 /\ w \notin ToSet(timer_list)
        /\ entry[w].state = Ended /\ HasService(w, entry[w])
    <3>1. Fits(S, warped, c, w) /\ warped[w] \in Nat /\ processed_timers[w] \in Nat
      BY <1>2, <2>3, <2>6
    <3> QED
      BY <1>2, <2>3, <3>1 DEF Fits
  <2>8. PICK x \in [Timer -> Nat] : x = Take(warped, w)
    <3>1. warped[w] - 1 \in Nat
      BY <2>7
    <3> QED
      BY <1>2, <3>1 DEF Take
  <2>9. x[w] = 0 /\ \A v \in Timer \ {w} : x[v] = warped[v]
    BY <1>2, <2>3, <2>7, <2>8 DEF Take
  <2>10. PICK e \in Entry : e = entry[w]
    BY <1>2, <2>3
  <2>11. PICK n \in Entry :
           /\ n = resetState(e) /\ n.state = Waiting /\ n.end = e.end
           /\ n.disabled = e.disabled /\ n.repeated = e.repeated
           /\ n.record_service = e.record_service
    <3> DEFINE m == [e EXCEPT !.state = Waiting, !.cancelled = FALSE, !.first_try_prepare = TRUE]
    <3>1. Waiting \in Waiting .. Ended
      BY DEF Waiting, Ended
    <3>2. m \in Entry
      BY <3>1 DEF Entry
    <3>3. /\ m.state = Waiting /\ m.end = e.end /\ m.disabled = e.disabled
          /\ m.repeated = e.repeated /\ m.record_service = e.record_service
      BY DEF Entry
    <3>4. resetState(e) = EntryTimeChanged(m)
      BY DEF resetState
    <3> HIDE DEF m
    <3> QED
      BY <3>2, <3>3, <3>4, TimeChangedEntry
  <2>12. HasService(w, n)
    <3>1. e.record_service = "none"
      BY <2>7, <2>10 DEF HasService, Prepared, Running, Ended
    <3> QED
      BY <2>11, <3>1 DEF HasService, Waiting, Prepared, Running
  <2>13. PICK ent \in [Timer -> Entry] : ent = [entry EXCEPT ![w] = n]
    BY <1>2
  <2>14. ent[w] = n /\ \A v \in Timer \ {w} : ent[v] = entry[v]
    BY <1>2, <2>3, <2>13
  <2> DEFINE u == [entry |-> ent, list |-> timer_list, done |-> processed_timers]
  <2>15. [S EXCEPT !.entry[w] = resetState(@)] = u
    <3>1. PICK q \in Lists : q = S
      BY <1>2
    <3>2. q.entry = entry /\ q.list = timer_list /\ q.done = processed_timers
      BY <1>2, <3>1
    <3>3. [q EXCEPT !.entry[w] = resetState(@)] = [q EXCEPT !.entry = ent]
      BY <2>10, <2>11, <2>13, <3>2
    <3> QED
      BY <3>1, <3>2, <3>3, Assigned
  <2>16. u \in Lists /\ u.entry = ent /\ u.list = timer_list /\ u.done = processed_timers
    BY <1>2 DEF Lists
  <2>17. PICK t \in Lists : t = u
    BY <2>16
  <2>18. t.entry = ent /\ t.list = timer_list /\ t.done = processed_timers
    BY <2>16, <2>17
  <2>19. Put(addTimerEntry(t, w))
    BY <2>1, <2>15, <2>17
  <2> HIDE DEF u
  <2>20. Others(S, t, w)
    BY <1>2, <2>14, <2>18 DEF Others
  <2>21. ASSUME NEW v \in Timer \ {w} PROVE Fits(t, x, c, v)
    <3>1. Fits(S, warped, c, v) /\ x[v] = warped[v] /\ t.entry[v] = S.entry[v]
      BY <1>2, <2>6, <2>9, <2>14, <2>18, <2>21
    <3> QED
      BY <1>2, <2>18, <2>21, <3>1 DEF Fits
  <2>22. InHand(t, x, c, w)
    <3>1. IsInjective(t.list)
      BY <1>2, <1>3, <2>18 DEF Kept, Consistent
    <3> QED
      BY <2>7, <2>9, <2>12, <2>14, <2>18, <2>21, <3>1 DEF InHand
  <2>23. ASSUME NEW v, GoesOn(S, v) PROVE Carries(t, w, v)
    <3>1. v \in ToSet(timer_list) /\ v # w
      BY <1>2, <2>7, <2>23 DEF GoesOn
    <3>2. v \in Timer
      BY <1>2, <3>1, ElementOfSeq DEF ToSet
    <3>3. GoesOn(t, v)
      BY <1>2, <2>14, <2>18, <2>23, <3>1, <3>2 DEF GoesOn
    <3> QED
      BY <3>1, <3>3 DEF Carries
  <2>24. Handed(t, x, w, after, d, c)
    <3>1. d # NoTimer => after = Nothing /\ c = NoTimer /\ Carries(t, w, d)
      BY <1>3, <2>4, <2>5, <2>23 DEF Kept
    <3>2. after.op = "change" => Carries(t, w, after.timer)
      BY <1>3, <2>23 DEF Kept
    <3>3. ASSUME NEW v \in after.timers
          PROVE  v # w /\ v \notin ToSet(t.list) /\ t.done[v] = 0 /\ x[v] = 0
      <4>1. v \in Timer /\ v \notin ToSet(timer_list) /\ processed_timers[v] = 0 /\ warped[v] = 0
        BY <1>2, <1>3, <3>3 DEF Kept, After
      <4> QED
        BY <2>7, <2>9, <2>18, <4>1
    <3>4. ~EditConflicts => c = NoTimer /\ InOrder(t)
      <4> SUFFICES ASSUME ~EditConflicts PROVE c = NoTimer /\ InOrder(t)
        OBVIOUS
      <4>1. PICK old \in [Timer -> Entry] : old = entry
        BY <1>2
      <4>2. PICK q \in Seq(Timer) : q = timer_list
        BY <1>2
      <4>3. c = NoTimer /\ Sorted(q, Activation(old))
        BY <1>2, <1>3, <2>4, <4>1, <4>2 DEF Kept, InOrder
      <4>4. w \notin ToSet(q) /\ \A v \in Timer \ {w} : old[v] = ent[v]
        BY <2>7, <2>14, <4>1, <4>2
      <4>5. Sorted(q, Activation(ent))
        BY <2>3, <4>3, <4>4, OrderElsewhere
      <4> QED
        BY <2>18, <4>2, <4>3, <4>5 DEF InOrder
    <3> QED
      BY <2>22, <3>1, <3>2, <3>3, <3>4 DEF Handed
  <2>25. PICK p \in Entry :
           /\ p = processRepeated(n, TRUE) /\ p.state = n.state /\ p.disabled = n.disabled
           /\ n.repeated = {} => p = n
    BY <1>2, <2>11, RepeatedEntry
  <2>26. PICK a \in Lists :
           /\ a = addTimerEntry(t, w) /\ Others(t, a, w)
           /\ IsOver(p) => a.entry[w] = [p EXCEPT !.state = Ended] /\ w \notin ToSet(a.list)
                           /\ a.done[w] = 1
           /\ ~IsOver(p) => w \in ToSet(a.list) /\ a.done[w] = 0
    BY <1>2, <2>3, <2>14, <2>18, <2>22, <2>25, AddEffect
  <2>27. Kept(a, x, after, d, c)
    BY <1>2, <2>3, <2>24, <2>26, AddKept
  <2>28. /\ entry' = a.entry /\ timer_list' = a.list /\ processed_timers' = a.done
         /\ warped' = x
    BY <2>1, <2>8, <2>19, <2>26 DEF Put
  <2>29. /\ TypeOK' /\ ListsAgree' /\ ServiceHeld' /\ DialogKept' /\ LoadKept'
         /\ SortedKept' /\ NoErrorKept'
    BY <1>1, <1>2, <2>2, <2>4, <2>5, <2>27, <2>28, KeptThen
  <2>30. ASSUME NEW v \in Timer \ {w}
         PROVE  /\ a.entry[v] = entry[v] /\ a.done[v] = processed_timers[v]
                /\ x[v] = warped[v]
                /\ (v \in ToSet(a.list) <=> v \in ToSet(timer_list))
    BY <2>9, <2>14, <2>18, <2>26, <2>30 DEF Others
  <2>31. Over(warped') = {v \in Timer : x[v] > 0}
         /\ Over(processed_timers') = {v \in Timer : a.done[v] > 0}
    BY <2>28 DEF Over
  <2>32. WarpKept'
    <3>1. ASSUME NEW v \in Timer, x[v] > 0
          PROVE  a.entry[v].state = Ended /\ v \notin ToSet(a.list)
      <4>1. v # w
        BY <2>9, <3>1
      <4>2. warped[v] > 0
        BY <2>30, <3>1, <4>1
      <4> QED
        BY <1>4, <2>30, <3>1, <4>1, <4>2 DEF Over
    <3>2. ASSUME NEW v \in Timer, a.done[v] > 0
          PROVE  a.entry[v].disabled \/ a.entry[v].end <= now
      <4>1. CASE v = w
        <5>1. IsOver(p) /\ a.entry[w] = [p EXCEPT !.state = Ended]
          BY <2>26, <3>2, <4>1
        <5>2. a.entry[w].disabled = p.disabled /\ a.entry[w].end = p.end
          BY <5>1 DEF Entry
        <5>3. p.state = Waiting
          BY <2>11, <2>25
        <5>4. p.end <= now \/ p.disabled
          BY <5>1, <5>3 DEF IsOver, shouldSkip, Waiting, Ended
        <5> QED
          BY <4>1, <5>2, <5>4
      <4>2. CASE v # w
        <5>1. processed_timers[v] > 0 /\ a.entry[v] = entry[v]
          BY <2>30, <3>2, <4>2
        <5>2. entry[v].disabled \/ entry[v].end <= now
          BY <1>4, <3>2, <5>1 DEF Over
        <5> QED
          BY <5>1, <5>2
      <4> QED
        BY <4>1, <4>2
    <3> QED
      BY <1>1, <2>2, <2>28, <2>31, <3>1, <3>2 DEF WarpKept
  <2>33. HandlerKept'
    BY <2>2 DEF HandlerKept
  <2>34. RemovalKept'
    <3> SUFFICES ASSUME after.op = "remove", ~EditConflicts, PassTime < KeepTime
                 PROVE  RemovalKept'
      BY <1>1 DEF RemovalKept
    <3>1. PICK v \in Timer : v = after.timer
      BY <1>5
    <3>2. CASE v = w
      <4>1. n.repeated = {} /\ n.end <= now /\ n.state = Waiting
            /\ now + slack <= n.end + PassTime
        BY <1>5, <2>10, <2>11, <3>1, <3>2
      <4>2. p = n
        BY <2>25, <4>1
      <4>3. IsOver(p)
        BY <4>1, <4>2 DEF IsOver, shouldSkip
      <4>4. a.entry[w] = [n EXCEPT !.state = Ended] /\ a.done[w] = 1
        BY <2>26, <4>2, <4>3
      <4>5. a.entry[w].repeated = {} /\ a.entry[w].end = n.end
        BY <4>1, <4>4 DEF Entry
      <4>6. w \in Over(processed_timers')
        BY <2>3, <2>31, <4>4
      <4> QED
        BY <1>1, <2>2, <2>3, <2>28, <3>1, <3>2, <4>1, <4>5, <4>6 DEF RemovalKept
    <3>3. CASE v # w
      <4>1. /\ a.entry[v] = entry[v] /\ a.done[v] = processed_timers[v] /\ x[v] = warped[v]
            /\ (v \in ToSet(a.list) <=> v \in ToSet(timer_list))
        BY <2>30, <3>3
      <4>2. (v \in Over(processed_timers') <=> v \in Over(processed_timers))
            /\ (v \in Over(warped') <=> v \in Over(warped))
        BY <2>31, <4>1 DEF Over
      <4>3. entry'[v] = entry[v] /\ (v \in ToSet(timer_list') <=> v \in ToSet(timer_list))
        BY <2>28, <4>1
      <4> HIDE DEF ReEvaluate
      <4> QED
        BY <1>1, <1>5, <2>2, <3>1, <4>2, <4>3 DEF RemovalKept, getNextActivation
    <3> QED
      BY <3>2, <3>3
  <2> QED
    BY <2>29, <2>32, <2>33, <2>34 DEF IInv
<1> QED
  BY <1>6, <1>7

(* The head of a sorted list is due first.                                    *)
LEMMA HeadOf ==
  ASSUME NEW s \in Seq(Timer), s # <<>>
  PROVE  /\ Head(s) \in Timer /\ Head(s) \in ToSet(s)
         /\ \A when : Sorted(s, when) => \A w \in ToSet(s) : when[Head(s)] <= when[w]
                                                             \/ w = Head(s)
<1>1. Head(s) = s[1] /\ Len(s) >= 1 /\ Len(s) \in Nat /\ DOMAIN s = 1 .. Len(s)
  OBVIOUS
<1>2. 1 \in DOMAIN s /\ s[1] \in Timer
  BY <1>1, ElementOfSeq
<1>3. ASSUME NEW when, Sorted(s, when), NEW w \in ToSet(s)
      PROVE  when[s[1]] <= when[w] \/ w = s[1]
  <2>1. PICK i \in DOMAIN s : s[i] = w
    BY DEF ToSet
  <2>2. CASE i = 1
    BY <2>1, <2>2
  <2>3. CASE i # 1
    <3>1. 1 < i
      BY <1>1, <2>1, <2>3
    <3> QED
      BY <1>2, <1>3, <2>1, <3>1 DEF Sorted
  <2> QED
    BY <2>2, <2>3
<1> QED
  BY <1>1, <1>2, <1>3 DEF ToSet

(* One iteration of processActivation.                                        *)
LEMMA IterateKeeps == IInv /\ Iterate => IInv'
<1> SUFFICES ASSUME IInv, Iterate PROVE IInv'
  OBVIOUS
<1>1. /\ pc = "pass" /\ Frame /\ dialog' = dialog /\ conflict' = conflict
      /\ timer_list # <<>> /\ doActivate(S, Head(timer_list), after)
  BY DEF Iterate, Due, Frame, IInv, TypeOK, File, clocks, screens, limits
<1>2. PICK s \in Lists : s = S /\ s.entry = entry /\ s.list = timer_list
                         /\ s.done = processed_timers
  BY <1>1, IdleFacts
<1>3. PICK w \in Timer : w = Head(timer_list) /\ w \in ToSet(timer_list)
  BY <1>1, IdleFacts, HeadOf
<1>4. Kept(s, Nobody, after, dialog, conflict)
  BY <1>1, <1>2, IdleFacts
<1>5. HasService(w, s.entry[w]) /\ s.entry[w].state < Ended
  BY <1>2, <1>3, <1>4 DEF Kept, Consistent, Fits
<1>6. PICK then \in After : then = after
  BY <1>1, IdleFacts
<1>7. doActivate(s, w, then)
  BY <1>1, <1>2, <1>3, <1>6
<1>8. /\ dialog' # NoTimer => then = Nothing /\ conflict = NoTimer /\ GoesOn(s, dialog')
      /\ then.op = "change" => GoesOn(s, then.timer)
  BY <1>1, <1>4, <1>6 DEF Kept
<1> HIDE DEF Iterate
<1> QED
  BY <1>1, <1>2, <1>3, <1>5, <1>6, <1>7, <1>8, ActivateKeeps

(* The pass is over.                                                          *)
LEMMA PassDoneKeeps == IInv /\ PassDone => IInv'
<1> SUFFICES ASSUME IInv, PassDone PROVE IInv'
  OBVIOUS
<1>1. /\ pc = "pass" /\ ~Due /\ lastActivation' = now /\ now' = now /\ bound' = 0
      /\ dialog' = dialog /\ conflict' = conflict /\ saved' = saved /\ upsets' = upsets
      /\ edits' = edits /\ after' = after /\ warped' = warped
      /\ pc' = IF after = Nothing THEN "idle" ELSE "after"
      /\ Put(S)
  BY DEF PassDone, screens, limits
<1>2. /\ S \in Lists /\ S.entry = entry /\ S.list = timer_list /\ S.done = processed_timers
      /\ timer_list \in Seq(Timer) /\ entry \in [Timer -> Entry] /\ after \in After
      /\ Kept(S, Nobody, after, dialog, conflict) /\ TypeOK /\ warped = Nobody
      /\ Nobody \in [Timer -> Nat]
  BY <1>1, IdleFacts, NobodyWarped DEF IInv
<1>3. wait' \in 0 .. MaxWaitTime
  <2>1. PICK m : wait' = IF m < 0 THEN 0 ELSE IF m < MaxWaitTime THEN m ELSE MaxWaitTime
    BY DEF PassDone
  <2>2. PICK k \in Int : wait' = IF k < 0 THEN 0 ELSE IF k < MaxWaitTime THEN k ELSE MaxWaitTime
    <3>1. now \in Int /\ MaxWaitTime \in Int
      BY TimerAssumption DEF IInv, TypeOK
    <3>2. ASSUME timer_list # <<>>
          PROVE  getNextActivation(entry[Head(timer_list)]) - now \in Int
      <4>1. Head(timer_list) \in Timer
        BY <1>2, <3>2, HeadOf
      <4>2. PICK e \in Entry : e = entry[Head(timer_list)]
        BY <1>2, <4>1
      <4>3. getNextActivation(e) \in Int
        BY DEF getNextActivation, Entry
      <4> QED
        BY <3>1, <4>2, <4>3
    <3>3. PICK k \in Int : k = IF timer_list = <<>> THEN MaxWaitTime
                               ELSE getNextActivation(entry[Head(timer_list)]) - now
      BY <3>1, <3>2
    <3> QED
      BY <3>3 DEF PassDone
  <2> QED
    BY <2>2, TimerAssumption
<1>4. Frame /\ slack' \in 0 .. PassTime /\ bound' \in 0 .. MaxTime
  BY <1>1, <1>3, TimerAssumption DEF Frame, IInv, TypeOK, File, Put
<1>5. /\ entry' = entry /\ timer_list' = timer_list /\ processed_timers' = processed_timers
      /\ slack' = IF pc' = "idle" THEN PassTime ELSE slack
  BY <1>1, <1>2 DEF Put
<1>6. /\ TypeOK' /\ ListsAgree' /\ ServiceHeld' /\ DialogKept' /\ LoadKept'
      /\ SortedKept' /\ NoErrorKept'
  BY <1>1, <1>2, <1>4, <1>5, KeptThen
<1>7. WarpKept' /\ HandlerKept'
  <2>1. Over(warped') = {}
    BY <1>1, <1>2 DEF Over, Nobody
  <2> QED
    BY <1>1, <2>1 DEF WarpKept, HandlerKept
<1>8. RemovalKept'
  <2> SUFFICES ASSUME after.op = "remove", ~EditConflicts, PassTime < KeepTime
               PROVE  RemovalKept'
    BY <1>1 DEF RemovalKept
  <2>1. pc' = "after" /\ slack' = slack
    BY <1>1, <1>5 DEF Nothing
  <2> DEFINE w == after.timer
  <2>2. /\ w \in Timer /\ entry[w].repeated = {}
        /\ entry[w].end <= now /\ now + slack <= entry[w].end + PassTime
        /\ \/ w \in Over(processed_timers)
           \/ w \in Over(warped)
           \/ w \in ToSet(timer_list) /\ getNextActivation(entry[w]) <= bound
    BY <1>1 DEF IInv, RemovalKept
  <2>3. PICK v \in Timer : v = w
    BY <2>2
  <2>4. Over(warped) = {}
    BY <1>2 DEF Over, Nobody
  <2>5. ~(v \in ToSet(timer_list) /\ getNextActivation(entry[v]) <= bound)
    <3> SUFFICES ASSUME v \in ToSet(timer_list), getNextActivation(entry[v]) <= bound
                 PROVE  FALSE
      OBVIOUS
    <3>1. timer_list # <<>>
      BY DEF ToSet
    <3>2. PICK h \in Timer : /\ h = Head(timer_list)
                             /\ Activation(entry)[h] <= Activation(entry)[v] \/ v = h
      <4>1. Sorted(timer_list, Activation(entry))
        BY <1>1 DEF IInv, SortedKept
      <4> QED
        BY <1>2, <3>1, <4>1, HeadOf
    <3>3. getNextActivation(entry[h]) <= getNextActivation(entry[v]) \/ v = h
      BY <3>2 DEF Activation
    <3>4. getNextActivation(entry[h]) \in Int /\ getNextActivation(entry[v]) \in Int
          /\ bound \in Int
      <4>1. bound \in Int
        BY DEF IInv, TypeOK
      <4>2. \A e \in Entry : getNextActivation(e) \in Int
        BY DEF getNextActivation, Entry
      <4> QED
        BY <1>2, <4>1, <4>2
    <3>5. getNextActivation(entry[h]) <= bound
      BY <3>3, <3>4
    <3> QED
      BY <1>1, <3>1, <3>2, <3>5 DEF Due
  <2>6. v \in Over(processed_timers')
    BY <1>5, <2>2, <2>3, <2>4, <2>5
  <2> HIDE DEF w, PassDone
  <2> QED
    BY <1>1, <1>5, <2>1, <2>2, <2>3, <2>6 DEF RemovalKept, w
<1> QED
  BY <1>6, <1>7, <1>8 DEF IInv

(* What saveTimer writes has the form of timers.xml.                          *)
LEMMA SavedFile == ASSUME NEW s \in Lists, saveTimer(s) PROVE saved' \in File
<1>1. \A w \in Timer : Persistent(s.entry[w])
        \in [begin : Nat, end : Nat, repeated : SUBSET (0 .. Week - 1), disabled : BOOLEAN]
  BY DEF Persistent, Lists, Entry
<1> QED
  BY <1>1 DEF saveTimer, File

(* record() saves.                                                            *)
LEMMA SaveAfterKeeps == IInv /\ SaveAfter => IInv'
<1> SUFFICES ASSUME IInv, SaveAfter PROVE IInv'
  OBVIOUS
<1>1. pc = "after" /\ after = AfterSave /\ saveTimer(S) /\ Settle(S, Nothing)
      /\ dialog' = dialog /\ conflict' = conflict
  BY DEF SaveAfter, screens
<1>2. saved' \in File
  BY <1>1, IdleFacts, SavedFile
<1>3. Frame
  BY <1>2 DEF SaveAfter, Frame, IInv, TypeOK, clocks, screens, limits
<1>4. Kept(S, Nobody, Nothing, dialog', conflict')
  <2>1. Kept(S, Nobody, AfterSave, dialog, conflict)
    BY <1>1, IdleFacts
  <2> QED
    BY <1>1, <2>1 DEF Kept, AfterSave, Nothing
<1>5. Removed(S, Nothing, bound)
  BY NothingToCarry DEF Removed
<1> QED
  BY <1>1, <1>3, <1>4, <1>5, IdleFacts, NothingToCarry, SettleKeeps

(* Some of the timers that are over are forgotten.                              *)
LEMMA ForgetKept ==
  ASSUME IInv, pc \in {"idle", "after"}, NEW g \in Lists,
         g.entry = entry, g.list = timer_list,
         \A v \in Timer : g.done[v] = 0 \/ g.done[v] = processed_timers[v],
         NEW c, c = conflict \/ c = NoTimer
  PROVE  Forget(g, c) \in Lists /\ Kept(Forget(g, c), Nobody, Nothing, NoTimer, c)
<1>1. /\ S.entry = entry /\ S.list = timer_list /\ S.done = processed_timers
      /\ processed_timers \in [Timer -> Nat]
      /\ Kept(S, Nobody, after, dialog, conflict)
  BY IdleFacts
<1>2. IsInjective(g.list)
  BY <1>1 DEF Kept, Consistent
<1>3. ASSUME NEW v \in Timer PROVE Loose(g, c, v)
  <2>1. Fits(S, Nobody, conflict, v) /\ Nobody[v] = 0 /\ processed_timers[v] \in Nat
    BY <1>1 DEF Kept, Consistent, Nobody
  <2>2. v # NoTimer
    BY TimerAssumption
  <2>3. g.done[v] = 0 \/ g.done[v] = processed_timers[v]
    OBVIOUS
  <2> QED
    BY <1>1, <2>1, <2>2, <2>3 DEF Fits, Loose
<1>4. PICK f \in Lists :
        f = Forget(g, c) /\ Consistent(f, Nobody, c) /\ (InOrder(g) => InOrder(f))
  BY <1>2, <1>3, ForgetEffect
<1>5. ~EditConflicts => c = NoTimer /\ InOrder(g)
  BY <1>1 DEF Kept, InOrder
<1> QED
  BY <1>4, <1>5, NothingToCarry DEF Kept

(* A timer that was over once is over no more when it is taken out.           *)
LEMMA TakeGone ==
  ASSUME NEW d \in [Timer -> Nat], NEW w \in Timer, d[w] = 1
  PROVE  /\ Take(d, w) \in [Timer -> Nat]
         /\ \A v \in Timer : Take(d, w)[v] = 0 \/ Take(d, w)[v] = d[v]
<1>1. d[w] - 1 \in Nat /\ d[w] - 1 = 0
  OBVIOUS
<1> QED
  BY <1>1 DEF Take

(* removeEntry finds the timer where it looks for it.                         *)
LEMMA RemoveAfterKeeps == IInv /\ RemoveAfter => IInv'
<1> SUFFICES ASSUME IInv, RemoveAfter PROVE IInv'
  OBVIOUS
<1>1. /\ pc = "after" /\ after.op = "remove" /\ dialog' = dialog /\ conflict' = conflict
      /\ UNCHANGED <<clocks, limits>>
      /\ IF after.timer \in Over(processed_timers)
         THEN LET s == Forget([S EXCEPT !.done = Take(@, after.timer)], conflict)
              IN  Settle(s, Nothing) /\ saveTimer(s)
         ELSE Fail(S) /\ saved' = saved
  BY DEF RemoveAfter, screens
<1> HIDE DEF RemoveAfter
<1>2. /\ S \in Lists /\ S.entry = entry /\ S.list = timer_list /\ S.done = processed_timers
      /\ processed_timers \in [Timer -> Nat]
      /\ Kept(S, Nobody, after, dialog, conflict)
  BY <1>1, IdleFacts
<1>3. dialog = NoTimer
  BY <1>1, <1>2 DEF Kept, Nothing
<1>4. CASE after.timer \in Over(processed_timers)
  <2>1. PICK w \in Timer : w = after.timer /\ processed_timers[w] > 0
    BY <1>4 DEF Over
  <2>2. processed_timers[w] = 1
    <3>1. Fits(S, Nobody, conflict, w) /\ Nobody[w] = 0 /\ processed_timers[w] \in Nat
      BY <1>2 DEF Kept, Consistent, Nobody
    <3> QED
      BY <1>2, <2>1, <3>1 DEF Fits
  <2>3. PICK dn \in [Timer -> Nat] :
          /\ dn = Take(processed_timers, w)
          /\ \A v \in Timer : dn[v] = 0 \/ dn[v] = processed_timers[v]
    BY <1>2, <2>2, TakeGone
  <2>4. PICK g \in Lists : /\ g = [S EXCEPT !.done = Take(@, after.timer)]
                           /\ g.entry = entry /\ g.list = timer_list /\ g.done = dn
    <3>1. PICK q \in Lists : q = S
      BY <1>2
    <3>2. [q EXCEPT !.done = Take(@, after.timer)] = [q EXCEPT !.done = dn]
      BY <1>2, <2>1, <2>3, <3>1
    <3>3. [q EXCEPT !.done = dn] = [entry |-> q.entry, list |-> q.list, done |-> dn]
      BY Assigned
    <3>4. [entry |-> q.entry, list |-> q.list, done |-> dn] \in Lists
      BY DEF Lists
    <3> QED
      BY <1>2, <3>1, <3>2, <3>3, <3>4
  <2>5. PICK c : c = conflict
    OBVIOUS
  <2>6. PICK f \in Lists : f = Forget(g, c) /\ Kept(f, Nobody, Nothing, NoTimer, c)
    BY <1>1, <2>3, <2>4, <2>5, ForgetKept
  <2>7. Settle(f, Nothing) /\ saveTimer(f)
    BY <1>1, <1>4, <2>4, <2>5, <2>6
  <2>8. saved' \in File
    BY <2>7, SavedFile
  <2>9. Frame
    BY <1>1, <2>8 DEF Frame, IInv, TypeOK, clocks, limits
  <2>10. Removed(f, Nothing, bound)
    BY NothingToCarry DEF Removed
  <2>11. Kept(f, Nobody, Nothing, dialog', conflict')
    BY <1>1, <1>3, <2>5, <2>6
  <2> QED
    BY <1>1, <2>7, <2>9, <2>10, <2>11, IdleFacts, NothingToCarry, SettleKeeps
<1>5. CASE after.timer \notin Over(processed_timers)
  <2>1. Fail(S) /\ saved' = saved
    BY <1>1, <1>5
  <2>2. Frame
    BY <1>1, <2>1 DEF Frame, IInv, TypeOK, File, clocks, limits
  <2>3. Over(warped) = {}
    BY <1>1 DEF IInv, WarpKept
  <2>4. ~(~EditConflicts /\ PassTime < KeepTime)
    BY <1>1, <1>5, <2>3 DEF IInv, RemovalKept
  <2>5. \A v \in Timer : HasService(v, S.entry[v])
    BY <1>2 DEF IInv, ServiceHeld
  <2>6. ~EditConflicts => conflict' = NoTimer
    BY <1>1 DEF IInv, SortedKept
  <2>7. PICK q \in Lists : q = S
    BY <1>2
  <2> QED
    BY <1>1, <1>2, <2>1, <2>2, <2>4, <2>5, <2>6, <2>7, FailKeeps
<1> QED
  BY <1>4, <1>5

(* A handler that calls timeChanged for a timer of the list, when no screen is   *)
(* open or the screen that is open shows it.                                     *)
LEMMA ChangeAfterKeeps == IInv /\ ChangeAfter => IInv'
<1> SUFFICES ASSUME IInv, ChangeAfter PROVE IInv'
  OBVIOUS
<1>1. /\ pc = "after" /\ after.op = "change" /\ Frame /\ dialog' = dialog
      /\ conflict' = conflict
      /\ timeChanged(after.timer,
                     [entry[after.timer] EXCEPT !.disabled = @ \/ after.disable], Nothing)
  BY DEF ChangeAfter, Frame, IInv, TypeOK, File, clocks, screens, limits
<1> HIDE DEF ChangeAfter
<1>2. /\ S.entry = entry /\ S.list = timer_list /\ timer_list \in Seq(Timer)
      /\ entry \in [Timer -> Entry] /\ Nothing \in After /\ after \in After
      /\ Kept(S, Nobody, after, dialog, conflict)
  BY <1>1, IdleFacts
<1>3. GoesOn(S, after.timer) /\ dialog = NoTimer
  BY <1>1, <1>2 DEF Kept, Nothing
<1>4. PICK w \in Timer : w = after.timer /\ w \in Known
  BY <1>2, <1>3, ElementOfSeq DEF GoesOn, ToSet, Known
<1>5. PICK o \in Entry : o = entry[w]
  BY <1>2
<1>6. PICK b \in BOOLEAN : b = (o.disabled \/ after.disable)
  OBVIOUS
<1>7. PICK e \in Entry : /\ e = [o EXCEPT !.disabled = b] /\ e.state = o.state
                         /\ e.record_service = o.record_service
  <2>1. [o EXCEPT !.disabled = b] \in Entry
    BY DEF Entry
  <2> QED
    BY <2>1 DEF Entry
<1>8. timeChanged(w, e, Nothing)
  BY <1>1, <1>4, <1>5, <1>6, <1>7
<1>9. ~EditConflicts => conflict' = NoTimer
  BY <1>1 DEF IInv, SortedKept
<1> QED
  BY <1>1, <1>2, <1>3, <1>4, <1>5, <1>7, <1>8, <1>9, NothingToCarry, ChangedKeeps

(* A timer that is in no list is given the fields of a new one.                 *)
LEMMA NewInHand ==
  ASSUME IInv, pc \in {"idle", "after"}, dialog = NoTimer, NEW w \in Timer,
         w \notin ToSet(timer_list), processed_timers[w] = 0,
         NEW n \in Entry, n.state = Waiting, n.record_service = "none",
         NEW then \in After, then.op # "change",
         \A v \in then.timers : v # w /\ v \in after.timers
  PROVE  /\ [S EXCEPT !.entry[w] = n] \in Lists
         /\ Handed([S EXCEPT !.entry[w] = n], Nobody, w, then, NoTimer, conflict)
<1>1. /\ S \in Lists /\ S.entry = entry /\ S.list = timer_list /\ S.done = processed_timers
      /\ entry \in [Timer -> Entry] /\ timer_list \in Seq(Timer)
      /\ processed_timers \in [Timer -> Nat] /\ after \in After
      /\ Kept(S, Nobody, after, dialog, conflict)
  BY IdleFacts
<1>2. PICK old \in [Timer -> Entry] : old = entry
  BY <1>1
<1>3. PICK ent \in [Timer -> Entry] : ent = [old EXCEPT ![w] = n]
  OBVIOUS
<1>4. ent[w] = n /\ \A v \in Timer \ {w} : ent[v] = old[v] /\ old[v] = ent[v]
  BY <1>3
<1>5. PICK q \in Lists : q = S
  BY <1>1
<1>6. PICK u \in Lists : /\ u = [S EXCEPT !.entry[w] = n]
                         /\ u.entry = ent /\ u.list = timer_list /\ u.done = processed_timers
  <2>1. [q EXCEPT !.entry[w] = n] = [q EXCEPT !.entry = ent]
    BY <1>1, <1>2, <1>3, <1>5
  <2>2. [q EXCEPT !.entry = ent] = [entry |-> ent, list |-> q.list, done |-> q.done]
    BY Assigned
  <2>3. [entry |-> ent, list |-> q.list, done |-> q.done] \in Lists
    BY DEF Lists
  <2> QED
    BY <1>1, <1>5, <2>1, <2>2, <2>3
<1>7. PICK c : c = conflict
  OBVIOUS
<1>8. PICK l \in Seq(Timer) : l = timer_list
  BY <1>1
<1>9. ASSUME NEW v \in Timer \ {w} PROVE Fits(u, Nobody, c, v)
  <2>1. Fits(S, Nobody, c, v)
    BY <1>1, <1>7 DEF Kept, Consistent
  <2> QED
    BY <1>1, <1>2, <1>4, <1>6, <2>1 DEF Fits
<1>10. HasService(w, n)
  BY DEF HasService, Waiting, Prepared, Running
<1>11. InHand(u, Nobody, c, w)
  <2>1. IsInjective(u.list) /\ Nobody[w] = 0
    BY <1>1, <1>6 DEF Kept, Consistent, Nobody
  <2> QED
    BY <1>4, <1>6, <1>9, <1>10, <2>1 DEF InHand
<1>12. ~EditConflicts => c = NoTimer /\ InOrder(u)
  <2>1. ~EditConflicts => c = NoTimer /\ Sorted(l, Activation(old))
    BY <1>1, <1>2, <1>7, <1>8 DEF Kept, InOrder
  <2>2. w \notin ToSet(l)
    BY <1>8
  <2>3. Sorted(l, Activation(old)) => Sorted(l, Activation(ent))
    BY <1>4, <2>2, OrderElsewhere
  <2> QED
    BY <1>6, <1>8, <2>1, <2>3 DEF InOrder
<1>13. ASSUME NEW v \in then.timers
       PROVE  v # w /\ v \notin ToSet(u.list) /\ u.done[v] = 0 /\ Nobody[v] = 0
  <2>1. v \in Timer /\ v # w /\ v \in after.timers
    BY <1>1, <1>13 DEF After
  <2> QED
    BY <1>1, <1>6, <2>1 DEF Kept
<1>14. Handed(u, Nobody, w, then, NoTimer, c)
  BY <1>11, <1>12, <1>13 DEF Handed
<1> QED
  BY <1>6, <1>7, <1>14

(* The requests of the user, and what is left to do after them.               *)
LEMMA RecordKeeps == \A w \in Timer : IInv /\ Record(w) => IInv'
<1> SUFFICES ASSUME NEW w \in Timer, IInv, Record(w) PROVE IInv'
  OBVIOUS
<1>1. /\ pc = "idle" /\ Frame /\ dialog' = dialog /\ conflict' = conflict
      /\ dialog = NoTimer /\ w \notin Known
  <2>1. edits' \in 0 .. MaxEdits
    BY TimerAssumption DEF Record, Request, IInv, TypeOK
  <2> QED
    BY <2>1 DEF Record, Request, NoScreen, Frame, IInv, TypeOK, File, clocks, screens
<1>2. PICK s \in Spans, r \in Repeats :
        enqueue([S EXCEPT !.entry[w] = EntryTimeChanged(
                   [Blank EXCEPT !.begin = s[1], !.end = s[2], !.repeated = r])],
                w, AfterSave)
  BY DEF Record
<1> HIDE DEF Record
<1>3. PICK b \in Entry : b = Blank /\ b.state = Waiting /\ b.record_service = "none"
  BY BlankEntry DEF Blank
<1>4. PICK e \in Entry : /\ e = [b EXCEPT !.begin = s[1], !.end = s[2], !.repeated = r]
                         /\ e.state = b.state /\ e.record_service = b.record_service
  <2>1. s[1] \in Nat /\ s[2] \in Nat /\ r \in SUBSET (0 .. Week - 1)
    BY TimerAssumption
  <2>2. [b EXCEPT !.begin = s[1], !.end = s[2], !.repeated = r] \in Entry
    BY <2>1 DEF Entry
  <2> QED
    BY <2>2 DEF Entry
<1>13. PICK n \in Entry : /\ n = EntryTimeChanged(e) /\ n.state = e.state
                          /\ n.record_service = e.record_service
  BY TimeChangedEntry
<1>5. n = EntryTimeChanged(e) /\ n.state = Waiting /\ n.record_service = "none"
  BY <1>3, <1>4, <1>13
<1>6. w \notin ToSet(timer_list) /\ processed_timers[w] = 0
  <2>1. processed_timers[w] \in Nat
    BY <1>1, IdleFacts
  <2> QED
    BY <1>1, <2>1 DEF Known, Over
<1>7. AfterSave \in After /\ AfterSave.op = "save" /\ AfterSave.timers = {}
  BY DEF AfterSave, Nothing, After
<1>8. PICK c : c = conflict
  OBVIOUS
<1>9. PICK then \in After : then = AfterSave
  BY <1>7
<1>10. PICK u \in Lists : u = [S EXCEPT !.entry[w] = n]
                          /\ Handed(u, Nobody, w, then, NoTimer, c)
  BY <1>1, <1>5, <1>6, <1>7, <1>8, <1>9, NewInHand
<1>11. enqueue(u, w, then)
  BY <1>2, <1>3, <1>4, <1>5, <1>9, <1>10
<1>12. RemovedSoon(u, w, then)
  BY <1>7, <1>9 DEF RemovedSoon
<1> QED
  BY <1>1, <1>7, <1>8, <1>9, <1>10, <1>11, <1>12, EnqueueKeeps

(* loadTimer, one timer after the other.                                      *)
LEMMA LoadAfterKeeps == IInv /\ LoadAfter => IInv'
<1> SUFFICES ASSUME IInv, LoadAfter PROVE IInv'
  OBVIOUS
<1>1. /\ pc = "after" /\ after.op = "load" /\ Frame /\ dialog' = dialog
      /\ conflict' = conflict
  BY DEF LoadAfter, Frame, IInv, TypeOK, File, clocks, screens, limits
<1>2. /\ S \in Lists /\ after \in After /\ Nothing \in After
      /\ processed_timers \in [Timer -> Nat]
      /\ S.list = timer_list /\ S.done = processed_timers
      /\ Kept(S, Nobody, after, dialog, conflict)
  BY <1>1, IdleFacts
<1>3. dialog = NoTimer /\ after.op # "change"
  BY <1>1, <1>2 DEF Kept, Nothing
<1>4. PICK q \in Lists : q = S
  BY <1>2
<1>5. ASSUME NEW then \in After, then.op \in {"nothing", "load"},
             then.timers \subseteq after.timers, Settle(S, then)
      PROVE  IInv'
  <2>1. Kept(q, Nobody, then, dialog', conflict')
    BY <1>1, <1>2, <1>3, <1>4, <1>5 DEF Kept
  <2>2. Removed(q, then, bound)
    BY <1>5 DEF Removed
  <2> QED
    BY <1>1, <1>4, <1>5, <2>1, <2>2, SettleKeeps
<1>6. ASSUME NEW T \in SUBSET Timer
      PROVE  /\ AfterLoad(T) \in After /\ AfterLoad(T).op = "load"
             /\ AfterLoad(T).timers = T
  BY DEF AfterLoad, Nothing, After
<1>7. CASE after.timers = {} /\ Settle(S, Nothing)
  BY <1>2, <1>5, <1>7, NothingToCarry
<1>8. ASSUME NEW w \in after.timers, NEW p \in saved[w],
             LET e == [Blank EXCEPT !.begin = p.begin,
                                    !.end = IF p.end < p.begin THEN p.begin ELSE p.end,
                                    !.repeated = p.repeated, !.disabled = p.disabled]
             IN  \/ enqueue([S EXCEPT !.entry[w] = EntryTimeChanged(e)], w,
                            AfterLoad(after.timers \ {w}))
                 \/ /\ \E v \in ToSet(timer_list) : entry[v].begin = p.begin
                    /\ Settle(S, AfterLoad(after.timers \ {w}))
      PROVE  IInv'
  <2>1. w \in Timer /\ after.timers \ {w} \in SUBSET Timer
    BY <1>2 DEF After
  <2>2. PICK then \in After : /\ then = AfterLoad(after.timers \ {w}) /\ then.op = "load"
                              /\ then.timers = after.timers \ {w}
    BY <1>6, <2>1
  <2>3. CASE Settle(S, AfterLoad(after.timers \ {w}))
    BY <1>5, <2>2, <2>3
  <2> DEFINE m == [Blank EXCEPT !.begin = p.begin,
                                !.end = IF p.end < p.begin THEN p.begin ELSE p.end,
                                !.repeated = p.repeated, !.disabled = p.disabled]
  <2>4. CASE enqueue([S EXCEPT !.entry[w] = EntryTimeChanged(m)], w,
                     AfterLoad(after.timers \ {w}))
    <3>1. p \in [begin : Nat, end : Nat, repeated : SUBSET (0 .. Week - 1),
                 disabled : BOOLEAN]
      BY <2>1 DEF IInv, TypeOK
    <3>2. PICK b \in Entry : b = Blank /\ b.state = Waiting /\ b.record_service = "none"
      BY BlankEntry DEF Blank
    <3>3. PICK e \in Entry : e = m /\ e.state = Waiting /\ e.record_service = "none"
      <4> DEFINE k == [b EXCEPT !.begin = p.begin,
                                !.end = IF p.end < p.begin THEN p.begin ELSE p.end,
                                !.repeated = p.repeated, !.disabled = p.disabled]
      <4>1. k \in Entry
        BY <3>1 DEF Entry
      <4>2. k.state = b.state /\ k.record_service = b.record_service
        BY DEF Entry
      <4> QED
        BY <3>2, <4>1, <4>2
    <3>10. PICK n \in Entry : /\ n = EntryTimeChanged(e) /\ n.state = e.state
                              /\ n.record_service = e.record_service
      BY TimeChangedEntry
    <3>4. n = EntryTimeChanged(e) /\ n.state = Waiting /\ n.record_service = "none"
      BY <3>3, <3>10
    <3>5. w \notin ToSet(timer_list) /\ processed_timers[w] = 0
      BY <1>2 DEF Kept
    <3>6. PICK c : c = conflict
      OBVIOUS
    <3>7. PICK u \in Lists : u = [S EXCEPT !.entry[w] = n]
                             /\ Handed(u, Nobody, w, then, NoTimer, c)
      BY <1>1, <1>3, <2>1, <2>2, <3>4, <3>5, <3>6, NewInHand
    <3> HIDE DEF m
    <3>8. enqueue(u, w, then)
      BY <2>2, <2>4, <3>3, <3>4, <3>7
    <3>9. RemovedSoon(u, w, then)
      BY <2>2 DEF RemovedSoon
    <3> QED
      BY <1>1, <1>3, <2>1, <2>2, <3>6, <3>7, <3>8, <3>9, EnqueueKeeps
  <2> QED
    BY <1>8, <2>3, <2>4
<1> QED
  BY <1>7, <1>8 DEF LoadAfter

(* A request begins with the main loop idle and no screen open.                 *)
LEMMA RequestFacts ==
  ASSUME IInv, Request, NoScreen
  PROVE  /\ pc = "idle" /\ dialog = NoTimer /\ conflict = NoTimer
         /\ now' = now /\ lastActivation' \in 0 .. MaxTime /\ wait' \in 0 .. MaxWaitTime
         /\ upsets' \in 0 .. MaxUpsets /\ edits' \in 0 .. MaxEdits
         /\ after = Nothing /\ now \in Nat /\ slack \in Nat /\ slack <= PassTime
         /\ PassTime \in Nat
         /\ \A w \in Timer : w \in Known <=> w \in ToSet(timer_list) \/ processed_timers[w] > 0
<1>1. edits' \in 0 .. MaxEdits
  BY TimerAssumption DEF Request, IInv, TypeOK
<1>2. after = Nothing
  BY DEF Request, IInv, HandlerKept
<1>3. \A w \in Timer : w \in Known <=> w \in ToSet(timer_list) \/ processed_timers[w] > 0
  BY DEF Known, Over
<1>4. now \in Nat /\ slack \in Nat /\ slack <= PassTime /\ PassTime \in Nat
  BY TimerAssumption DEF IInv, TypeOK
<1> QED
  BY <1>1, <1>2, <1>3, <1>4 DEF Request, NoScreen, IInv, TypeOK, clocks

(* removeEntry, up to the return of timeChanged.                              *)
LEMMA RemoveEntryKeeps == \A w \in Timer : IInv /\ RemoveEntry(w) => IInv'
<1> SUFFICES ASSUME NEW w \in Timer, IInv, RemoveEntry(w) PROVE IInv'
  OBVIOUS
<1>1. /\ Request /\ NoScreen /\ dialog' = dialog /\ conflict' = conflict /\ saved' = saved
      /\ w \in Known
      /\ LET e == abort([entry[w] EXCEPT !.repeated = {}])
         IN  IF e.state = Ended THEN Settle([S EXCEPT !.entry[w] = e], AfterRemove(w))
             ELSE timeChanged(w, e, AfterRemove(w))
  BY DEF RemoveEntry, screens
<1> HIDE DEF RemoveEntry
<1>2. /\ pc = "idle" /\ dialog = NoTimer /\ conflict = NoTimer /\ now \in Nat
      /\ slack \in Nat /\ slack <= PassTime /\ PassTime \in Nat
      /\ w \in ToSet(timer_list) \/ processed_timers[w] > 0
  BY <1>1, RequestFacts
<1>3. Frame
  BY <1>1, RequestFacts DEF Frame, IInv, TypeOK, File
<1>4. /\ S \in Lists /\ S.entry = entry /\ S.list = timer_list /\ S.done = processed_timers
      /\ entry \in [Timer -> Entry] /\ timer_list \in Seq(Timer)
      /\ processed_timers \in [Timer -> Nat]
      /\ Kept(S, Nobody, after, dialog, conflict)
  BY <1>2, IdleFacts
<1>5. PICK then \in After : /\ then = AfterRemove(w) /\ then.op = "remove" /\ then.timer = w
                            /\ then.timers = {}
  <2>1. /\ AfterRemove(w).op = "remove" /\ AfterRemove(w).timer = w
        /\ AfterRemove(w).timers = {}
    BY DEF AfterRemove, Nothing
  <2>2. PICK n \in After : n = Nothing
    BY DEF Nothing, After
  <2>3. [n EXCEPT !.op = "remove", !.timer = w] \in After
    BY DEF After
  <2> QED
    BY <2>1, <2>2, <2>3 DEF AfterRemove
<1>6. PICK o \in Entry : o = entry[w]
  BY <1>4
<1>7. PICK e \in Entry :
        /\ e = abort([entry[w] EXCEPT !.repeated = {}]) /\ e.state = o.state
        /\ e.record_service = o.record_service /\ e.repeated = {} /\ e.end = now
        /\ e.begin <= now /\ e.cancelled = TRUE
  <2> DEFINE r == [o EXCEPT !.repeated = {}]
             k == IF r.begin > now THEN now ELSE r.begin
             m == [r EXCEPT !.end = now, !.begin = k, !.cancelled = TRUE]
  <2>1. r \in Entry /\ r.state = o.state /\ r.record_service = o.record_service
        /\ r.repeated = {} /\ r.begin \in Nat
    BY DEF Entry
  <2>2. abort(r) = m
    BY DEF abort
  <2> HIDE DEF r
  <2>3. k \in Nat /\ k <= now
    BY <1>2, <2>1
  <2> HIDE DEF k
  <2>4. m \in Entry
    BY <1>2, <2>1, <2>3 DEF Entry
  <2>5. /\ m.state = r.state /\ m.record_service = r.record_service
        /\ m.repeated = r.repeated /\ m.end = now /\ m.begin = k /\ m.cancelled = TRUE
    BY <2>1 DEF Entry
  <2> HIDE DEF m
  <2> QED
    BY <1>6, <2>1, <2>2, <2>3, <2>4, <2>5 DEF r
<1>8. CASE e.state = Ended
  <2>1. Fits(S, Nobody, conflict, w) /\ Nobody[w] = 0
    BY <1>4 DEF Kept, Consistent, Nobody
  <2>2. w \notin ToSet(timer_list) /\ processed_timers[w] = 1 /\ HasService(w, o)
    <3>1. processed_timers[w] \in Nat
      BY <1>4
    <3> QED
      BY <1>2, <1>4, <1>6, <1>7, <1>8, <2>1, <3>1 DEF Fits, Ended
  <2>3. PICK ent \in [Timer -> Entry] : ent = [entry EXCEPT ![w] = e]
    BY <1>4
  <2>4. ent[w] = e /\ \A v \in Timer \ {w} : ent[v] = entry[v] /\ entry[v] = ent[v]
    BY <1>4, <2>3
  <2>5. PICK s \in Lists : /\ s = [S EXCEPT !.entry[w] = e] /\ s.entry = ent
                           /\ s.list = timer_list /\ s.done = processed_timers
    <3>1. PICK q \in Lists : q = S
      BY <1>4
    <3>2. [q EXCEPT !.entry[w] = e] = [q EXCEPT !.entry = ent]
      BY <1>4, <2>3, <3>1
    <3>3. [entry |-> ent, list |-> q.list, done |-> q.done] \in Lists
      BY DEF Lists
    <3>4. [q EXCEPT !.entry = ent] = [entry |-> ent, list |-> q.list, done |-> q.done]
      BY Assigned
    <3> QED
      BY <1>4, <3>1, <3>2, <3>3, <3>4
  <2>6. Settle(s, then)
    BY <1>1, <1>5, <1>7, <1>8, <2>5
  <2>7. PICK c : c = conflict
    OBVIOUS
  <2>8. Consistent(s, Nobody, c)
    <3>1. ASSUME NEW v \in Timer PROVE Fits(s, Nobody, c, v)
      <4>1. Fits(S, Nobody, c, v)
        BY <1>4, <2>7 DEF Kept, Consistent
      <4>2. CASE v = w
        <5>1. HasService(w, e)
          BY <1>7, <2>2 DEF HasService
        <5>2. s.done[w] + Nobody[w] = 1 /\ w \notin ToSet(s.list) /\ s.entry[w].state = Ended
              /\ HasService(w, s.entry[w])
          BY <1>8, <2>1, <2>2, <2>4, <2>5, <5>1
        <5> QED
          BY <4>2, <5>2 DEF Fits
      <4>3. CASE v # w
        BY <1>4, <2>4, <2>5, <4>1, <4>3 DEF Fits
      <4> QED
        BY <4>2, <4>3
    <3> QED
      BY <1>4, <2>5, <3>1 DEF Kept, Consistent
  <2>9. ~EditConflicts => InOrder(s)
    <3>1. PICK q \in Seq(Timer) : q = timer_list
      BY <1>4
    <3>2. PICK old \in [Timer -> Entry] : old = entry
      BY <1>4
    <3>3. w \notin ToSet(q) /\ \A v \in Timer \ {w} : old[v] = ent[v]
      BY <2>2, <2>4, <3>1, <3>2
    <3>4. Sorted(q, Activation(old)) => Sorted(q, Activation(ent))
      BY <3>3, OrderElsewhere
    <3> QED
      BY <1>4, <2>5, <3>1, <3>2, <3>4 DEF Kept, InOrder
  <2>10. Kept(s, Nobody, then, dialog', conflict')
    BY <1>1, <1>2, <1>5, <2>7, <2>8, <2>9 DEF Kept
  <2>11. Removed(s, then, bound) /\ s.done[then.timer] > 0
    <3>1. s.entry[w] = e /\ s.done[w] = 1
      BY <2>2, <2>4, <2>5
    <3>2. now + slack <= e.end + PassTime /\ e.end <= now /\ s.done[w] > 0
      BY <1>2, <1>7, <3>1
    <3> QED
      BY <1>5, <1>7, <3>1, <3>2 DEF Removed
  <2> QED
    BY <1>2, <1>3, <2>6, <2>10, <2>11, SettleKeeps
<1>9. CASE e.state # Ended
  <2>1. timeChanged(w, e, then)
    BY <1>1, <1>5, <1>7, <1>9
  <2>2. e.state < Ended
    BY <1>9 DEF Entry, Waiting, Ended
  <2>3. e.cancelled
    BY <1>7
  <2> QED
    BY <1>1, <1>2, <1>3, <1>5, <1>6, <1>7, <2>1, <2>2, <2>3, ChangedKeeps
<1> QED
  BY <1>8, <1>9

(* The list of timers that are over is emptied.                               *)
LEMMA CleanupKeeps == IInv /\ Cleanup => IInv'
<1> SUFFICES ASSUME IInv, Cleanup PROVE IInv'
  OBVIOUS
<1>1. /\ Request /\ NoScreen /\ dialog' = dialog /\ conflict' = conflict /\ saved' = saved
      /\ Settle(Forget([S EXCEPT !.done = Only(@, {w \in Timer : entry[w].disabled})], conflict),
                Nothing)
  BY DEF Cleanup, screens
<1>2. pc = "idle" /\ dialog = NoTimer /\ conflict = NoTimer
  BY <1>1, RequestFacts
<1>3. Frame
  BY <1>1, RequestFacts DEF Frame, IInv, TypeOK, File
<1>4. /\ S \in Lists /\ S.entry = entry /\ S.list = timer_list /\ S.done = processed_timers
      /\ processed_timers \in [Timer -> Nat] /\ Nothing \in After
  BY <1>2, IdleFacts
<1>5. PICK T \in SUBSET Timer : T = {w \in Timer : entry[w].disabled}
  OBVIOUS
<1>6. PICK dn \in [Timer -> Nat] : dn = Only(processed_timers, T)
  BY <1>4 DEF Only
<1>7. \A v \in Timer : dn[v] = 0 \/ dn[v] = processed_timers[v]
  BY <1>6 DEF Only
<1>8. PICK g \in Lists :
        /\ g = [S EXCEPT !.done = Only(@, {w \in Timer : entry[w].disabled})]
        /\ g.entry = entry /\ g.list = timer_list /\ g.done = dn
  <2>1. PICK q \in Lists : q = S
    BY <1>4
  <2>2. [q EXCEPT !.done = Only(@, {w \in Timer : entry[w].disabled})] = [q EXCEPT !.done = dn]
    BY <1>4, <1>5, <1>6, <2>1
  <2>3. [entry |-> q.entry, list |-> q.list, done |-> dn] \in Lists
    BY DEF Lists
  <2>4. [q EXCEPT !.done = dn] = [entry |-> q.entry, list |-> q.list, done |-> dn]
    BY Assigned
  <2> QED
    BY <1>4, <2>1, <2>2, <2>3, <2>4
<1>9. PICK c : c = conflict
  OBVIOUS
<1>10. PICK f \in Lists : f = Forget(g, c) /\ Kept(f, Nobody, Nothing, NoTimer, c)
  BY <1>2, <1>7, <1>8, <1>9, ForgetKept
<1>11. Settle(f, Nothing)
  BY <1>1, <1>8, <1>9, <1>10
<1>12. Removed(f, Nothing, bound)
  BY NothingToCarry DEF Removed
<1>13. Kept(f, Nobody, Nothing, dialog', conflict')
  BY <1>1, <1>2, <1>9, <1>10
<1> QED
  BY <1>2, <1>3, <1>4, <1>11, <1>12, <1>13, NothingToCarry, SettleKeeps

(* A timer is enabled or disabled, or the user is asked.                      *)
LEMMA ToggleDisabledKeeps == \A w \in Timer : IInv /\ ToggleDisabled(w) => IInv'
<1> SUFFICES ASSUME NEW w \in Timer, IInv, ToggleDisabled(w) PROVE IInv'
  OBVIOUS
<1>1. Request /\ NoScreen /\ w \in Known /\ saved' = saved
  BY DEF ToggleDisabled
<1>2. pc = "idle" /\ dialog = NoTimer /\ conflict = NoTimer
  BY <1>1, RequestFacts
<1>3. /\ entry \in [Timer -> Entry] /\ Nothing \in After
  BY <1>2, IdleFacts
<1>4. ASSUME dialog' \in {NoTimer, w}, conflict' \in {NoTimer, w} PROVE Frame
  BY <1>1, <1>4, RequestFacts DEF Frame, IInv, TypeOK, File
<1>5. PICK o \in Entry : o = entry[w]
  BY <1>3
<1>6. ASSUME NEW b \in BOOLEAN
      PROVE  LET e == [o EXCEPT !.disabled = b]
             IN  e \in Entry /\ e.state = o.state /\ e.record_service = o.record_service
  <2>1. [o EXCEPT !.disabled = b] \in Entry
    BY DEF Entry
  <2> QED
    BY <2>1 DEF Entry
<1>7. ASSUME dialog' = NoTimer, conflict' \in {NoTimer, w},
             ~EditConflicts => conflict' = NoTimer,
             NEW e \in Entry, e.state = o.state, e.record_service = o.record_service,
             timeChanged(w, e, Nothing)
      PROVE  IInv'
  <2>1. Frame
    BY <1>4, <1>7
  <2>2. \A v \in Timer \ {w} : v = conflict <=> v = conflict'
    BY <1>2, <1>7, TimerAssumption
  <2> QED
    BY <1>1, <1>2, <1>3, <1>5, <1>7, <2>1, <2>2, NothingToCarry, ChangedKeeps
<1>8. CASE /\ entry[w].disabled
           /\ timeChanged(w, [entry[w] EXCEPT !.disabled = FALSE], Nothing)
           /\ UNCHANGED screens
  <2>1. PICK e \in Entry : /\ e = [o EXCEPT !.disabled = FALSE] /\ e.state = o.state
                           /\ e.record_service = o.record_service
    BY <1>6
  <2> QED
    BY <1>2, <1>5, <1>7, <1>8, <2>1 DEF screens
<1>9. CASE /\ entry[w].disabled
           /\ timeChanged(w, entry[w], Nothing)
           /\ UNCHANGED conflict \/ (EditConflicts /\ conflict' = w)
           /\ UNCHANGED dialog
  BY <1>2, <1>5, <1>7, <1>9
<1>10. CASE /\ ~entry[w].disabled /\ entry[w].state # Running
            /\ timeChanged(w, [entry[w] EXCEPT !.disabled = TRUE], Nothing)
            /\ UNCHANGED screens
  <2>1. PICK e \in Entry : /\ e = [o EXCEPT !.disabled = TRUE] /\ e.state = o.state
                           /\ e.record_service = o.record_service
    BY <1>6
  <2> QED
    BY <1>2, <1>5, <1>7, <1>10, <2>1 DEF screens
<1>11. CASE /\ ~entry[w].disabled /\ entry[w].state = Running
            /\ \/ entry[w].repeated # {} /\ AskFirst /\ dialog' = w
               \/ entry[w].repeated = {} /\ UNCHANGED dialog
            /\ timeChanged(w, entry[w], Nothing)
            /\ UNCHANGED conflict
  <2>1. CASE entry[w].repeated # {} /\ dialog' = w
    <3>1. o.state # Ended /\ o.repeated # {}
      BY <1>5, <1>11, <2>1 DEF Running, Ended
    <3>2. ~o.disabled
      BY <1>5, <1>11
    <3>3. timeChanged(w, o, Nothing) /\ conflict' = NoTimer
      BY <1>2, <1>5, <1>11
    <3>4. Frame
      BY <1>4, <2>1, <3>3
    <3> QED
      BY <1>1, <1>2, <1>3, <1>5, <2>1, <3>1, <3>2, <3>3, <3>4, NothingToCarry, ChangedKeeps
  <2>2. CASE dialog' = dialog
    BY <1>2, <1>5, <1>7, <1>11, <2>2
  <2> QED
    BY <1>11, <2>1, <2>2
<1> QED
  BY <1>8, <1>9, <1>10, <1>11 DEF ToggleDisabled

(* The current event of a timer that repeats is ended outside of any pass.      *)
LEMMA StopCurrentKeeps ==
  ASSUME IInv, Frame, pc = "idle", dialog' = NoTimer, conflict' = conflict,
         NEW w \in Timer, w \in ToSet(timer_list), entry[w].repeated # {},
         NEW then \in After, then.op \in {"nothing", "change"}, then.timers = {},
         then.op = "change" => then.timer = w, stopCurrent(w, then)
  PROVE  IInv'
<1>1. /\ S \in Lists /\ S.entry = entry /\ S.list = timer_list /\ S.done = processed_timers
      /\ entry \in [Timer -> Entry] /\ now \in Nat
      /\ Kept(S, Nobody, after, dialog, conflict)
  BY IdleFacts
<1>2. PICK o \in Entry : o = entry[w]
  BY <1>1
<1>3. PICK m \in Entry : /\ m = [o EXCEPT !.disabled = FALSE] /\ m.disabled = FALSE
                         /\ m.state = o.state /\ m.repeated = o.repeated
                         /\ m.record_service = o.record_service
  <2>1. [o EXCEPT !.disabled = FALSE] \in Entry
    BY DEF Entry
  <2> QED
    BY <2>1 DEF Entry
<1>4. PICK e \in Entry : /\ e = processRepeated(m, FALSE) /\ e.disabled = m.disabled
                         /\ e.state = m.state /\ e.repeated = m.repeated
                         /\ e.record_service = m.record_service
  BY <1>1, RepeatedEntry
<1>5. PICK ent \in [Timer -> Entry] : ent = [entry EXCEPT ![w] = e]
  BY <1>1
<1>6. ent[w] = e /\ \A v \in Timer \ {w} : ent[v] = entry[v]
  BY <1>1, <1>5
<1>7. PICK s \in Lists : /\ s = [S EXCEPT !.entry[w] = e] /\ s.entry = ent
                         /\ s.list = timer_list /\ s.done = processed_timers
  <2>1. PICK q \in Lists : q = S
    BY <1>1
  <2>2. [q EXCEPT !.entry[w] = e] = [q EXCEPT !.entry = ent]
    BY <1>1, <1>5, <2>1
  <2>3. [entry |-> ent, list |-> q.list, done |-> q.done] \in Lists
    BY DEF Lists
  <2>4. [q EXCEPT !.entry = ent] = [entry |-> ent, list |-> q.list, done |-> q.done]
    BY Assigned
  <2> QED
    BY <1>1, <2>1, <2>2, <2>3, <2>4
<1>8. doActivate(s, w, then)
  BY <1>2, <1>3, <1>4, <1>7 DEF stopCurrent
<1>9. HasService(w, s.entry[w]) /\ s.entry[w].state < Ended
  <2>1. Fits(S, Nobody, conflict, w)
    BY <1>1 DEF Kept, Consistent
  <2>2. HasService(w, o) /\ o.state < Ended
    BY <1>1, <1>2, <2>1 DEF Fits
  <2>3. e.state = o.state /\ e.record_service = o.record_service
    BY <1>3, <1>4
  <2> QED
    BY <1>6, <1>7, <2>2, <2>3 DEF HasService
<1>10. GoesOn(s, w)
  <2>1. ~e.disabled
    BY <1>3, <1>4
  <2>2. e.repeated # {}
    BY <1>2, <1>3, <1>4
  <2> QED
    BY <1>6, <1>7, <2>1, <2>2 DEF GoesOn
<1>11. \A v \in Timer \ {w} : s.entry[v] = entry[v]
  BY <1>6, <1>7
<1> QED
  BY <1>7, <1>8, <1>9, <1>10, <1>11, ActivateKeeps

(* The running event of a repeated timer is stopped.                          *)
LEMMA StopTimerKeeps == \A w \in Timer : IInv /\ StopTimer(w) => IInv'
<1> SUFFICES ASSUME NEW w \in Timer, IInv, StopTimer(w) PROVE IInv'
  OBVIOUS
<1>1. /\ Request /\ NoScreen /\ w \in Known /\ entry[w].state = Running
      /\ entry[w].repeated # {} /\ stopCurrent(w, Nothing)
      /\ dialog' = dialog /\ conflict' = conflict /\ saved' = saved
  BY DEF StopTimer, screens
<1>2. /\ pc = "idle" /\ dialog = NoTimer
      /\ w \in ToSet(timer_list) \/ processed_timers[w] > 0
  BY <1>1, RequestFacts
<1>3. Frame
  BY <1>1, RequestFacts DEF Frame, IInv, TypeOK, File
<1>4. w \in ToSet(timer_list)
  <2>1. Fits(S, Nobody, conflict, w) /\ Nobody[w] = 0 /\ processed_timers[w] \in Nat
        /\ S.entry = entry /\ S.done = processed_timers
    BY <1>2, IdleFacts DEF Kept, Consistent, Nobody
  <2> QED
    BY <1>1, <1>2, <2>1 DEF Fits, Running, Ended
<1> QED
  BY <1>1, <1>2, <1>3, <1>4, IdleFacts, NothingToCarry, StopCurrentKeeps

(* The user answers.                                                          *)
LEMMA AnswerDialogKeeps == IInv /\ AnswerDialog => IInv'
<1> SUFFICES ASSUME IInv, AnswerDialog PROVE IInv'
  OBVIOUS
<1>1. /\ pc = "idle" /\ dialog # NoTimer /\ dialog' = NoTimer /\ conflict' = conflict /\ Frame
      /\ \/ Settle(S, Nothing)
         \/ stopCurrent(dialog, AfterStop(dialog, FALSE))
         \/ stopCurrent(dialog, AfterStop(dialog, TRUE))
         \/ timeChanged(dialog, [entry[dialog] EXCEPT !.disabled = TRUE], Nothing)
  BY DEF AnswerDialog, Frame, IInv, TypeOK, File, clocks, limits
<1> HIDE DEF AnswerDialog
<1>2. /\ S \in Lists /\ S.entry = entry /\ S.list = timer_list /\ Nothing \in After
      /\ entry \in [Timer -> Entry] /\ timer_list \in Seq(Timer)
      /\ Kept(S, Nobody, after, dialog, conflict)
  BY <1>1, IdleFacts
<1>3. PICK q \in Lists : q = S
  BY <1>2
<1>4. PICK w \in Timer : w = dialog
  BY <1>1 DEF IInv, TypeOK
<1>5. /\ after = Nothing /\ conflict = NoTimer /\ w \in ToSet(timer_list)
      /\ entry[w].repeated # {}
  BY <1>1, <1>2, <1>4 DEF Kept, GoesOn
<1>6. CASE Settle(S, Nothing)
  <2>1. Kept(q, Nobody, Nothing, dialog', conflict')
    BY <1>1, <1>2, <1>3, <1>5 DEF Kept
  <2>2. Removed(q, Nothing, bound)
    BY NothingToCarry DEF Removed
  <2> QED
    BY <1>1, <1>2, <1>3, <1>6, <2>1, <2>2, NothingToCarry, SettleKeeps
<1>7. ASSUME NEW b \in BOOLEAN, stopCurrent(dialog, AfterStop(dialog, b)) PROVE IInv'
  <2>1. /\ AfterStop(w, b).op = "change" /\ AfterStop(w, b).timer = w
        /\ AfterStop(w, b).timers = {}
    BY DEF AfterStop, Nothing
  <2>2. PICK n \in After : n = Nothing
    BY <1>2
  <2>3. [n EXCEPT !.op = "change", !.timer = w, !.disable = b] \in After
    BY DEF After
  <2>4. PICK then \in After : then = AfterStop(w, b)
    BY <2>2, <2>3 DEF AfterStop
  <2>5. stopCurrent(w, then)
    BY <1>4, <1>7, <2>4
  <2> QED
    BY <1>1, <1>5, <2>1, <2>4, <2>5, StopCurrentKeeps
<1>8. CASE timeChanged(dialog, [entry[dialog] EXCEPT !.disabled = TRUE], Nothing)
  <2>1. PICK o \in Entry : o = entry[w]
    BY <1>2
  <2>2. PICK e \in Entry : /\ e = [o EXCEPT !.disabled = TRUE] /\ e.state = o.state
                           /\ e.record_service = o.record_service
    <3>1. [o EXCEPT !.disabled = TRUE] \in Entry
      BY DEF Entry
    <3> QED
      BY <3>1 DEF Entry
  <2>3. timeChanged(w, e, Nothing)
    BY <1>4, <1>8, <2>1, <2>2
  <2>4. w \in Known
    BY <1>5 DEF Known
  <2> QED
    BY <1>1, <1>2, <1>5, <2>1, <2>2, <2>3, <2>4, NothingToCarry, ChangedKeeps
<1> QED
  BY <1>1, <1>6, <1>7, <1>8

(* keyGo writes into a timer: nothing else moves, the list stays as it was.      *)
LEMMA Written ==
  ASSUME NEW w \in Timer, entry[w] \in Entry, NEW p \in Spans, NEW r \in Repeats
  PROVE  \E e \in Entry : /\ e = [entry[w] EXCEPT !.begin = p[1], !.end = p[2], !.repeated = r]
                          /\ e.state = entry[w].state
                          /\ e.record_service = entry[w].record_service
<1>1. PICK o \in Entry : o = entry[w]
  OBVIOUS
<1>2. p[1] \in Nat /\ p[2] \in Nat /\ r \in SUBSET (0 .. Week - 1)
  BY TimerAssumption
<1>3. [o EXCEPT !.begin = p[1], !.end = p[2], !.repeated = r] \in Entry
  BY <1>2 DEF Entry
<1>4. LET e == [o EXCEPT !.begin = p[1], !.end = p[2], !.repeated = r]
      IN  e.state = o.state /\ e.record_service = o.record_service
  BY DEF Entry
<1> QED
  BY <1>1, <1>3, <1>4

LEMMA WrittenKeeps ==
  ASSUME IInv, Frame, pc = "idle", dialog = NoTimer, dialog' = NoTimer, EditConflicts,
         NEW w \in Timer, w \in Known \/ w = conflict,
         conflict' # NoTimer, conflict \in {NoTimer, conflict'},
         conflict = NoTimer => conflict' = w,
         NEW e \in Entry, e.state = entry[w].state,
         e.record_service = entry[w].record_service,
         Settle([S EXCEPT !.entry[w] = e], Nothing)
  PROVE  IInv'
<1>1. /\ S \in Lists /\ S.entry = entry /\ S.list = timer_list /\ S.done = processed_timers
      /\ entry \in [Timer -> Entry] /\ processed_timers \in [Timer -> Nat] /\ Nothing \in After
      /\ Kept(S, Nobody, after, dialog, conflict)
  BY IdleFacts
<1>2. after = Nothing
  BY DEF IInv, HandlerKept
<1>3. PICK ent \in [Timer -> Entry] : ent = [entry EXCEPT ![w] = e]
  BY <1>1
<1>4. ent[w] = e /\ \A v \in Timer \ {w} : ent[v] = entry[v]
  BY <1>1, <1>3
<1>5. PICK s \in Lists : /\ s = [S EXCEPT !.entry[w] = e] /\ s.entry = ent
                         /\ s.list = timer_list /\ s.done = processed_timers
  <2>1. PICK q \in Lists : q = S
    BY <1>1
  <2>2. [q EXCEPT !.entry[w] = e] = [q EXCEPT !.entry = ent]
    BY <1>1, <1>3, <2>1
  <2>3. [entry |-> ent, list |-> q.list, done |-> q.done] \in Lists
    BY DEF Lists
  <2>4. [q EXCEPT !.entry = ent] = [entry |-> ent, list |-> q.list, done |-> q.done]
    BY Assigned
  <2> QED
    BY <1>1, <2>1, <2>2, <2>3, <2>4
<1>6. PICK c : c = conflict'
  OBVIOUS
<1>7. ASSUME NEW v \in Timer PROVE Fits(s, Nobody, c, v)
  <2>1. /\ Fits(S, Nobody, conflict, v) /\ Nobody[v] = 0 /\ processed_timers[v] \in Nat
        /\ v # NoTimer
    BY <1>1, TimerAssumption DEF Kept, Consistent, Nobody
  <2>2. CASE v # w
    <3>1. s.entry[v] = S.entry[v] /\ s.done[v] = S.done[v] /\ s.list = S.list
      BY <1>1, <1>4, <1>5, <2>2
    <3>2. v = c <=> v = conflict
      BY <1>6, <2>1, <2>2
    <3> QED
      BY <2>1, <3>1, <3>2 DEF Fits
  <2>3. CASE v = w
    <3>1. HasService(w, e)
      BY <1>1, <2>1, <2>3 DEF Fits, HasService
    <3>2. s.entry[w] = e /\ S.entry[w] = entry[w] /\ s.done[w] = S.done[w] /\ s.list = S.list
      BY <1>1, <1>4, <1>5
    <3>3. s.entry[w].state = S.entry[w].state /\ HasService(w, s.entry[w])
      BY <3>1, <3>2
    <3>4. CASE w \in Known
      <4>1. w \in ToSet(S.list) \/ S.done[w] + Nobody[w] > 0
        BY <1>1, <2>1, <2>3, <3>4 DEF Known, Over
      <4> QED
        BY <2>1, <2>3, <3>2, <3>3, <4>1 DEF Fits
    <3>5. CASE w = conflict
      <4>1. w = c
        BY <1>6, <2>1, <2>3, <3>5
      <4> QED
        BY <2>1, <2>3, <3>2, <3>3, <3>5, <4>1 DEF Fits
    <3> QED
      BY <3>4, <3>5
  <2> QED
    BY <2>2, <2>3
<1>8. Consistent(s, Nobody, c)
  BY <1>1, <1>5, <1>7 DEF Kept, Consistent
<1>9. Kept(s, Nobody, Nothing, dialog', conflict')
  BY <1>1, <1>2, <1>6, <1>8, NothingToCarry DEF Kept
<1>10. Removed(s, Nothing, bound)
  BY NothingToCarry DEF Removed
<1> QED
  BY <1>1, <1>2, <1>5, <1>9, <1>10, NothingToCarry, SettleKeeps

(* New times and flags, with or without a conflict.                           *)
LEMMA EditKeeps == \A w \in Timer : IInv /\ Edit(w) => IInv'
<1> SUFFICES ASSUME NEW w \in Timer, IInv, Edit(w) PROVE IInv'
  OBVIOUS
<1>1. Request /\ NoScreen /\ w \in Known /\ dialog' = dialog
  BY DEF Edit
<1>2. pc = "idle" /\ dialog = NoTimer /\ conflict = NoTimer
  BY <1>1, RequestFacts
<1>3. entry \in [Timer -> Entry] /\ Nothing \in After
  BY <1>2, IdleFacts
<1>4. PICK p \in Spans, r \in Repeats :
        LET e == [entry[w] EXCEPT !.begin = p[1], !.end = p[2], !.repeated = r]
            s == [S EXCEPT !.entry[w] = e]
        IN  /\ saveTimer(s)
            /\ \/ timeChanged(w, e, Nothing) /\ UNCHANGED conflict
               \/ EditConflicts /\ conflict' = w /\ Settle(s, Nothing)
  BY DEF Edit
<1> HIDE DEF Edit
<1>5. PICK e \in Entry : /\ e = [entry[w] EXCEPT !.begin = p[1], !.end = p[2], !.repeated = r]
                         /\ e.state = entry[w].state
                         /\ e.record_service = entry[w].record_service
  BY <1>3, Written
<1>6. PICK s : s = [S EXCEPT !.entry[w] = e]
  OBVIOUS
<1>7. /\ saveTimer(s)
      /\ \/ timeChanged(w, e, Nothing) /\ conflict' = conflict
         \/ EditConflicts /\ conflict' = w /\ Settle(s, Nothing)
  BY <1>4, <1>5, <1>6
<1>8. s \in Lists
  BY <1>2, <1>6, IdleFacts DEF Lists
<1>9. saved' \in File
  BY <1>7, <1>8, SavedFile
<1>10. Frame
  BY <1>1, <1>2, <1>7, <1>9, RequestFacts DEF Frame
<1>11. CASE timeChanged(w, e, Nothing) /\ conflict' = conflict
  BY <1>1, <1>2, <1>3, <1>5, <1>10, <1>11, NothingToCarry, ChangedKeeps
<1>12. CASE EditConflicts /\ conflict' = w /\ Settle(s, Nothing)
  BY <1>1, <1>2, <1>5, <1>6, <1>10, <1>12, TimerAssumption, WrittenKeeps
<1> QED
  BY <1>7, <1>11, <1>12

(* What a request of the conflict screen finds, and that it is an edit.          *)
LEMMA ConflictFacts ==
  ASSUME IInv, Request, conflict # NoTimer, dialog' = dialog, conflict' = conflict,
         saved' \in File
  PROVE  /\ pc = "idle" /\ dialog = NoTimer /\ EditConflicts /\ Frame
         /\ entry \in [Timer -> Entry] /\ Nothing \in After
         /\ conflict \in Timer
         /\ conflict \in Known \/ entry[conflict].state = Ended
<1>1. pc = "idle" /\ now' = now /\ lastActivation' = lastActivation /\ wait' = wait
      /\ upsets' = upsets /\ edits' = edits - 1 /\ edits > 0
  BY DEF Request, clocks
<1>2. edits' \in 0 .. MaxEdits
  BY <1>1, TimerAssumption DEF IInv, TypeOK
<1>3. EditConflicts
  BY DEF IInv, SortedKept
<1>4. conflict \in Timer
  BY DEF IInv, TypeOK
<1>5. Frame
  BY <1>1, <1>2 DEF Frame, IInv, TypeOK
<1>6. /\ S.entry = entry /\ S.list = timer_list /\ S.done = processed_timers
      /\ entry \in [Timer -> Entry] /\ processed_timers \in [Timer -> Nat] /\ Nothing \in After
      /\ Kept(S, Nobody, after, dialog, conflict)
  BY <1>1, IdleFacts
<1>7. dialog = NoTimer
  BY <1>6 DEF Kept
<1>8. PICK w \in Timer : w = conflict
  BY <1>4
<1>9. Fits(S, Nobody, w, w) /\ Nobody[w] = 0 /\ processed_timers[w] \in Nat
  BY <1>6, <1>8 DEF Kept, Consistent, Nobody
<1>10. w \in Known \/ entry[w].state = Ended
  BY <1>6, <1>9 DEF Fits, Known, Over
<1> QED
  BY <1>1, <1>3, <1>4, <1>5, <1>6, <1>7, <1>8, <1>10

(* A timer of the conflict screen is toggled.                                   *)
LEMMA ToggleConflictingKeeps == \A w \in Timer : IInv /\ ToggleConflicting(w) => IInv'
<1> SUFFICES ASSUME NEW w \in Timer, IInv, ToggleConflicting(w) PROVE IInv'
  OBVIOUS
<1>1. /\ Request /\ conflict # NoTimer /\ w \in Known \cup {conflict}
      /\ dialog' = dialog /\ conflict' = conflict /\ saved' = saved
      /\ timeChanged(w, [entry[w] EXCEPT !.disabled = ~@], Nothing)
  BY DEF ToggleConflicting, screens
<1> HIDE DEF ToggleConflicting
<1>2. saved' \in File
  BY <1>1 DEF IInv, TypeOK, File
<1>3. /\ pc = "idle" /\ dialog = NoTimer /\ EditConflicts /\ Frame
      /\ entry \in [Timer -> Entry] /\ Nothing \in After
      /\ conflict \in Known \/ entry[conflict].state = Ended
  BY <1>1, <1>2, ConflictFacts
<1>4. PICK o \in Entry : o = entry[w]
  BY <1>3
<1>5. PICK b \in BOOLEAN : b = ~o.disabled
  OBVIOUS
<1>6. PICK e \in Entry : /\ e = [o EXCEPT !.disabled = b] /\ e.state = o.state
                         /\ e.record_service = o.record_service
  <2>1. [o EXCEPT !.disabled = b] \in Entry
    BY DEF Entry
  <2> QED
    BY <2>1 DEF Entry
<1>7. [entry[w] EXCEPT !.disabled = ~@] = [o EXCEPT !.disabled = b]
  BY <1>4, <1>5
<1>8. timeChanged(w, e, Nothing)
  BY <1>1, <1>6, <1>7
<1> QED
  BY <1>1, <1>3, <1>4, <1>6, <1>8, NothingToCarry, ChangedKeeps

(* A timer of the conflict screen is edited.                                    *)
LEMMA EditConflictingKeeps == \A w \in Timer : IInv /\ EditConflicting(w) => IInv'
<1> SUFFICES ASSUME NEW w \in Timer, IInv, EditConflicting(w) PROVE IInv'
  OBVIOUS
<1>1. /\ Request /\ conflict # NoTimer /\ w \in Known \cup {conflict}
      /\ dialog' = dialog /\ conflict' = conflict
  BY DEF EditConflicting, screens
<1>2. pc = "idle"
  BY <1>1 DEF Request
<1>3. entry \in [Timer -> Entry]
  BY <1>2, IdleFacts
<1>4. PICK p \in Spans, r \in Repeats :
        LET s == [S EXCEPT !.entry[w] = [@ EXCEPT !.begin = p[1], !.end = p[2],
                                                  !.repeated = r]]
        IN  saveTimer(s) /\ Settle(s, Nothing)
  BY DEF EditConflicting
<1> HIDE DEF EditConflicting
<1>5. PICK e \in Entry : /\ e = [entry[w] EXCEPT !.begin = p[1], !.end = p[2], !.repeated = r]
                         /\ e.state = entry[w].state
                         /\ e.record_service = entry[w].record_service
  BY <1>3, Written
<1>6. PICK s : s = [S EXCEPT !.entry[w] = e]
  OBVIOUS
<1>7. S.entry[w] = entry[w]
  BY DEF S
<1>8. saveTimer(s) /\ Settle(s, Nothing)
  BY <1>4, <1>5, <1>6, <1>7
<1>9. s \in Lists
  BY <1>2, <1>6, IdleFacts DEF Lists
<1>10. saved' \in File
  BY <1>8, <1>9, SavedFile
<1>11. dialog = NoTimer /\ EditConflicts /\ Frame
  BY <1>1, <1>10, ConflictFacts
<1> QED
  BY <1>1, <1>2, <1>5, <1>6, <1>8, <1>11, WrittenKeeps

(* The conflict screen is left.                                               *)
LEMMA ResolveConflictKeeps == IInv /\ ResolveConflict => IInv'
<1> SUFFICES ASSUME IInv, ResolveConflict PROVE IInv'
  OBVIOUS
<1>1. /\ pc = "idle" /\ conflict # NoTimer /\ conflict' = NoTimer /\ dialog' = dialog /\ Frame
      /\ \/ timeChanged(conflict, entry[conflict], Nothing)
         \/ Settle(Forget(S, NoTimer), Nothing)
  BY DEF ResolveConflict, Frame, IInv, TypeOK, File, clocks, limits
<1> HIDE DEF ResolveConflict
<1>2. /\ S \in Lists /\ S.entry = entry /\ S.list = timer_list /\ S.done = processed_timers
      /\ entry \in [Timer -> Entry] /\ processed_timers \in [Timer -> Nat] /\ Nothing \in After
      /\ Kept(S, Nobody, after, dialog, conflict)
  BY <1>1, IdleFacts
<1>3. dialog = NoTimer
  BY <1>1, <1>2 DEF Kept
<1>4. PICK w \in Timer : w = conflict
  BY <1>1 DEF IInv, TypeOK
<1>5. CASE timeChanged(conflict, entry[conflict], Nothing)
  <2>1. PICK o \in Entry : o = entry[w]
    BY <1>2
  <2>2. timeChanged(w, o, Nothing)
    BY <1>4, <1>5, <2>1
  <2>3. w \in Known \/ entry[w].state = Ended
    <3>1. Fits(S, Nobody, w, w) /\ Nobody[w] = 0 /\ processed_timers[w] \in Nat
      BY <1>2, <1>4 DEF Kept, Consistent, Nobody
    <3> QED
      BY <1>2, <3>1 DEF Fits, Known, Over
  <2>4. \A v \in Timer \ {w} : v = conflict <=> v = conflict'
    BY <1>1, <1>4, TimerAssumption
  <2> QED
    BY <1>1, <1>2, <1>3, <2>1, <2>2, <2>3, <2>4, NothingToCarry, ChangedKeeps
<1>6. CASE Settle(Forget(S, NoTimer), Nothing)
  <2>1. PICK g \in Lists : g = S
    BY <1>2
  <2>2. PICK f \in Lists : f = Forget(g, NoTimer) /\ Kept(f, Nobody, Nothing, NoTimer, NoTimer)
    BY <1>1, <1>2, <2>1, ForgetKept
  <2>3. Settle(f, Nothing)
    BY <1>6, <2>1, <2>2
  <2>4. Kept(f, Nobody, Nothing, dialog', conflict')
    BY <1>1, <1>3, <2>2
  <2>5. Removed(f, Nothing, bound)
    BY NothingToCarry DEF Removed
  <2> QED
    BY <1>1, <1>2, <2>3, <2>4, <2>5, NothingToCarry, SettleKeeps
<1> QED
  BY <1>1, <1>5, <1>6

(* The state of a program that has just been started.                           *)
LEMMA FreshLists ==
  LET s == [entry |-> [w \in Timer |-> Blank], list |-> <<>>, done |-> Nobody]
  IN  /\ s \in Lists /\ Consistent(s, Nobody, NoTimer) /\ InOrder(s)
<1> DEFINE s == [entry |-> [w \in Timer |-> Blank], list |-> <<>>, done |-> Nobody]
<1>1. <<>> \in Seq(Timer) /\ IsInjective(<<>>) /\ ToSet(<<>>) = {}
      /\ \A when : Sorted(<<>>, when)
  BY DEF IsInjective, ToSet, Sorted
<1>2. s \in Lists
  BY <1>1, BlankEntry DEF Lists, Nobody
<1>3. ASSUME NEW v \in Timer PROVE Fits(s, Nobody, NoTimer, v)
  <2>1. s.entry[v] = Blank /\ s.list = <<>> /\ s.done[v] = 0 /\ Nobody[v] = 0
    BY DEF Nobody
  <2>2. v # NoTimer /\ HasService(v, Blank)
    BY TimerAssumption, BlankEntry
  <2> HIDE DEF s
  <2> QED
    BY <1>1, <2>1, <2>2 DEF Fits
<1>4. IsInjective(s.list) /\ \A when : Sorted(s.list, when)
  BY <1>1
<1> HIDE DEF s
<1>5. Consistent(s, Nobody, NoTimer) /\ InOrder(s)
  BY <1>3, <1>4 DEF Consistent, InOrder
<1> QED
  BY <1>2, <1>5 DEF s

(* The program starts again.                                                  *)
LEMMA RestartKeeps == IInv /\ Restart => IInv'
<1> SUFFICES ASSUME IInv, Restart PROVE IInv'
  OBVIOUS
<1>1. /\ entry' = [w \in Timer |-> Blank] /\ timer_list' = <<>> /\ processed_timers' = Nobody
      /\ warped' = Nobody /\ lastActivation' = now /\ wait' = MaxWaitTime /\ pc' = "after"
      /\ after' = AfterLoad({w \in Timer : saved[w] # {}}) /\ slack' = PassTime
      /\ dialog' = NoTimer /\ conflict' = NoTimer
      /\ now' = now /\ bound' = bound /\ saved' = saved /\ edits' = edits
      /\ upsets' = upsets - 1 /\ upsets > 0
  BY DEF Restart
<1> HIDE DEF Restart
<1>2. TypeOK /\ Nobody \in [Timer -> Nat] /\ bound' \in 0 .. MaxTime /\ slack' \in 0 .. PassTime
  BY <1>1, TimerAssumption DEF IInv, TypeOK, Nobody
<1>3. Frame
  <2>1. upsets' \in 0 .. MaxUpsets /\ wait' \in 0 .. MaxWaitTime
    BY <1>1, TimerAssumption DEF IInv, TypeOK
  <2> QED
    BY <1>1, <2>1 DEF Frame, IInv, TypeOK, File
<1>4. PICK T \in SUBSET Timer : T = {w \in Timer : saved[w] # {}}
  OBVIOUS
<1>5. PICK then \in After : /\ then = AfterLoad(T) /\ then.op = "load" /\ then.timers = T
  <2>1. AfterLoad(T) \in After /\ AfterLoad(T).op = "load" /\ AfterLoad(T).timers = T
    BY DEF AfterLoad, Nothing, After
  <2> QED
    BY <2>1
<1>6. PICK t \in Lists : /\ t = [entry |-> [w \in Timer |-> Blank], list |-> <<>>, done |-> Nobody]
                         /\ Consistent(t, Nobody, NoTimer) /\ InOrder(t)
  BY FreshLists
<1>7. t.entry = entry' /\ t.list = timer_list' /\ t.done = processed_timers' /\ t.list = <<>>
      /\ t.done = Nobody
  BY <1>1, <1>6
<1>8. ToSet(<<>>) = {}
  BY DEF ToSet
<1>9. \A v \in Timer : Nobody[v] = 0
  BY DEF Nobody
<1>10. Kept(t, Nobody, then, dialog', conflict')
  BY <1>1, <1>5, <1>6, <1>7, <1>8, <1>9 DEF Kept
<1>11. /\ TypeOK' /\ ListsAgree' /\ ServiceHeld' /\ DialogKept' /\ LoadKept'
       /\ SortedKept' /\ NoErrorKept'
  BY <1>1, <1>2, <1>3, <1>4, <1>5, <1>7, <1>10, KeptThen
<1>12. WarpKept' /\ HandlerKept' /\ RemovalKept'
  <2>1. Over(warped') = {}
    BY <1>1, <1>9 DEF Over
  <2> QED
    BY <1>1, <1>4, <1>5, <2>1 DEF WarpKept, HandlerKept, RemovalKept
<1> QED
  BY <1>11, <1>12 DEF IInv

-----------------------------------------------------------------------------
(* The initial state.                                                         *)
LEMMA FreshKeeps == Init => IInv
<1> SUFFICES ASSUME Init PROVE IInv
  OBVIOUS
<1>1. /\ now = 0 /\ lastActivation = 0 /\ wait = MaxWaitTime
      /\ entry = [w \in Timer |-> Blank]
      /\ timer_list = <<>> /\ processed_timers = Nobody /\ warped = Nobody
      /\ pc = "idle" /\ bound = 0 /\ slack = PassTime /\ after = Nothing
      /\ dialog = NoTimer /\ conflict = NoTimer /\ saved = [w \in Timer |-> {}]
      /\ upsets = MaxUpsets /\ edits = MaxEdits
  BY DEF Init
<1> HIDE DEF Init
<1>2. PICK t \in Lists : /\ t = [entry |-> [w \in Timer |-> Blank], list |-> <<>>, done |-> Nobody]
                         /\ Consistent(t, Nobody, NoTimer) /\ InOrder(t)
  BY FreshLists
<1>3. S = t /\ t.entry = entry /\ t.list = timer_list /\ t.done = processed_timers
  BY <1>1, <1>2 DEF S
<1>4. ToSet(<<>>) = {} /\ (\A v \in Timer : Nobody[v] = 0) /\ Over(warped) = {}
      /\ Over(processed_timers) = {}
  BY <1>1 DEF ToSet, Nobody, Over
<1>5. TypeOK
  <2>1. Nothing \in After /\ Nobody \in [Timer -> Nat]
    BY DEF Nothing, After, Nobody
  <2> QED
    BY <1>1, <1>3, <2>1, TimerAssumption DEF TypeOK
<1>6. ListsAgree
  <2>1. \A v \in Timer : v # NoTimer
    BY TimerAssumption
  <2> QED
    BY <1>1, <1>2, <1>3, <1>4, <2>1 DEF ListsAgree, Consistent, Known
<1>7. ServiceHeld
  BY <1>1, BlankEntry DEF ServiceHeld
<1>8. SortedKept
  BY <1>1, <1>2, <1>3 DEF SortedKept, InOrder
<1>9. LoadKept
  BY <1>1, NothingToCarry DEF LoadKept
<1>10. WarpKept /\ HandlerKept /\ DialogKept /\ RemovalKept /\ NoErrorKept
  BY <1>1, <1>4, NothingToCarry
     DEF WarpKept, HandlerKept, DialogKept, RemovalKept, NoErrorKept, NoValueError
<1> QED
  BY <1>5, <1>6, <1>7, <1>8, <1>9, <1>10 DEF IInv

(* Nothing happens.                                                           *)
LEMMA StutterKeeps == IInv /\ UNCHANGED vars => IInv'
<1> SUFFICES ASSUME IInv, UNCHANGED vars PROVE IInv'
  OBVIOUS
<1>1. UNCHANGED <<now, entry, timer_list, processed_timers, warped, lastActivation, wait, pc,
                  bound, slack, after, dialog, conflict, saved, upsets, edits>>
  BY DEF vars
<1>2. /\ TypeOK' /\ ListsAgree' /\ ServiceHeld' /\ DialogKept' /\ LoadKept'
      /\ SortedKept' /\ NoErrorKept'
  <2>1. /\ now' \in 0 .. MaxTime /\ lastActivation' \in 0 .. MaxTime
        /\ wait' \in 0 .. MaxWaitTime /\ slack' \in 0 .. PassTime
        /\ upsets' \in 0 .. MaxUpsets /\ edits' \in 0 .. MaxEdits
    BY <1>1 DEF IInv, TypeOK
  <2> QED
    BY <1>1, <2>1, ClockKeeps
<1>3. WarpKept'
  BY <1>1 DEF IInv, WarpKept
<1>4. HandlerKept'
  BY <1>1 DEF IInv, HandlerKept
<1>5. RemovalKept'
  BY <1>1 DEF IInv, RemovalKept
<1> QED
  BY <1>2, <1>3, <1>4, <1>5 DEF IInv

(* Any step.                                                                  *)
LEMMA NextKeeps == IInv /\ [Next]_vars => IInv'
<1> SUFFICES ASSUME IInv, [Next]_vars PROVE IInv'
  OBVIOUS
<1>1. CASE Tick
  BY <1>1, TickKeeps
<1>2. CASE WarpBack
  BY <1>2, WarpBackKeeps
<1>3. CASE Poll
  BY <1>3, PollKeeps
<1>4. CASE ReEvaluate
  BY <1>4, ReEvaluateKeeps
<1>5. CASE Iterate
  BY <1>5, IterateKeeps
<1>6. CASE PassDone
  BY <1>6, PassDoneKeeps
<1>7. CASE SaveAfter
  BY <1>7, SaveAfterKeeps
<1>8. CASE RemoveAfter
  BY <1>8, RemoveAfterKeeps
<1>9. CASE ChangeAfter
  BY <1>9, ChangeAfterKeeps
<1>10. CASE LoadAfter
  BY <1>10, LoadAfterKeeps
<1>11. CASE AnswerDialog
  BY <1>11, AnswerDialogKeeps
<1>12. CASE ResolveConflict
  BY <1>12, ResolveConflictKeeps
<1>13. CASE Cleanup
  BY <1>13, CleanupKeeps
<1>14. CASE Restart
  BY <1>14, RestartKeeps
<1>15. ASSUME NEW w \in Timer,
              \/ Record(w) \/ RemoveEntry(w) \/ ToggleDisabled(w) \/ StopTimer(w) \/ Edit(w)
              \/ ToggleConflicting(w) \/ EditConflicting(w)
       PROVE  IInv'
  BY <1>15, RecordKeeps, RemoveEntryKeeps, ToggleDisabledKeeps, StopTimerKeeps, EditKeeps,
     ToggleConflictingKeeps, EditConflictingKeeps
<1>16. CASE UNCHANGED vars
  BY <1>16, StutterKeeps
<1> QED
  BY <1>1, <1>2, <1>3, <1>4, <1>5, <1>6, <1>7, <1>8, <1>9, <1>10, <1>11, <1>12, <1>13, <1>14,
     <1>15, <1>16 DEF Next

(* The inductive invariant holds of every run of the program, through passes in *)
(* progress, time warps, edits behind an open screen and restarts.              *)
THEOREM TimersInvariant == Spec => []IInv
<1>1. Init => IInv
  BY FreshKeeps
<1>2. IInv /\ [Next]_vars => IInv'
  BY NextKeeps
<1> QED
  BY <1>1, <1>2, PTL DEF Spec

(* timer_list and processed_timers agree with the states of the timers: no      *)
(* timer is lost or queued twice by any sequence of activations (doActivate),   *)
(* edits (timeChanged), removals and re-evaluations.                            *)
THEOREM ListsAlwaysAgree == Spec => []ListsAgree
<1>1. IInv => ListsAgree
  BY DEF IInv
<1> QED
  BY <1>1, TimersInvariant, PTL

(* A timer holds a record service just while it is prepared or running, even if *)
(* an exception ends the program.                                               *)
THEOREM ServiceAlwaysHeld == Spec => []ServiceHeld
<1>1. IInv => ServiceHeld
  BY DEF IInv
<1> QED
  BY <1>1, TimersInvariant, PTL

(* list.remove never raises: removeEntry finds the timer it has stopped in      *)
(* processed_timers when timeChanged has returned, as long as the handler takes *)
(* less time than cleanupDaily keeps timers for and no edit was refused by the  *)
(* sanity check.                                                                *)
THEOREM NeverAValueError ==
  ASSUME ~EditConflicts, PassTime < KeepTime
  PROVE  Spec => []NoValueError
<1>1. IInv => NoValueError
  BY DEF IInv, NoErrorKept
<1> QED
  BY <1>1, TimersInvariant, PTL

(* processActivation leaves nothing in the list that was due when it began: the *)
(* list is in order, whatever insort and timeChanged did to it meanwhile.       *)
THEOREM PassLeavesNothingDue ==
  ASSUME ~EditConflicts
  PROVE  Spec => NothingDueLeft
<1>1. IInv => (PassDone => \A w \in ToSet(timer_list) : getNextActivation(entry[w]) > bound)
  <2> SUFFICES ASSUME IInv, PassDone, NEW w \in ToSet(timer_list)
               PROVE  getNextActivation(entry[w]) > bound
    OBVIOUS
  <2>1. pc = "pass" /\ ~Due
    BY DEF PassDone
  <2> HIDE DEF PassDone
  <2>2. timer_list \in Seq(Timer) /\ entry \in [Timer -> Entry] /\ bound \in Int
    BY <2>1, IdleFacts DEF IInv, TypeOK
  <2>3. timer_list # <<>>
    BY DEF ToSet
  <2>4. w \in Timer
    BY <2>2, ElementOfSeq DEF ToSet
  <2>5. Sorted(timer_list, Activation(entry))
    BY <2>1 DEF IInv, SortedKept
  <2>6. PICK h \in Timer : /\ h = Head(timer_list)
                           /\ Activation(entry)[h] <= Activation(entry)[w] \/ w = h
    BY <2>2, <2>3, <2>5, HeadOf
  <2>7. getNextActivation(entry[h]) <= getNextActivation(entry[w]) \/ w = h
    BY <2>4, <2>6 DEF Activation
  <2>8. getNextActivation(entry[h]) \in Int /\ getNextActivation(entry[w]) \in Int
    <3>1. \A e \in Entry : getNextActivation(e) \in Int
      BY DEF getNextActivation, Entry
    <3> QED
      BY <2>2, <2>4, <3>1
  <2>9. ~(getNextActivation(entry[h]) <= bound)
    BY <2>1, <2>3, <2>6 DEF Due
  <2> QED
    BY <2>2, <2>7, <2>8, <2>9
<1> QED
  BY <1>1, TimersInvariant, PTL DEF NothingDueLeft

(* After a time warp only timers that are disabled or over stay processed.      *)
THEOREM WarpAlwaysReenqueues == Spec => WarpReenqueues
<1>1. IInv => (pc = "warp" /\ pc' = "pass" =>
                 \A w \in Over(processed_timers) : entry[w].disabled \/ entry[w].end <= now)
  BY DEF IInv, WarpKept
<1> QED
  BY <1>1, TimersInvariant, PTL DEF WarpReenqueues
=============================================================================
