---------------------------- MODULE EcListProofs ----------------------------
(***************************************************************************)
(* For any number of heads and entries the pointers of EcList implement    *)
(* one sequence of entries for each head, as long as callers do not        *)
(* list_del the head of a list that has entries.                           *)
(*                                                                         *)
(* The invariant says that next and prev string together the very          *)
(* sequences that a walk from the heads finds: Strung(next, prev,          *)
(* Contents).  From it follow the ring, that lists stay apart and what a   *)
(* loop visits, and every operation of list.h is an insertion into, or a   *)
(* removal from, these sequences at one place.                             *)
(***************************************************************************)
EXTENDS EcList, Integers, SequencesExt, FiniteSetTheorems, WellFoundedInduction,
        TLAPS

-----------------------------------------------------------------------------
(* What a walk along next finds.                                           *)

\* Every nonempty set of numbers has a least element.
LEMMA LeastNumber ==
  ASSUME NEW T \in SUBSET Nat, T # {}
  PROVE  \E x \in T : \A y \in T : x <= y
<1> DEFINE R == {ss \in Nat \X Nat : ss[1] < ss[2]}
<1>1. IsWellFoundedOn(R, Nat)
  BY NatLessThanWellFounded DEF OpToRel
<1>2. \A x, y \in Nat : ~(<<y, x>> \in R) => x <= y
  OBVIOUS
<1> HIDE DEF R
<1>3. \E x \in T : \A y \in T : ~(<<y, x>> \in R)
  BY <1>1, WFMin
<1> QED
  BY <1>2, <1>3

\* The node at position i of the list of h: the head is before the first
\* entry and after the last.
At(L, h, i) == IF i \in 1 .. Len(L[h]) THEN L[h][i] ELSE h

\* No entry is in two places.
Apart(L) ==
  /\ L \in [ListHead -> Seq(Entry)]
  /\ \A g, h \in ListHead : \A i \in 1 .. Len(L[g]), j \in 1 .. Len(L[h]) :
       L[g][i] = L[h][j] => g = h /\ i = j

\* The two fields string the entries of L together, and none is in two places.
Strung(nx, pv, L) ==
  /\ Apart(L)
  /\ \A h \in ListHead : \A i \in 0 .. Len(L[h]) :
       nx[At(L, h, i)] = At(L, h, i + 1) /\ pv[At(L, h, i + 1)] = At(L, h, i)

\* One step of the loop of Walk.
Onward(nx, h, s) ==
  LET n == IF s = <<>> THEN nx[h] ELSE nx[s[Len(s)]]
  IN  IF n \in Entry THEN Append(s, n) ELSE s

LEMMA OnwardFollows ==
  ASSUME NEW nx, NEW pv, NEW L, Strung(nx, pv, L),
         NEW h \in ListHead, NEW k \in 0 .. Len(L[h]),
         NEW s \in Seq(Entry), Len(s) = k, \A i \in 1 .. k : s[i] = L[h][i]
  PROVE  /\ k = Len(L[h]) => Onward(nx, h, s) = s
         /\ k < Len(L[h]) => /\ Onward(nx, h, s) \in Seq(Entry)
                             /\ Len(Onward(nx, h, s)) = k + 1
                             /\ \A i \in 1 .. (k + 1) : Onward(nx, h, s)[i] = L[h][i]
<1> DEFINE n == IF s = <<>> THEN nx[h] ELSE nx[s[Len(s)]]
<1>1. L[h] \in Seq(Entry) /\ Len(L[h]) \in Nat /\ \A i \in 1 .. Len(L[h]) : L[h][i] \in Entry
  BY DEF Strung, Apart
<1>2. n = nx[At(L, h, k)]
  BY <1>1 DEF At
<1>3. n = At(L, h, k + 1)
  BY <1>2 DEF Strung, Apart
<1>4. Onward(nx, h, s) = IF n \in Entry THEN Append(s, n) ELSE s
  BY DEF Onward
<1>5. CASE k = Len(L[h])
  BY <1>1, <1>3, <1>4, <1>5, ListAssumption DEF At
<1>6. CASE k < Len(L[h])
  <2>1. n = L[h][k + 1] /\ n \in Entry
    BY <1>1, <1>3, <1>6 DEF At
  <2> HIDE DEF n
  <2> QED
    BY <1>1, <1>4, <1>6, <2>1
<1> QED
  BY <1>1, <1>5, <1>6

\* No list is longer than there are entries.
LEMMA LengthBound ==
  ASSUME NEW nx, NEW pv, NEW L, Strung(nx, pv, L), NEW h \in ListHead
  PROVE  Cardinality(Entry) \in Nat /\ Len(L[h]) \in 0 .. Cardinality(Entry)
<1>1. /\ L[h] \in Seq(Entry) /\ Len(L[h]) \in Nat
      /\ \A i \in 1 .. Len(L[h]) : L[h][i] \in Entry
      /\ \A i, j \in 1 .. Len(L[h]) : L[h][i] = L[h][j] => i = j
  BY DEF Strung, Apart
<1> DEFINE f == [i \in 1 .. Len(L[h]) |-> L[h][i]]
<1>2. f \in Injection(1 .. Len(L[h]), Entry)
  BY <1>1 DEF Injection, IsInjective
<1>3. Cardinality(1 .. Len(L[h])) <= Cardinality(Entry)
  <2> HIDE DEF f
  <2> QED
    BY <1>2, FS_Injection, ListAssumption
<1>4. Cardinality(1 .. Len(L[h])) = Len(L[h])
  BY <1>1, FS_Interval
<1> QED
  BY <1>1, <1>3, <1>4, FS_CardinalityType, ListAssumption

\* The walk from a head finds the list that the fields string together.
LEMMA WalkFinds ==
  ASSUME NEW nx, NEW pv, NEW L, Strung(nx, pv, L), NEW h \in ListHead
  PROVE  Walk(nx, h) = L[h]
<1> DEFINE C == Cardinality(Entry)
           m == Len(L[h])
           Upto(k) == IF k < m THEN k ELSE m
           Part(k) == [i \in 1 .. Upto(k) |-> L[h][i]]
           Loop(f) == [k \in 0 .. C |-> IF k = 0 THEN <<>> ELSE Onward(nx, h, f[k - 1])]
           found == CHOOSE from : from = Loop(from)
<1>1. C \in Nat /\ m \in 0 .. C /\ L[h] \in Seq(Entry)
  BY LengthBound DEF Strung, Apart
<1>2. Walk(nx, h) = found[C]
  BY DEF Walk, Onward
<1>3. \A k \in 0 .. C : /\ Part(k) \in Seq(Entry) /\ Len(Part(k)) = Upto(k)
                        /\ \A i \in 1 .. Upto(k) : Part(k)[i] = L[h][i]
  BY <1>1
<1>4. Part(0) = <<>> /\ Part(C) = L[h]
  BY <1>1
<1>5. \A k \in 1 .. C : Onward(nx, h, Part(k - 1)) = Part(k)
  <2>1. SUFFICES ASSUME NEW k \in 1 .. C
                 PROVE  Onward(nx, h, Part(k - 1)) = Part(k)
    OBVIOUS
  <2> DEFINE s == Part(k - 1)
             j == Upto(k - 1)
  <2>2. s \in Seq(Entry) /\ Len(s) = j /\ j \in 0 .. m /\ \A i \in 1 .. j : s[i] = L[h][i]
    BY <1>1, <1>3
  <2>3. /\ j = m => Onward(nx, h, s) = s
        /\ j < m => /\ Onward(nx, h, s) \in Seq(Entry)
                    /\ Len(Onward(nx, h, s)) = j + 1
                    /\ \A i \in 1 .. (j + 1) : Onward(nx, h, s)[i] = L[h][i]
    <3> HIDE DEF s, j
    <3> QED
      BY <2>2, OnwardFollows
  <2>4. CASE j = m
    BY <1>1, <2>3, <2>4
  <2>5. CASE j < m
    <3>1. Upto(k) = j + 1
      BY <1>1, <2>5
    <3>2. Part(k) \in Seq(Entry) /\ Len(Part(k)) = j + 1 /\ \A i \in 1 .. (j + 1) : Part(k)[i] = L[h][i]
      BY <1>1, <1>3, <3>1
    <3> DEFINE t == Onward(nx, h, s)
               p == Part(k)
    <3>3. t \in Seq(Entry) /\ p \in Seq(Entry) /\ Len(t) = Len(p) /\ \A i \in 1 .. Len(t) : t[i] = p[i]
      BY <2>3, <2>5, <3>2
    <3> HIDE DEF t, p
    <3>4. t = p
      BY <3>3
    <3> QED
      BY <3>4 DEF t, p
  <2> QED
    BY <1>1, <2>2, <2>4, <2>5
<1> HIDE DEF C, m, Part
<1> DEFINE known == [k \in 0 .. C |-> Part(k)]
<1>6. known = Loop(known)
  <2>1. \A k \in 0 .. C : known[k] = IF k = 0 THEN <<>> ELSE Onward(nx, h, known[k - 1])
    BY <1>1, <1>4, <1>5
  <2> QED
    BY <2>1
<1>7. found = Loop(found)
  <2> HIDE DEF known
  <2> QED
    BY <1>6
<1> HIDE DEF found
<1>8. \A k \in 0 .. C : found[k] = Part(k)
  <2> DEFINE Wrong == {k \in 0 .. C : found[k] # Part(k)}
  <2>1. SUFFICES ASSUME Wrong # {} PROVE FALSE
    OBVIOUS
  <2>2. PICK k \in 0 .. C : found[k] # Part(k) /\ \A j \in 0 .. C : found[j] # Part(j) => k <= j
    <3>1. Wrong \in SUBSET Nat
      BY <1>1
    <3>2. PICK k \in Wrong : \A j \in Wrong : k <= j
      <4> HIDE DEF Wrong
      <4> QED
        BY <2>1, <3>1, LeastNumber
    <3> QED
      BY <3>2
  <2>3. found[k] = IF k = 0 THEN <<>> ELSE Onward(nx, h, found[k - 1])
    BY <1>7
  <2>4. k # 0
    BY <1>4, <2>2, <2>3
  <2>5. found[k - 1] = Part(k - 1)
    BY <1>1, <2>2, <2>4
  <2> QED
    BY <1>1, <1>5, <2>2, <2>3, <2>4, <2>5
<1> QED
  BY <1>1, <1>2, <1>4, <1>8

LEMMA ContentsAre ==
  ASSUME NEW L, Strung(next, prev, L)
  PROVE  Contents = L
<1>1. \A h \in ListHead : Walk(next, h) = L[h]
  BY WalkFinds
<1> QED
  BY <1>1 DEF Contents, Strung, Apart

LEMMA ContentsAreThen ==
  ASSUME NEW L, Strung(next', prev', L)
  PROVE  Contents' = L
<1>1. Contents' = [h \in ListHead |-> Walk(next', h)]
  BY DEF Contents
<1>2. \A h \in ListHead : Walk(next', h) = L[h]
  BY WalkFinds
<1> QED
  BY <1>1, <1>2 DEF Strung, Apart


-----------------------------------------------------------------------------
(* Putting an entry in at one place of one sequence, or taking it out:     *)
(* what becomes of the places of the others.                               *)

LEMMA Shape ==
  ASSUME NEW L, Apart(L), NEW h \in ListHead
  PROVE  /\ L[h] \in Seq(Entry) /\ Len(L[h]) \in Nat
         /\ \A i \in 1 .. Len(L[h]) : L[h][i] \in Entry
         /\ \A i \in Int : At(L, h, i) \in Node
BY DEF Apart, At, Node

LEMMA Places ==
  ASSUME NEW L, Apart(L), NEW g \in ListHead, NEW h \in ListHead, NEW i \in Int, NEW j \in Int,
         At(L, g, i) = At(L, h, j),
         (i \in 0 .. Len(L[g]) /\ j \in 0 .. Len(L[h]))
           \/ (i \in 1 .. (Len(L[g]) + 1) /\ j \in 1 .. (Len(L[h]) + 1))
  PROVE  g = h /\ i = j
<1>1. /\ Len(L[g]) \in Nat /\ \A x \in 1 .. Len(L[g]) : L[g][x] \in Entry
      /\ Len(L[h]) \in Nat /\ \A x \in 1 .. Len(L[h]) : L[h][x] \in Entry
  BY Shape
<1>2. CASE i \in 1 .. Len(L[g]) /\ j \in 1 .. Len(L[h])
  BY <1>2 DEF Apart, At
<1>3. CASE i \in 1 .. Len(L[g]) /\ j \notin 1 .. Len(L[h])
  BY <1>1, <1>3, ListAssumption DEF At
<1>4. CASE i \notin 1 .. Len(L[g]) /\ j \in 1 .. Len(L[h])
  BY <1>1, <1>4, ListAssumption DEF At
<1>5. CASE i \notin 1 .. Len(L[g]) /\ j \notin 1 .. Len(L[h])
  BY <1>1, <1>5 DEF At
<1> QED
  BY <1>2, <1>3, <1>4, <1>5

\* e is nowhere in L, or at place k of the list of h only.
Absent(L, e) == \A g \in ListHead : \A i \in 1 .. Len(L[g]) : L[g][i] # e

LEMMA AbsentNode ==
  ASSUME NEW L, Apart(L), NEW e \in Entry, Absent(L, e), NEW h \in ListHead, NEW i \in Int
  PROVE  At(L, h, i) # e
BY ListAssumption DEF Absent, At

\* s is t with e put in at place k, or without its place k.
PutIn(s, t, k, e) ==
  /\ s \in Seq(Entry) /\ Len(s) = Len(t) + 1
  /\ \A i \in 1 .. Len(s) : s[i] = IF i < k THEN t[i] ELSE IF i = k THEN e ELSE t[i - 1]
TakenOut(s, t, k) ==
  /\ s \in Seq(Entry) /\ Len(s) = Len(t) - 1
  /\ \A i \in 1 .. Len(s) : s[i] = IF i < k THEN t[i] ELSE t[i + 1]

LEMMA PutInApart ==
  ASSUME NEW L, Apart(L), NEW e \in Entry, Absent(L, e), NEW h \in ListHead,
         NEW k \in 1 .. (Len(L[h]) + 1), NEW s, PutIn(s, L[h], k, e)
  PROVE  Apart([L EXCEPT ![h] = s])
<1> DEFINE M == [L EXCEPT ![h] = s]
<1>1. M \in [ListHead -> Seq(Entry)] /\ M[h] = s /\ \A g \in ListHead : g # h => M[g] = L[g]
  BY DEF Apart, PutIn
<1> HIDE DEF M
<1>2. SUFFICES ASSUME NEW f \in ListHead, NEW g \in ListHead,
                      NEW i \in 1 .. Len(M[f]), NEW j \in 1 .. Len(M[g]), M[f][i] = M[g][j]
               PROVE  f = g /\ i = j
  BY <1>1 DEF Apart, M
<1>3. \A a \in ListHead : \A p \in 1 .. Len(L[a]) : L[a][p] # e
  BY DEF Absent
<1>4. \A a, b \in ListHead : \A p \in 1 .. Len(L[a]), q \in 1 .. Len(L[b]) :
        L[a][p] = L[b][q] => a = b /\ p = q
  BY DEF Apart
<1>5. CASE f # h /\ g # h
  BY <1>1, <1>2, <1>4, <1>5
<1>6. ASSUME NEW x \in 1 .. Len(s)
      PROVE  \/ x = k /\ s[x] = e
             \/ \E y \in 1 .. Len(L[h]) :
                  s[x] = L[h][y] /\ x # k /\ y = IF x < k THEN x ELSE x - 1
  <2>1. /\ Len(L[h]) \in Nat /\ Len(s) = Len(L[h]) + 1
        /\ s[x] = IF x < k THEN L[h][x] ELSE IF x = k THEN e ELSE L[h][x - 1]
    BY Shape DEF PutIn
  <2>2. CASE x < k
    <3>1. x \in 1 .. Len(L[h]) /\ s[x] = L[h][x]
      BY <2>1, <2>2
    <3> QED
      BY <2>2, <3>1
  <2>3. CASE x = k
    BY <2>1, <2>3
  <2>4. CASE x > k
    <3>1. x - 1 \in 1 .. Len(L[h]) /\ s[x] = L[h][x - 1] /\ x # k /\ ~(x < k)
      BY <2>1, <2>4
    <3> QED
      BY <3>1
  <2> QED
    BY <2>1, <2>2, <2>3, <2>4
<1>7. ASSUME NEW x \in 1 .. Len(s), NEW a \in ListHead, NEW y \in 1 .. Len(L[a]), s[x] = L[a][y]
      PROVE  a = h
  BY <1>3, <1>4, <1>6, <1>7
<1>8. CASE f = h /\ g # h
  BY <1>1, <1>2, <1>7, <1>8
<1>9. CASE f # h /\ g = h
  BY <1>1, <1>2, <1>7, <1>9
<1>10. CASE f = h /\ g = h
  <2>1. i \in 1 .. Len(s) /\ j \in 1 .. Len(s) /\ s[i] = s[j]
    BY <1>1, <1>2, <1>10
  <2>2. CASE s[i] = e
    BY <1>3, <1>6, <1>10, <2>1, <2>2
  <2>3. CASE s[i] # e
    <3>1. PICK y \in 1 .. Len(L[h]) : s[i] = L[h][y] /\ i # k /\ y = IF i < k THEN i ELSE i - 1
      BY <1>6, <2>1, <2>3
    <3>2. PICK z \in 1 .. Len(L[h]) : s[j] = L[h][z] /\ j # k /\ z = IF j < k THEN j ELSE j - 1
      BY <1>6, <2>1, <2>3
    <3>3. y = z
      <4>1. L[h][y] = L[h][z]
        BY <2>1, <3>1, <3>2
      <4> QED
        BY <1>4, <4>1
    <3>4. Len(s) \in Nat
      BY DEF PutIn
    <3> QED
      BY <1>10, <2>1, <3>1, <3>2, <3>3, <3>4
  <2> QED
    BY <2>2, <2>3
<1> QED
  BY <1>5, <1>8, <1>9, <1>10

LEMMA TakenOutApart ==
  ASSUME NEW L, Apart(L), NEW h \in ListHead, NEW k \in 1 .. Len(L[h]),
         NEW s, TakenOut(s, L[h], k)
  PROVE  Apart([L EXCEPT ![h] = s]) /\ Absent([L EXCEPT ![h] = s], L[h][k])
<1> DEFINE M == [L EXCEPT ![h] = s]
<1>1. M \in [ListHead -> Seq(Entry)] /\ M[h] = s /\ \A g \in ListHead : g # h => M[g] = L[g]
  BY DEF Apart, TakenOut
<1> HIDE DEF M
<1>2. ASSUME NEW f \in ListHead, NEW i \in 1 .. Len(M[f])
      PROVE  \E x \in 1 .. Len(L[f]) : /\ M[f][i] = L[f][x]
                                       /\ f = h => x # k /\ x = IF i < k THEN i ELSE i + 1
                                       /\ f # h => x = i
  <2>1. CASE f = h
    <3>1. /\ Len(L[h]) \in Nat /\ Len(s) = Len(L[h]) - 1 /\ M[f] = s
          /\ s[i] = IF i < k THEN L[h][i] ELSE L[h][i + 1]
      BY <1>1, <2>1, Shape DEF TakenOut
    <3>2. i \in 1 .. Len(L[h]) /\ i + 1 \in 1 .. Len(L[h]) /\ i # i + 1 /\ i \in Int
      BY <3>1
    <3>3. CASE i < k
      BY <2>1, <3>1, <3>2, <3>3
    <3>4. CASE ~(i < k)
      BY <2>1, <3>1, <3>2, <3>4
    <3> QED
      BY <3>3, <3>4
  <2>2. CASE f # h
    BY <1>1, <2>2
  <2> QED
    BY <2>1, <2>2
<1>3. \A a, b \in ListHead : \A p \in 1 .. Len(L[a]), q \in 1 .. Len(L[b]) :
        L[a][p] = L[b][q] => a = b /\ p = q
  BY DEF Apart
<1>4. ASSUME NEW f \in ListHead, NEW g \in ListHead,
             NEW i \in 1 .. Len(M[f]), NEW j \in 1 .. Len(M[g]), M[f][i] = M[g][j]
      PROVE  f = g /\ i = j
  <2>1. PICK x \in 1 .. Len(L[f]) : /\ M[f][i] = L[f][x]
                                    /\ f = h => x # k /\ x = IF i < k THEN i ELSE i + 1
                                    /\ f # h => x = i
    BY <1>2
  <2>2. PICK y \in 1 .. Len(L[g]) : /\ M[g][j] = L[g][y]
                                    /\ g = h => y # k /\ y = IF j < k THEN j ELSE j + 1
                                    /\ g # h => y = j
    BY <1>2
  <2>3. f = g /\ x = y
    <3>1. L[f][x] = L[g][y]
      BY <1>4, <2>1, <2>2
    <3> QED
      BY <1>3, <3>1
  <2>4. CASE f = h
    BY <2>1, <2>2, <2>3, <2>4, <1>1 DEF TakenOut
  <2>5. CASE f # h
    BY <2>1, <2>2, <2>3, <2>5
  <2> QED
    BY <2>3, <2>4, <2>5
<1>5. Apart(M)
  BY <1>1, <1>4 DEF Apart
<1>6. Absent(M, L[h][k])
  BY <1>2, <1>3 DEF Absent
<1> QED
  BY <1>5, <1>6 DEF M


Holds(L, h, e) == \E i \in 1 .. Len(L[h]) : L[h][i] = e

LEMMA PutInHolds ==
  ASSUME NEW L, Apart(L), NEW e \in Entry, NEW h \in ListHead,
         NEW k \in 1 .. (Len(L[h]) + 1), NEW s, PutIn(s, L[h], k, e)
  PROVE  \A g \in ListHead, d \in Entry :
           Holds([L EXCEPT ![h] = s], g, d) <=> Holds(L, g, d) \/ (g = h /\ d = e)
<1> SUFFICES ASSUME NEW g \in ListHead, NEW d \in Entry
             PROVE  Holds([L EXCEPT ![h] = s], g, d) <=> Holds(L, g, d) \/ (g = h /\ d = e)
  OBVIOUS
<1> DEFINE M == [L EXCEPT ![h] = s]
<1>1. M[h] = s /\ (g # h => M[g] = L[g]) /\ Len(L[h]) \in Nat /\ Len(s) = Len(L[h]) + 1
  BY Shape DEF Apart, PutIn
<1> HIDE DEF M
<1>2. CASE g # h
  BY <1>1, <1>2 DEF Holds, M
<1>3. CASE g = h
  <2>1. ASSUME NEW i \in 1 .. Len(s) PROVE s[i] = e \/ \E j \in 1 .. Len(L[h]) : s[i] = L[h][j]
    <3>1. CASE i < k
      <4>1. i \in 1 .. Len(L[h]) /\ s[i] = L[h][i]
        BY <1>1, <3>1 DEF PutIn
      <4> QED
        BY <4>1
    <3>2. CASE i = k
      BY <3>2 DEF PutIn
    <3>3. CASE i > k
      <4>1. i - 1 \in 1 .. Len(L[h]) /\ s[i] = L[h][i - 1]
        BY <1>1, <3>3 DEF PutIn
      <4> QED
        BY <4>1
    <3> QED
      BY <1>1, <3>1, <3>2, <3>3
  <2>2. ASSUME NEW j \in 1 .. Len(L[h]) PROVE \E i \in 1 .. Len(s) : s[i] = L[h][j]
    <3>1. CASE j < k
      <4>1. j \in 1 .. Len(s) /\ s[j] = L[h][j]
        BY <1>1, <3>1 DEF PutIn
      <4> QED
        BY <4>1
    <3>2. CASE j >= k
      <4>1. j + 1 \in 1 .. Len(s) /\ s[j + 1] = L[h][j]
        BY <1>1, <3>2 DEF PutIn
      <4> QED
        BY <4>1
    <3> QED
      BY <1>1, <3>1, <3>2
  <2>3. k \in 1 .. Len(s) /\ s[k] = e
    BY <1>1 DEF PutIn
  <2> QED
    BY <1>1, <1>3, <2>1, <2>2, <2>3 DEF Holds, M
<1> QED
  BY <1>2, <1>3

LEMMA TakenOutHolds ==
  ASSUME NEW L, Apart(L), NEW h \in ListHead, NEW k \in 1 .. Len(L[h]),
         NEW s, TakenOut(s, L[h], k)
  PROVE  \A g \in ListHead, d \in Entry :
           Holds([L EXCEPT ![h] = s], g, d) <=> Holds(L, g, d) /\ d # L[h][k]
<1> SUFFICES ASSUME NEW g \in ListHead, NEW d \in Entry
             PROVE  Holds([L EXCEPT ![h] = s], g, d) <=> Holds(L, g, d) /\ d # L[h][k]
  OBVIOUS
<1> DEFINE M == [L EXCEPT ![h] = s]
<1>1. M[h] = s /\ (g # h => M[g] = L[g]) /\ Len(L[h]) \in Nat /\ Len(s) = Len(L[h]) - 1
  BY Shape DEF Apart, TakenOut
<1> HIDE DEF M
<1>0. \A i \in 1 .. Len(L[g]) : L[g][i] = L[h][k] => g = h /\ i = k
  BY DEF Apart
<1>2. CASE g # h
  BY <1>0, <1>1, <1>2 DEF Holds, M
<1>3. CASE g = h
  <2>1. ASSUME NEW i \in 1 .. Len(s) PROVE \E j \in 1 .. Len(L[h]) : s[i] = L[h][j] /\ j # k
    <3>1. CASE i < k
      <4>1. i \in 1 .. Len(L[h]) /\ s[i] = L[h][i] /\ i # k
        BY <1>1, <3>1 DEF TakenOut
      <4> QED
        BY <4>1
    <3>2. CASE i >= k
      <4>1. i + 1 \in 1 .. Len(L[h]) /\ s[i] = L[h][i + 1] /\ i + 1 # k
        BY <1>1, <3>2 DEF TakenOut
      <4> QED
        BY <4>1
    <3> QED
      BY <1>1, <3>1, <3>2
  <2>2. ASSUME NEW j \in 1 .. Len(L[h]), j # k PROVE \E i \in 1 .. Len(s) : s[i] = L[h][j]
    <3>1. CASE j < k
      <4>1. j \in 1 .. Len(s) /\ s[j] = L[h][j]
        BY <1>1, <3>1 DEF TakenOut
      <4> QED
        BY <4>1
    <3>2. CASE j > k
      <4>1. j - 1 \in 1 .. Len(s) /\ s[j - 1] = L[h][j]
        BY <1>1, <3>2 DEF TakenOut
      <4> QED
        BY <4>1
    <3> QED
      BY <1>1, <2>2, <3>1, <3>2
  <2>3. Holds(M, h, d) <=> \E i \in 1 .. Len(s) : s[i] = d
    BY <1>1 DEF Holds
  <2>4. Holds(L, h, d) <=> \E i \in 1 .. Len(L[h]) : L[h][i] = d
    BY DEF Holds
  <2>5. ASSUME NEW i \in 1 .. Len(s), s[i] = d PROVE Holds(L, h, d) /\ d # L[h][k]
    <3>1. PICK j \in 1 .. Len(L[h]) : s[i] = L[h][j] /\ j # k
      BY <2>1
    <3> QED
      BY <1>0, <1>3, <2>4, <2>5, <3>1
  <2>6. ASSUME NEW j \in 1 .. Len(L[h]), L[h][j] = d, d # L[h][k] PROVE Holds(M, h, d)
    <3>1. j # k
      BY <2>6
    <3> QED
      BY <2>2, <2>3, <2>6, <3>1
  <2> QED
    BY <1>3, <2>3, <2>4, <2>5, <2>6 DEF M
<1> QED
  BY <1>2, <1>3

-----------------------------------------------------------------------------
(* The pointer assignments.                                                *)

\* What AddBetween and Unlink do to fields nx and pv.
Between(nx2, pv2, nx, pv, e, p, n) ==
  /\ nx2[e] = n /\ nx2[p] = e /\ \A m \in Node \ {e, p} : nx2[m] = nx[m]
  /\ pv2[e] = p /\ pv2[n] = e /\ \A m \in Node \ {e, n} : pv2[m] = pv[m]
Bypass(nx2, pv2, nx, pv, e) ==
  /\ \A m \in Node \ {e} : nx2[m] = IF m = pv[e] THEN nx[e] ELSE nx[m]
  /\ \A m \in Node \ {e} : pv2[m] = IF m = nx[e] THEN pv[e] ELSE pv[m]

\* __list_add between two neighbours puts the entry in at their place.
LEMMA BetweenStrings ==
  ASSUME NEW nx, NEW pv, NEW L, Strung(nx, pv, L),
         NEW e \in Entry, Absent(L, e), NEW h \in ListHead, NEW k \in 1 .. (Len(L[h]) + 1),
         NEW s, PutIn(s, L[h], k, e), NEW nx2, NEW pv2,
         Between(nx2, pv2, nx, pv, e, At(L, h, k - 1), At(L, h, k))
  PROVE  Strung(nx2, pv2, [L EXCEPT ![h] = s])
<1> DEFINE M == [L EXCEPT ![h] = s]
           p == At(L, h, k - 1)
           n == At(L, h, k)
<1>1. Apart(L) /\ Apart(M)
  BY PutInApart DEF Strung
<1>2. /\ M[h] = s /\ \A g \in ListHead : g # h => M[g] = L[g]
      /\ Len(L[h]) \in Nat /\ Len(s) = Len(L[h]) + 1
  BY <1>1, Shape DEF Apart, PutIn
<1>3. ASSUME NEW g \in ListHead, NEW i \in 0 .. Len(L[g]), g # h \/ i # k - 1
      PROVE  nx2[At(L, g, i)] = At(L, g, i + 1) /\ pv2[At(L, g, i + 1)] = At(L, g, i)
  <2>1. Len(L[g]) \in Nat /\ i + 1 \in 1 .. (Len(L[g]) + 1) /\ k - 1 \in 0 .. Len(L[h])
    BY <1>1, <1>2, Shape
  <2>2. nx[At(L, g, i)] = At(L, g, i + 1) /\ pv[At(L, g, i + 1)] = At(L, g, i)
    BY DEF Strung
  <2>3. At(L, g, i) \in Node /\ At(L, g, i) # e /\ At(L, g, i + 1) \in Node /\ At(L, g, i + 1) # e
    BY <1>1, <2>1, Shape, AbsentNode
  <2>4. At(L, g, i) # p
    BY <1>1, <1>3, <2>1, Places
  <2>5. At(L, g, i + 1) # n
    <3>1. i + 1 # k \/ g # h
      BY <1>3
    <3> QED
      BY <1>1, <2>1, <3>1, Places
  <2> HIDE DEF p, n
  <2>6. Between(nx2, pv2, nx, pv, e, p, n)
    BY DEF p, n
  <2> QED
    BY <2>2, <2>3, <2>4, <2>5, <2>6 DEF Between
<1>4. nx2[e] = n /\ nx2[p] = e /\ pv2[e] = p /\ pv2[n] = e
  BY DEF Between
<1>5. \A i \in 0 .. (Len(s) + 1) : At(M, h, i) = IF i < k THEN At(L, h, i) ELSE IF i = k THEN e ELSE At(L, h, i - 1)
  BY <1>2 DEF At, PutIn
<1>6. \A g \in ListHead \ {h} : \A i \in Int : At(M, g, i) = At(L, g, i)
  BY <1>2 DEF At
<1> HIDE DEF M, p, n
<1>7. ASSUME NEW g \in ListHead, NEW i \in 0 .. Len(M[g])
      PROVE  nx2[At(M, g, i)] = At(M, g, i + 1) /\ pv2[At(M, g, i + 1)] = At(M, g, i)
  <2>1. CASE g # h
    <3>1. i \in 0 .. Len(L[g]) /\ i \in Int /\ i + 1 \in Int
      BY <1>2, <2>1
    <3> QED
      BY <1>3, <1>6, <2>1, <3>1
  <2>2. CASE g = h
    <3>1. i \in 0 .. (Len(L[h]) + 1) /\ i \in 0 .. (Len(s) + 1) /\ i + 1 \in 0 .. (Len(s) + 1)
      BY <1>2, <2>2
    <3>2. CASE i < k - 1
      <4>1. At(M, h, i) = At(L, h, i) /\ At(M, h, i + 1) = At(L, h, i + 1) /\ i \in 0 .. Len(L[h])
        BY <1>2, <1>5, <3>1, <3>2
      <4> QED
        BY <1>3, <2>2, <3>2, <4>1
    <3>3. CASE i = k - 1
      <4>1. At(M, h, i) = p /\ At(M, h, i + 1) = e
        BY <1>2, <1>5, <3>1, <3>3 DEF p
      <4> QED
        BY <1>4, <2>2, <4>1
    <3>4. CASE i = k
      <4>1. At(M, h, i) = e /\ At(M, h, i + 1) = n
        BY <1>2, <1>5, <3>1, <3>4 DEF n
      <4> QED
        BY <1>4, <2>2, <4>1
    <3>5. CASE i > k
      <4>1. /\ At(M, h, i) = At(L, h, i - 1) /\ At(M, h, i + 1) = At(L, h, (i - 1) + 1)
            /\ i - 1 \in 0 .. Len(L[h]) /\ i - 1 # k - 1
        BY <1>2, <1>5, <3>1, <3>5
      <4> QED
        BY <1>3, <2>2, <4>1
    <3> QED
      BY <3>1, <3>2, <3>3, <3>4, <3>5
  <2> QED
    BY <2>1, <2>2
<1> QED
  BY <1>1, <1>7 DEF Strung, M

\* __list_del takes the entry out.
LEMMA BypassStrings ==
  ASSUME NEW nx, NEW pv, NEW L, Strung(nx, pv, L),
         NEW h \in ListHead, NEW k \in 1 .. Len(L[h]), NEW s, TakenOut(s, L[h], k),
         NEW nx2, NEW pv2, Bypass(nx2, pv2, nx, pv, L[h][k])
  PROVE  Strung(nx2, pv2, [L EXCEPT ![h] = s])
<1> DEFINE M == [L EXCEPT ![h] = s]
           e == L[h][k]
           p == At(L, h, k - 1)
           n == At(L, h, k + 1)
<1>1. Apart(L) /\ Apart(M)
  BY TakenOutApart DEF Strung
<1>2. /\ M[h] = s /\ \A g \in ListHead : g # h => M[g] = L[g]
      /\ Len(L[h]) \in Nat /\ Len(s) = Len(L[h]) - 1
      /\ e = At(L, h, k)
  BY <1>1, Shape DEF Apart, TakenOut, At
<1>3. nx[e] = n /\ pv[e] = p
  <2>1. k - 1 \in 0 .. Len(L[h]) /\ k \in 0 .. Len(L[h]) /\ (k - 1) + 1 = k
    BY <1>2
  <2> QED
    BY <1>2, <2>1 DEF Strung
<1>4. ASSUME NEW g \in ListHead, NEW i \in 0 .. Len(L[g]), g # h \/ i \notin {k - 1, k}
      PROVE  nx2[At(L, g, i)] = At(L, g, i + 1) /\ pv2[At(L, g, i + 1)] = At(L, g, i)
  <2>1. Len(L[g]) \in Nat /\ i + 1 \in 1 .. (Len(L[g]) + 1) /\ k - 1 \in 0 .. Len(L[h]) /\ k \in 0 .. Len(L[h])
        /\ k \in 1 .. (Len(L[h]) + 1) /\ k + 1 \in 1 .. (Len(L[h]) + 1)
    BY <1>1, <1>2, Shape
  <2>2. nx[At(L, g, i)] = At(L, g, i + 1) /\ pv[At(L, g, i + 1)] = At(L, g, i)
    BY DEF Strung
  <2>3. At(L, g, i) \in Node /\ At(L, g, i + 1) \in Node
    BY <1>1, <2>1, Shape
  <2>4. At(L, g, i) # p /\ At(L, g, i) # e
    BY <1>1, <1>2, <1>4, <2>1, Places
  <2>5. At(L, g, i + 1) # n /\ At(L, g, i + 1) # e
    <3>1. (i + 1 # k + 1 /\ i + 1 # k) \/ g # h
      BY <1>4
    <3> QED
      BY <1>1, <1>2, <2>1, <3>1, Places
  <2> HIDE DEF p, n, e
  <2>6. Bypass(nx2, pv2, nx, pv, e)
    BY DEF e
  <2> QED
    BY <1>3, <2>2, <2>3, <2>4, <2>5, <2>6 DEF Bypass
<1>5. nx2[p] = n /\ pv2[n] = p
  <2>1. k - 1 \in 0 .. Len(L[h]) /\ k \in 0 .. Len(L[h]) /\ k \in 1 .. (Len(L[h]) + 1) /\ k + 1 \in 1 .. (Len(L[h]) + 1)
    BY <1>2
  <2>2. p # e /\ n # e /\ p \in Node /\ n \in Node
    BY <1>1, <1>2, <2>1, Places, Shape
  <2> HIDE DEF p, n, e
  <2>6. Bypass(nx2, pv2, nx, pv, e)
    BY DEF e
  <2> QED
    BY <1>3, <2>2, <2>6 DEF Bypass
<1>6. \A i \in 0 .. (Len(s) + 1) : At(M, h, i) = IF i < k THEN At(L, h, i) ELSE At(L, h, i + 1)
  BY <1>2 DEF At, TakenOut
<1>7. \A g \in ListHead \ {h} : \A i \in Int : At(M, g, i) = At(L, g, i)
  BY <1>2 DEF At
<1> HIDE DEF M, p, n
<1>8. ASSUME NEW g \in ListHead, NEW i \in 0 .. Len(M[g])
      PROVE  nx2[At(M, g, i)] = At(M, g, i + 1) /\ pv2[At(M, g, i + 1)] = At(M, g, i)
  <2>1. CASE g # h
    <3>1. i \in 0 .. Len(L[g]) /\ i \in Int /\ i + 1 \in Int
      BY <1>2, <2>1
    <3> QED
      BY <1>4, <1>7, <2>1, <3>1
  <2>2. CASE g = h
    <3>1. i \in 0 .. (Len(L[h]) - 1) /\ i \in 0 .. (Len(s) + 1) /\ i + 1 \in 0 .. (Len(s) + 1)
      BY <1>2, <2>2
    <3>2. CASE i < k - 1
      <4>1. At(M, h, i) = At(L, h, i) /\ At(M, h, i + 1) = At(L, h, i + 1) /\ i \in 0 .. Len(L[h]) /\ i \notin {k - 1, k}
        BY <1>2, <1>6, <3>1, <3>2
      <4> QED
        BY <1>4, <2>2, <4>1
    <3>3. CASE i = k - 1
      <4>1. At(M, h, i) = p /\ At(M, h, i + 1) = n
        BY <1>2, <1>6, <3>1, <3>3 DEF p, n
      <4> QED
        BY <1>5, <2>2, <4>1
    <3>4. CASE i >= k
      <4>1. /\ At(M, h, i) = At(L, h, i + 1) /\ At(M, h, i + 1) = At(L, h, (i + 1) + 1)
            /\ i + 1 \in 0 .. Len(L[h]) /\ i + 1 \notin {k - 1, k}
        BY <1>2, <1>6, <3>1, <3>4
      <4> QED
        BY <1>4, <2>2, <4>1
    <3> QED
      BY <3>1, <3>2, <3>3, <3>4
  <2> QED
    BY <2>1, <2>2
<1> QED
  BY <1>1, <1>8 DEF Strung, M


\* The three ways to change a sequence, by place.
LEMMA FirstPutsIn ==
  ASSUME NEW t \in Seq(Entry), NEW e \in Entry
  PROVE  PutIn(<<e>> \o t, t, 1, e)
<1>1. Len(<<e>> \o t) = Len(t) + 1 /\ <<e>> \o t \in Seq(Entry)
  OBVIOUS
<1>2. \A i \in 1 .. (Len(t) + 1) : (<<e>> \o t)[i] = IF i = 1 THEN e ELSE t[i - 1]
  OBVIOUS
<1> QED
  BY <1>1, <1>2 DEF PutIn

LEMMA LastPutsIn ==
  ASSUME NEW t \in Seq(Entry), NEW e \in Entry
  PROVE  PutIn(Append(t, e), t, Len(t) + 1, e)
BY DEF PutIn

LEMMA RemoveTakesOut ==
  ASSUME NEW t \in Seq(Entry), NEW k \in 1 .. Len(t)
  PROVE  TakenOut(RemoveAt(t, k), t, k)
<1> DEFINE a == SubSeq(t, 1, k - 1)
           b == SubSeq(t, k + 1, Len(t))
<1>1. a \in Seq(Entry) /\ Len(a) = k - 1 /\ \A i \in 1 .. (k - 1) : a[i] = t[i]
  OBVIOUS
<1>2. b \in Seq(Entry) /\ Len(b) = Len(t) - k /\ \A i \in 1 .. (Len(t) - k) : b[i] = t[k + i]
  OBVIOUS
<1>3. RemoveAt(t, k) = a \o b
  BY DEF RemoveAt
<1> HIDE DEF a, b
<1>4. Len(a \o b) = Len(t) - 1 /\ a \o b \in Seq(Entry)
  <2>1. ASSUME NEW u \in Seq(Entry), NEW v \in Seq(Entry)
        PROVE  u \o v \in Seq(Entry) /\ Len(u \o v) = Len(u) + Len(v)
    OBVIOUS
  <2>2. a \o b \in Seq(Entry) /\ Len(a \o b) = Len(a) + Len(b)
    BY <1>1, <1>2, <2>1
  <2>3. Len(t) \in Nat /\ Len(a) = k - 1 /\ Len(b) = Len(t) - k
    BY <1>1, <1>2
  <2> QED
    BY <2>2, <2>3
<1>5. \A i \in 1 .. (Len(t) - 1) : (a \o b)[i] = IF i < k THEN t[i] ELSE t[i + 1]
  BY <1>1, <1>2
<1> QED
  BY <1>3, <1>4, <1>5 DEF TakenOut


-----------------------------------------------------------------------------
(* The operations.                                                        *)

\* The types of the linkage and of the history of it.
Fields ==
  /\ next \in [Node -> Node \cup {Null}]
  /\ prev \in [Node -> Node \cup {Null}]
  /\ in \in [Entry -> ListHead \cup {Null}]

\* The history says of every entry which sequence it is in.
Placed(L) == \A e \in Entry, h \in ListHead : in[e] = h <=> Holds(L, h, e)

\* L is what the lists hold.
Current(L) == Strung(next, prev, L) /\ Placed(L)

LEMMA UnlinkedAbsent ==
  ASSUME NEW L, Current(L), NEW e \in Entry \ Linked
  PROVE  Absent(L, e)
BY ListAssumption DEF Current, Placed, Holds, Absent, Linked

LEMMA LinkedHeld ==
  ASSUME Fields, NEW L, Current(L), NEW e \in Linked
  PROVE  in[e] \in ListHead /\ \E k \in 1 .. Len(L[in[e]]) : L[in[e]][k] = e
BY DEF Current, Placed, Holds, Linked, Fields

LEMMA EndsOf ==
  ASSUME NEW nx, NEW pv, NEW L, Strung(nx, pv, L), NEW h \in ListHead
  PROVE  /\ At(L, h, 0) = h /\ At(L, h, 1) = nx[h]
         /\ At(L, h, Len(L[h])) = pv[h] /\ At(L, h, Len(L[h]) + 1) = h
<1>1. Len(L[h]) \in Nat
  BY Shape DEF Strung
<1>2. At(L, h, 0) = h /\ At(L, h, Len(L[h]) + 1) = h
  BY <1>1 DEF At
<1>3. nx[At(L, h, 0)] = At(L, h, 0 + 1) /\ pv[At(L, h, Len(L[h]) + 1)] = At(L, h, Len(L[h]))
  BY <1>1 DEF Strung
<1> QED
  BY <1>2, <1>3

LEMMA AddFirstStep ==
  ASSUME Fields, NEW L, Current(L), NEW e \in Entry \ Linked, NEW h \in ListHead, ListAdd(e, h)
  PROVE  Fields' /\ Current([L EXCEPT ![h] = <<e>> \o L[h]])'
<1> DEFINE s == <<e>> \o L[h]
<1>1. Strung(next, prev, L) /\ Apart(L) /\ Absent(L, e) /\ e \in Entry /\ e # h
  BY UnlinkedAbsent, ListAssumption DEF Current, Strung
<1>2. PutIn(s, L[h], 1, e) /\ 1 \in 1 .. (Len(L[h]) + 1)
  BY <1>1, FirstPutsIn, Shape
<1>3. At(L, h, 0) = h /\ At(L, h, 1) = next[h] /\ next[h] \in Node /\ next[h] # e
  BY <1>1, EndsOf, Shape, AbsentNode
<1>4. Between(next', prev', next, prev, e, h, next[h])
  BY <1>1, <1>3 DEF ListAdd, AddBetween, Between, Fields, Node
<1>5. Strung(next', prev', [L EXCEPT ![h] = s])
  <2>1. Between(next', prev', next, prev, e, At(L, h, 1 - 1), At(L, h, 1))
    BY <1>3, <1>4
  <2> HIDE DEF s
  <2> QED
    BY <1>1, <1>2, <2>1, BetweenStrings
<1>6. Placed([L EXCEPT ![h] = s])'
  <2>1. \A d \in Entry : in'[d] = IF d = e THEN h ELSE in[d]
    BY DEF ListAdd, Fields
  <2>2. \A d \in Entry, g \in ListHead :
          Holds([L EXCEPT ![h] = s], g, d) <=> Holds(L, g, d) \/ (g = h /\ d = e)
    <3> DEFINE k == 1
    <3> HIDE DEF s, k
    <3>1. PutIn(s, L[h], k, e) /\ k \in 1 .. (Len(L[h]) + 1)
      BY <1>2 DEF k
    <3> QED
      BY <1>1, <3>1, PutInHolds
  <2>3. \A g \in ListHead : ~Holds(L, g, e)
    BY <1>1 DEF Absent, Holds
  <2> HIDE DEF s
  <2> QED
    BY <2>1, <2>2, <2>3 DEF Current, Placed
<1>7. Fields'
  BY <1>1, <1>3 DEF ListAdd, AddBetween, Fields, Node
<1> QED
  BY <1>5, <1>6, <1>7 DEF Current

LEMMA AddLastStep ==
  ASSUME Fields, NEW L, Current(L), NEW e \in Entry \ Linked, NEW h \in ListHead, ListAddTail(e, h)
  PROVE  Fields' /\ Current([L EXCEPT ![h] = Append(L[h], e)])'
<1> DEFINE s == Append(L[h], e)
           k == Len(L[h]) + 1
<1>1. Strung(next, prev, L) /\ Apart(L) /\ Absent(L, e) /\ e \in Entry /\ e # h
  BY UnlinkedAbsent, ListAssumption DEF Current, Strung
<1>2. PutIn(s, L[h], k, e) /\ k \in 1 .. (Len(L[h]) + 1) /\ k - 1 = Len(L[h])
  BY <1>1, LastPutsIn, Shape
<1>3. At(L, h, k - 1) = prev[h] /\ At(L, h, k) = h /\ prev[h] \in Node /\ prev[h] # e
  BY <1>1, <1>2, EndsOf, Shape, AbsentNode
<1>4. Between(next', prev', next, prev, e, prev[h], h)
  BY <1>1, <1>3 DEF ListAddTail, AddBetween, Between, Fields, Node
<1> HIDE DEF s, k
<1>5. Strung(next', prev', [L EXCEPT ![h] = s])
  <2>1. Between(next', prev', next, prev, e, At(L, h, k - 1), At(L, h, k))
    BY <1>3, <1>4
  <2> QED
    BY <1>1, <1>2, <2>1, BetweenStrings
<1>6. Placed([L EXCEPT ![h] = s])'
  <2>1. \A d \in Entry : in'[d] = IF d = e THEN h ELSE in[d]
    BY DEF ListAddTail, Fields
  <2>2. \A d \in Entry, g \in ListHead :
          Holds([L EXCEPT ![h] = s], g, d) <=> Holds(L, g, d) \/ (g = h /\ d = e)
    BY <1>1, <1>2, PutInHolds
  <2>3. \A g \in ListHead : ~Holds(L, g, e)
    BY <1>1 DEF Absent, Holds
  <2> QED
    BY <2>1, <2>2, <2>3 DEF Current, Placed
<1>7. Fields'
  BY <1>1, <1>3 DEF ListAddTail, AddBetween, Fields, Node
<1> QED
  BY <1>5, <1>6, <1>7 DEF Current, s

\* The neighbours of a linked entry.
LEMMA Neighbours ==
  ASSUME NEW nx, NEW pv, NEW L, Strung(nx, pv, L), NEW h \in ListHead, NEW k \in 1 .. Len(L[h])
  PROVE  /\ nx[L[h][k]] = At(L, h, k + 1) /\ pv[L[h][k]] = At(L, h, k - 1)
         /\ nx[L[h][k]] \in Node \ {L[h][k]} /\ pv[L[h][k]] \in Node \ {L[h][k]}
<1>1. Apart(L) /\ Len(L[h]) \in Nat /\ At(L, h, k) = L[h][k]
  BY Shape DEF Strung, At
<1>2. k \in 0 .. Len(L[h]) /\ k - 1 \in 0 .. Len(L[h]) /\ (k - 1) + 1 = k
      /\ k + 1 \in 1 .. (Len(L[h]) + 1) /\ k \in 1 .. (Len(L[h]) + 1) /\ k # k + 1 /\ k # k - 1
  BY <1>1
<1>3. nx[At(L, h, k)] = At(L, h, k + 1) /\ pv[At(L, h, (k - 1) + 1)] = At(L, h, k - 1)
  BY <1>2 DEF Strung
<1>4. At(L, h, k + 1) # At(L, h, k) /\ At(L, h, k - 1) # At(L, h, k)
  BY <1>1, <1>2, Places
<1>5. At(L, h, k + 1) \in Node /\ At(L, h, k - 1) \in Node
  BY <1>1, <1>2, Shape
<1> QED
  BY <1>1, <1>2, <1>3, <1>4, <1>5

LEMMA TakenOutPlaced ==
  ASSUME Fields, NEW L, Current(L), NEW h \in ListHead, NEW k \in 1 .. Len(L[h]),
         in' = [in EXCEPT ![L[h][k]] = Null]
  PROVE  Placed([L EXCEPT ![h] = RemoveAt(L[h], k)])'
<1> DEFINE s == RemoveAt(L[h], k)
           e == L[h][k]
<1>1. Apart(L) /\ TakenOut(s, L[h], k) /\ e \in Entry
  BY RemoveTakesOut, Shape DEF Current, Strung
<1> HIDE DEF s
<1>2. \A d \in Entry : in'[d] = IF d = e THEN Null ELSE in[d]
  BY DEF Fields
<1>3. \A d \in Entry, g \in ListHead :
        Holds([L EXCEPT ![h] = s], g, d) <=> Holds(L, g, d) /\ d # e
  BY <1>1, TakenOutHolds
<1> HIDE DEF e
<1>4. Placed([L EXCEPT ![h] = s])'
  BY <1>2, <1>3, ListAssumption DEF Current, Placed
<1> QED
  BY <1>4 DEF s

LEMMA DelStep ==
  ASSUME Fields, NEW L, Current(L), NEW h \in ListHead, NEW k \in 1 .. Len(L[h]),
         ListDel(L[h][k]) \/ ListDelInit(L[h][k])
  PROVE  Fields' /\ Current([L EXCEPT ![h] = RemoveAt(L[h], k)])'
<1> DEFINE s == RemoveAt(L[h], k)
           e == L[h][k]
<1>1. Strung(next, prev, L) /\ TakenOut(s, L[h], k) /\ e \in Entry
  BY RemoveTakesOut, Shape DEF Current, Strung
<1>2. next[e] \in Node \ {e} /\ prev[e] \in Node \ {e}
  BY <1>1, Neighbours
<1>3. Bypass(next', prev', next, prev, e)
  <2> HIDE DEF e
  <2>1. CASE ListDel(e)
    BY <1>1, <1>2, <2>1 DEF ListDel, Unlink, Bypass, Fields
  <2>2. CASE ListDelInit(e)
    BY <1>1, <1>2, <2>2 DEF ListDelInit, Bypass, Fields
  <2> QED
    BY <2>1, <2>2 DEF e
<1>4. Strung(next', prev', [L EXCEPT ![h] = s])
  <2> HIDE DEF s
  <2> QED
    BY <1>1, <1>3, BypassStrings
<1>5. in' = [in EXCEPT ![L[h][k]] = Null]
  BY DEF ListDel, ListDelInit
<1>6. Fields'
  <2> HIDE DEF e
  <2>1. in' = [in EXCEPT ![e] = Null]
    BY <1>5 DEF e
  <2>2. CASE ListDel(e)
    BY <1>1, <1>2, <2>1, <2>2 DEF ListDel, Unlink, Fields
  <2>3. CASE ListDelInit(e)
    BY <1>1, <1>2, <2>1, <2>3 DEF ListDelInit, Fields
  <2> QED
    BY <2>2, <2>3 DEF e
<1> QED
  BY <1>4, <1>5, <1>6, TakenOutPlaced DEF Current

LEMMA MoveStep ==
  ASSUME Fields, NEW L, Current(L), NEW g \in ListHead, NEW k \in 1 .. Len(L[g]),
         NEW h \in ListHead, ListMoveTail(L[g][k], h)
  PROVE  Fields' /\ Current([[L EXCEPT ![g] = RemoveAt(L[g], k)] EXCEPT ![h] = Append(@, L[g][k])])'
<1> DEFINE M == [L EXCEPT ![g] = RemoveAt(L[g], k)]
           r == RemoveAt(L[g], k)
           e == L[g][k]
           nx == [next EXCEPT ![prev[e]] = next[e]]
           pv == [prev EXCEPT ![next[e]] = prev[e]]
           s == Append(M[h], e)
           n == Len(M[h]) + 1
<1>1. Strung(next, prev, L) /\ Apart(L) /\ TakenOut(r, L[g], k) /\ e \in Entry /\ e # h
  BY RemoveTakesOut, Shape, ListAssumption DEF Current, Strung
<1>2. next[e] \in Node \ {e} /\ prev[e] \in Node \ {e}
  BY <1>1, Neighbours
<1>3. nx \in [Node -> Node \cup {Null}] /\ pv \in [Node -> Node \cup {Null}]
  BY <1>2 DEF Fields
<1>4. Bypass(nx, pv, next, prev, e)
  <2> HIDE DEF e
  <2> QED
    BY <1>2 DEF Bypass, Fields
<1>5. next' = [nx EXCEPT ![e] = h, ![pv[h]] = e] /\ prev' = [pv EXCEPT ![h] = e, ![e] = pv[h]]
  BY DEF ListMoveTail
<1> HIDE DEF nx, pv
<1>6. Strung(nx, pv, M) /\ Apart(M) /\ Absent(M, e)
  <2>1. Strung(nx, pv, [L EXCEPT ![g] = r])
    <3> HIDE DEF r
    <3> QED
      BY <1>1, <1>4, BypassStrings
  <2>2. Apart([L EXCEPT ![g] = r]) /\ Absent([L EXCEPT ![g] = r], e)
    <3> HIDE DEF r
    <3> QED
      BY <1>1, TakenOutApart
  <2> QED
    BY <2>1, <2>2
<1> HIDE DEF M
<1>7. PutIn(s, M[h], n, e) /\ n \in 1 .. (Len(M[h]) + 1) /\ n - 1 = Len(M[h])
  <2>1. M[h] \in Seq(Entry) /\ Len(M[h]) \in Nat
    BY <1>6, Shape
  <2> HIDE DEF e
  <2> QED
    BY <1>1, <2>1, LastPutsIn
<1>8. At(M, h, n - 1) = pv[h] /\ At(M, h, n) = h /\ pv[h] \in Node /\ pv[h] # e
  <2>1. At(M, h, Len(M[h])) = pv[h] /\ At(M, h, Len(M[h]) + 1) = h
    BY <1>6, EndsOf
  <2>2. At(M, h, n - 1) = pv[h] /\ At(M, h, n) = h /\ n - 1 \in Int
    BY <1>7, <2>1
  <2> HIDE DEF e
  <2> QED
    BY <1>1, <1>6, <2>2, Shape, AbsentNode
<1> HIDE DEF s, n
<1>9. Between(next', prev', nx, pv, e, pv[h], h)
  <2> HIDE DEF e
  <2> QED
    BY <1>1, <1>3, <1>5, <1>8 DEF Between, Node
<1>10. Strung(next', prev', [M EXCEPT ![h] = s])
  <2>1. Between(next', prev', nx, pv, e, At(M, h, n - 1), At(M, h, n))
    BY <1>8, <1>9
  <2> QED
    BY <1>1, <1>6, <1>7, <2>1, BetweenStrings
<1>11. Placed([M EXCEPT ![h] = s])'
  <2>1. \A d \in Entry : in'[d] = IF d = e THEN h ELSE in[d]
    BY DEF ListMoveTail, Fields
  <2>2. \A f \in ListHead, d \in Entry :
          Holds([M EXCEPT ![h] = s], f, d) <=> Holds(M, f, d) \/ (f = h /\ d = e)
    <3>1. Apart(M) /\ e \in Entry /\ PutIn(s, M[h], n, e) /\ n \in 1 .. (Len(M[h]) + 1)
      BY <1>1, <1>6, <1>7
    <3> HIDE DEF e
    <3> QED
      BY <3>1, PutInHolds, Zenon
  <2>3. \A d \in Entry, f \in ListHead : Holds(M, f, d) <=> Holds(L, f, d) /\ d # e
    <3>1. \A d \in Entry, f \in ListHead : Holds([L EXCEPT ![g] = r], f, d) <=> Holds(L, f, d) /\ d # e
      <4> HIDE DEF r
      <4> QED
        BY <1>1, TakenOutHolds
    <3> QED
      BY <3>1 DEF M
  <2> HIDE DEF e
  <2> QED
    BY <2>1, <2>2, <2>3 DEF Current, Placed
<1>12. Fields'
  <2>1. in' = [in EXCEPT ![e] = h]
    BY DEF ListMoveTail
  <2> HIDE DEF e
  <2> QED
    BY <1>1, <1>3, <1>5, <1>8, <2>1 DEF Fields, Node
<1> QED
  BY <1>10, <1>11, <1>12 DEF Current, s, M



-----------------------------------------------------------------------------
(* The loop.                                                               *)

\* Following the list of h from n on meets every entry of es, and those of ps
\* come before n.
Reaches(L, h, n, es, ps) ==
  \E j \in 1 .. (Len(L[h]) + 1) :
    /\ n = At(L, h, j)
    /\ \A e \in es : \E i \in j .. Len(L[h]) : L[h][i] = e
    /\ \A e \in ps : \E i \in 1 .. (j - 1) : L[h][i] = e

\* What the loop has behind it; when it is back at the head, that is over.
Passed == IF pos = loop THEN {} ELSE seen

\* The loop has its next node, which is not the one its body may unlink, from
\* there meets every entry that is due, and none that it has visited.
Traversal ==
  /\ loop \in ListHead \cup {Null}
  /\ loop # Null =>
       /\ Reaches(Contents, loop, tmp, due, Passed)
       /\ pos # loop => pos # tmp /\ pos \notin due
       /\ pos = loop => due = {}

IInv == TypeOK /\ Current(Contents) /\ Traversal

LEMMA ReachesOther ==
  ASSUME NEW L, Apart(L), NEW h \in ListHead, NEW n, NEW es, NEW ps, Reaches(L, h, n, es, ps),
         NEW M, M[h] = L[h], NEW qs \in SUBSET ps
  PROVE  Reaches(M, h, n, es, qs)
<1>1. PICK j \in 1 .. (Len(L[h]) + 1) :
        /\ n = At(L, h, j) /\ \A d \in es : \E i \in j .. Len(L[h]) : L[h][i] = d
        /\ \A d \in ps : \E i \in 1 .. (j - 1) : L[h][i] = d
  BY DEF Reaches
<1>2. n = At(M, h, j)
  BY <1>1 DEF At
<1> QED
  BY <1>1, <1>2 DEF Reaches

LEMMA ReachesFirst ==
  ASSUME NEW L, Apart(L), NEW h \in ListHead, NEW n, NEW es, NEW ps, Reaches(L, h, n, es, ps),
         NEW e, NEW M, PutIn(M[h], L[h], 1, e)
  PROVE  Reaches(M, h, n, es, ps)
<1>1. PICK j \in 1 .. (Len(L[h]) + 1) :
        /\ n = At(L, h, j) /\ \A d \in es : \E i \in j .. Len(L[h]) : L[h][i] = d
        /\ \A d \in ps : \E i \in 1 .. (j - 1) : L[h][i] = d
  BY DEF Reaches
<1>2. Len(L[h]) \in Nat /\ Len(M[h]) = Len(L[h]) + 1 /\ j + 1 \in 1 .. (Len(M[h]) + 1)
  BY Shape DEF PutIn
<1>3. ASSUME NEW i \in 1 .. Len(L[h])
      PROVE  M[h][i + 1] = L[h][i]
  <2>1. i + 1 \in 1 .. Len(M[h]) /\ ~(i + 1 < 1) /\ i + 1 # 1 /\ (i + 1) - 1 = i
    BY <1>2
  <2> QED
    BY <2>1 DEF PutIn
<1>4. n = At(M, h, j + 1)
  BY <1>1, <1>2, <1>3 DEF At
<1>5. ASSUME NEW d \in es
      PROVE  \E i \in (j + 1) .. Len(M[h]) : M[h][i] = d
  <2>1. PICK i \in j .. Len(L[h]) : L[h][i] = d
    BY <1>1
  <2>2. i + 1 \in (j + 1) .. Len(M[h]) /\ M[h][i + 1] = d
    BY <1>2, <1>3, <2>1
  <2> QED
    BY <2>2
<1>6. ASSUME NEW d \in ps
      PROVE  \E i \in 1 .. ((j + 1) - 1) : M[h][i] = d
  <2>1. PICK i \in 1 .. (j - 1) : L[h][i] = d
    BY <1>1
  <2>2. i \in 1 .. Len(L[h]) /\ i + 1 \in 1 .. ((j + 1) - 1)
    BY <1>2, <2>1
  <2>3. M[h][i + 1] = d
    BY <1>3, <2>1, <2>2
  <2> QED
    BY <2>2, <2>3
<1> QED
  BY <1>2, <1>4, <1>5, <1>6 DEF Reaches

LEMMA ReachesLast ==
  ASSUME NEW L, Apart(L), NEW h \in ListHead, NEW n, NEW es, NEW ps, Reaches(L, h, n, es, ps),
         NEW e, NEW M, PutIn(M[h], L[h], Len(L[h]) + 1, e)
  PROVE  Reaches(M, h, n, es, ps)
<1>1. PICK j \in 1 .. (Len(L[h]) + 1) :
        /\ n = At(L, h, j) /\ \A d \in es : \E i \in j .. Len(L[h]) : L[h][i] = d
        /\ \A d \in ps : \E i \in 1 .. (j - 1) : L[h][i] = d
  BY DEF Reaches
<1>2. Len(L[h]) \in Nat /\ Len(M[h]) = Len(L[h]) + 1
  BY Shape DEF PutIn
<1>3. \A i \in 1 .. Len(L[h]) : M[h][i] = L[h][i]
  BY <1>2 DEF PutIn
<1>4. CASE j <= Len(L[h])
  <2>1. j \in 1 .. (Len(M[h]) + 1) /\ n = At(M, h, j)
    BY <1>1, <1>2, <1>3, <1>4 DEF At
  <2>2. ASSUME NEW d \in es
        PROVE  \E i \in j .. Len(M[h]) : M[h][i] = d
    <3>1. PICK i \in j .. Len(L[h]) : L[h][i] = d
      BY <1>1
    <3>2. i \in j .. Len(M[h]) /\ M[h][i] = d
      BY <1>2, <1>3, <3>1
    <3> QED
      BY <3>2
  <2>3. \A d \in ps : \E i \in 1 .. (j - 1) : M[h][i] = d
    BY <1>1, <1>2, <1>3
  <2> QED
    BY <2>1, <2>2, <2>3 DEF Reaches
<1>5. CASE j = Len(L[h]) + 1
  <2>1. es = {}
    BY <1>1, <1>2, <1>5
  <2>2. n = h /\ Len(M[h]) + 1 \in 1 .. (Len(M[h]) + 1) /\ At(M, h, Len(M[h]) + 1) = h
    BY <1>1, <1>2, <1>5 DEF At
  <2>3. \A d \in ps : \E i \in 1 .. ((Len(M[h]) + 1) - 1) : M[h][i] = d
    BY <1>1, <1>2, <1>3, <1>5
  <2> QED
    BY <2>1, <2>2, <2>3 DEF Reaches
<1> QED
  BY <1>2, <1>4, <1>5

LEMMA ReachesWithout ==
  ASSUME NEW L, Apart(L), NEW h \in ListHead, NEW n, NEW es, NEW ps, Reaches(L, h, n, es, ps),
         NEW k \in 1 .. Len(L[h]), L[h][k] # n, L[h][k] \notin es,
         NEW M, TakenOut(M[h], L[h], k)
  PROVE  Reaches(M, h, n, es, ps \ {L[h][k]})
<1>1. PICK j \in 1 .. (Len(L[h]) + 1) :
        /\ n = At(L, h, j) /\ \A d \in es : \E i \in j .. Len(L[h]) : L[h][i] = d
        /\ \A d \in ps : \E i \in 1 .. (j - 1) : L[h][i] = d
  BY DEF Reaches
<1>2. Len(L[h]) \in Nat /\ Len(M[h]) = Len(L[h]) - 1
  BY Shape DEF TakenOut
<1>3. \A i \in 1 .. Len(L[h]) : i # k => M[h][IF i < k THEN i ELSE i - 1] = L[h][i]
  BY <1>2 DEF TakenOut
<1> DEFINE To(i) == IF i < k THEN i ELSE i - 1
<1>4. j # k
  BY <1>1 DEF At
<1>5. To(j) \in 1 .. (Len(M[h]) + 1) /\ n = At(M, h, To(j))
  <2>1. CASE j \in 1 .. Len(L[h])
    <3>1. To(j) \in 1 .. Len(M[h]) /\ n = L[h][j] /\ M[h][To(j)] = L[h][j]
      BY <1>1, <1>2, <1>3, <1>4, <2>1 DEF At
    <3> QED
      BY <1>2, <3>1 DEF At
  <2>2. CASE j = Len(L[h]) + 1
    <3>1. To(j) = Len(M[h]) + 1 /\ n = h
      BY <1>1, <1>2, <2>2 DEF At
    <3> QED
      BY <1>2, <3>1 DEF At
  <2> QED
    BY <1>2, <2>1, <2>2
<1>6. ASSUME NEW d \in es
      PROVE  \E i \in To(j) .. Len(M[h]) : M[h][i] = d
  <2>1. PICK i \in j .. Len(L[h]) : L[h][i] = d
    BY <1>1
  <2>2. i # k /\ i \in 1 .. Len(L[h])
    BY <1>2, <2>1
  <2>3. To(i) \in To(j) .. Len(M[h]) /\ M[h][To(i)] = d
    BY <1>2, <1>3, <1>4, <2>1, <2>2
  <2> QED
    BY <2>3
<1>7. ASSUME NEW d \in ps \ {L[h][k]}
      PROVE  \E i \in 1 .. (To(j) - 1) : M[h][i] = d
  <2>1. PICK i \in 1 .. (j - 1) : L[h][i] = d
    BY <1>1
  <2>2. i # k /\ i \in 1 .. Len(L[h])
    BY <1>2, <2>1
  <2>3. To(i) \in 1 .. (To(j) - 1) /\ M[h][To(i)] = d
    BY <1>2, <1>3, <1>4, <2>1, <2>2
  <2> QED
    BY <2>3
<1> QED
  BY <1>5, <1>6, <1>7 DEF Reaches

-----------------------------------------------------------------------------
\* A step gives the lists the contents M.
LEMMA Becomes ==
  ASSUME NEW M, Current(M)'
  PROVE  Contents' = M /\ Current(Contents)'
<1>1. Strung(next', prev', M) /\ \A e \in Entry, h \in ListHead : in'[e] = h <=> Holds(M, h, e)
  BY DEF Current, Placed
<1>2. Contents' = M
  BY <1>1, ContentsAreThen
<1> QED
  BY <1>1, <1>2 DEF Current, Placed

\* The rest of the types after a step that leaves the iterators alone.
LEMMA TypesStayOf ==
  ASSUME TypeOK, Fields', UNCHANGED iter, due' \subseteq due, seen' \subseteq seen, NEW M, Current(M)'
  PROVE  TypeOK'
<1>1. Strung(next', prev', M)
  BY DEF Current
<1>2. ASSUME NEW h \in ListHead
      PROVE  next'[h] \in Node /\ prev'[h] \in Node
  <2>1. next'[h] = At(M, h, 1) /\ prev'[h] = At(M, h, Len(M[h]))
    BY <1>1, EndsOf
  <2>2. Apart(M)
    BY <1>1 DEF Strung
  <2>3. At(M, h, 1) \in Node /\ At(M, h, Len(M[h])) \in Node
    BY <2>2, Shape
  <2> QED
    BY <2>1, <2>3
<1> QED
  BY <1>2, ListAssumption DEF TypeOK, Fields, iter, Node

LEMMA AddRefines ==
  ASSUME IInv, Add
  PROVE  IInv' /\ Deque!Next
<1>0. PICK L : L = Contents
  OBVIOUS
<1>1. TypeOK /\ Fields /\ Current(L) /\ Apart(L)
  BY <1>0 DEF IInv, Current, Strung, TypeOK, Fields
<1>2. PICK e \in Entry \ Linked, h \in ListHead : ListAdd(e, h) \/ ListAddTail(e, h)
  BY DEF Add
<1>3. L \in [ListHead -> Seq(Entry)] /\ L[h] \in Seq(Entry)
  BY <1>1 DEF Apart
<1>4. Deque!Free(e)
  BY <1>0, <1>1, UnlinkedAbsent DEF Deque!Free, Deque!In, Deque!Contains, Absent
<1>5. due' = due /\ seen' = seen /\ UNCHANGED iter
  BY DEF Add, Settle
<1>6. ASSUME NEW s, NEW k \in {1, Len(L[h]) + 1}, PutIn(s, L[h], k, e),
             Fields', Current([L EXCEPT ![h] = s])'
      PROVE  IInv' /\ Contents' = [L EXCEPT ![h] = s]
  <2> DEFINE M == [L EXCEPT ![h] = s]
  <2>1. Contents' = M /\ Current(Contents)'
    BY <1>6, Becomes
  <2>2. M[h] = s /\ \A g \in ListHead : g # h => M[g] = L[g]
    BY <1>3
  <2> HIDE DEF M
  <2>3. ASSUME loop # Null
        PROVE  Reaches(M, loop, tmp, due, Passed)
    <3>1. loop \in ListHead /\ Reaches(L, loop, tmp, due, Passed)
      BY <1>0, <2>3 DEF IInv, Traversal
    <3>2. CASE loop # h
      BY <1>1, <2>2, <3>1, <3>2, ReachesOther
    <3>3. CASE loop = h
      BY <1>1, <1>6, <2>2, <3>1, <3>3, ReachesFirst, ReachesLast
    <3> QED
      BY <3>2, <3>3
  <2>4. Traversal'
    BY <1>5, <2>1, <2>3 DEF IInv, Traversal, Passed, iter
  <2>5. TypeOK'
    BY <1>1, <1>5, <1>6, TypesStayOf
  <2> QED
    BY <2>1, <2>4, <2>5 DEF M, IInv
<1>7. CASE ListAdd(e, h)
  <2>1. Fields' /\ Current([L EXCEPT ![h] = <<e>> \o L[h]])'
    BY <1>1, <1>2, <1>7, AddFirstStep
  <2>2. PutIn(<<e>> \o L[h], L[h], 1, e)
    BY <1>3, FirstPutsIn
  <2>3. IInv' /\ Contents' = [L EXCEPT ![h] = <<e>> \o L[h]]
    BY <1>6, <2>1, <2>2
  <2>4. Deque!AddFirst(e, h)
    BY <1>0, <1>4, <2>3 DEF Deque!AddFirst
  <2> QED
    BY <2>3, <2>4 DEF Deque!Next
<1>8. CASE ListAddTail(e, h)
  <2>1. Fields' /\ Current([L EXCEPT ![h] = Append(L[h], e)])'
    BY <1>1, <1>2, <1>8, AddLastStep
  <2>2. PutIn(Append(L[h], e), L[h], Len(L[h]) + 1, e)
    BY <1>3, LastPutsIn
  <2>3. IInv' /\ Contents' = [L EXCEPT ![h] = Append(L[h], e)]
    BY <1>6, <2>1, <2>2
  <2>4. Deque!AddLast(e, h)
    BY <1>0, <1>4, <2>3 DEF Deque!AddLast
  <2> QED
    BY <2>3, <2>4 DEF Deque!Next
<1> QED
  BY <1>2, <1>7, <1>8


\* Unlinking an entry that is not the next of the loop, nor due to it.
LEMMA DelRefines ==
  ASSUME IInv, NEW e \in Linked, ListDel(e) \/ ListDelInit(e),
         loop # Null => e = pos /\ seen' = seen \ {e}, due' = due \/ due' = due \ {e},
         seen' \subseteq seen, UNCHANGED iter
  PROVE  IInv' /\ Deque!Next
<1>1. PICK L : L = Contents
  OBVIOUS
<1>2. TypeOK /\ Fields /\ Current(L) /\ Apart(L) /\ Traversal /\ e \in Entry
  BY <1>1 DEF IInv, Current, Strung, Linked, TypeOK, Fields
<1>3. PICK h \in ListHead : \E k \in 1 .. Len(L[h]) : L[h][k] = e
  BY <1>2, LinkedHeld
<1>4. PICK k \in 1 .. Len(L[h]) : L[h][k] = e
  BY <1>3
<1> DEFINE s == RemoveAt(L[h], k)
           M == [L EXCEPT ![h] = s]
<1>5. Fields' /\ Current(M)'
  BY <1>2, <1>4, DelStep
<1>6. M[h] = s /\ (\A g \in ListHead : g # h => M[g] = L[g]) /\ TakenOut(M[h], L[h], k)
  BY <1>2, RemoveTakesOut, Shape DEF Apart
<1> HIDE DEF M
<1>7. Contents' = M /\ Current(Contents)'
  BY <1>5, Becomes
<1>8. ASSUME loop # Null
      PROVE  Reaches(M, loop, tmp, due', Passed') /\ due' \subseteq due
  <2>1. /\ loop \in ListHead /\ Reaches(L, loop, tmp, due, Passed) /\ e = pos /\ pos # loop
        /\ Passed' = Passed \ {e}
    BY <1>1, <1>2, <1>8, ListAssumption DEF Traversal, Passed, iter
  <2>2. e # tmp /\ e \notin due /\ due' = due
    BY <1>2, <1>8, <2>1 DEF Traversal
  <2>3. CASE loop # h
    BY <1>2, <1>6, <2>1, <2>2, <2>3, ReachesOther
  <2>4. CASE loop = h
    BY <1>2, <1>4, <1>6, <2>1, <2>2, <2>4, ReachesWithout
  <2> QED
    BY <2>2, <2>3, <2>4
<1>9. Traversal'
  BY <1>2, <1>7, <1>8 DEF Traversal, iter
<1>10. Deque!Delete(e)
  <2>1. k \in DOMAIN L[h]
    BY <1>2, Shape
  <2>2. Contents' = Deque!Without(h, k)
    BY <1>1, <1>7 DEF Deque!Without, Deque!RemoveAt, M, RemoveAt
  <2> QED
    BY <1>1, <1>4, <2>1, <2>2 DEF Deque!Delete
<1>11. TypeOK'
  BY <1>2, <1>5, TypesStayOf
<1> QED
  BY <1>2, <1>7, <1>9, <1>10, <1>11 DEF Deque!Next, IInv

\* Moving the entry a loop is at away from the list of the loop.
LEMMA MoveRefines ==
  ASSUME IInv, Move
  PROVE  IInv' /\ Deque!Next
<1>1. PICK L : L = Contents
  OBVIOUS
<1>2. PICK e \in Linked, h \in ListHead : (loop # Null => e = pos) /\ h # loop /\ ListMoveTail(e, h) /\ due' = due \ {e} /\ seen' = seen \ {e}
  BY DEF Move, May, Settle
<1>3. TypeOK /\ Fields /\ Current(L) /\ Apart(L) /\ Traversal /\ e \in Entry /\ UNCHANGED iter
  BY <1>1 DEF IInv, Current, Strung, Linked, Move, TypeOK, Fields
<1>4. PICK g \in ListHead : \E k \in 1 .. Len(L[g]) : L[g][k] = e
  BY <1>3, LinkedHeld
<1>5. PICK k \in 1 .. Len(L[g]) : L[g][k] = e
  BY <1>4
<1> DEFINE s == RemoveAt(L[g], k)
           M == [L EXCEPT ![g] = s]
           N == [M EXCEPT ![h] = Append(@, e)]
<1>6. Fields' /\ Current(N)'
  BY <1>2, <1>3, <1>5, MoveStep
<1>7. /\ M[g] = s /\ (\A f \in ListHead : f # g => M[f] = L[f]) /\ TakenOut(M[g], L[g], k)
      /\ \A f \in ListHead : f # h => N[f] = M[f]
  BY <1>3, RemoveTakesOut, Shape DEF Apart
<1> HIDE DEF N
<1>8. Contents' = N /\ Current(Contents)'
  BY <1>6, Becomes
<1> HIDE DEF M
<1>9. ASSUME loop # Null
      PROVE  Reaches(N, loop, tmp, due', Passed') /\ due' \subseteq due
  <2>1. /\ loop \in ListHead /\ Reaches(L, loop, tmp, due, Passed) /\ e = pos /\ pos # loop
        /\ Passed' = Passed \ {e}
    BY <1>1, <1>2, <1>3, <1>9, ListAssumption DEF Traversal, Passed, iter
  <2>2. e # tmp /\ e \notin due /\ due' = due
    BY <1>2, <1>3, <1>9, <2>1 DEF Traversal
  <2>3. N[loop] = M[loop]
    BY <1>2, <1>7, <2>1
  <2>4. CASE loop # g
    BY <1>3, <1>7, <2>1, <2>2, <2>3, <2>4, ReachesOther
  <2>5. CASE loop = g
    <3>1. Reaches(M, loop, tmp, due, Passed \ {e})
      BY <1>3, <1>5, <1>7, <2>1, <2>2, <2>5, ReachesWithout
    <3> QED
      BY <2>1, <2>2, <2>3, <3>1 DEF Reaches, At
  <2> QED
    BY <2>2, <2>4, <2>5
<1>10. Traversal'
  BY <1>3, <1>8, <1>9 DEF Traversal, iter
<1>11. Deque!MoveLast(e, h)
  <2>1. k \in DOMAIN L[g]
    BY <1>3, Shape
  <2>2. Contents' = [Deque!Without(g, k) EXCEPT ![h] = Append(@, e)]
    BY <1>1, <1>8 DEF Deque!Without, Deque!RemoveAt, M, N, RemoveAt
  <2> QED
    BY <1>1, <1>5, <2>1, <2>2 DEF Deque!MoveLast
<1>12. TypeOK'
  BY <1>2, <1>3, <1>6, TypesStayOf
<1> QED
  BY <1>3, <1>8, <1>10, <1>11, <1>12 DEF Deque!Next, IInv

\* The loop goes on along the list, and its lists do not change.
LEMMA LoopSteps ==
  ASSUME IInv, ForEach \/ Advance \/ ForEachEnds
  PROVE  IInv'
<1>1. PICK L : L = Contents
  OBVIOUS
<1>2. Contents' = L /\ next' = next
  BY <1>1 DEF Contents, ForEach, Advance, ForEachEnds, links
<1>3. Current(L) /\ Strung(next, prev, L) /\ Apart(L) /\ Traversal
  BY <1>1 DEF IInv, Current, Strung
<1>4. Traversal'
  <2>4. CASE ForEach
    <3>1. PICK h \in ListHead : /\ loop' = h /\ pos' = next[h] /\ tmp' = next[next[h]]
                                /\ due' = {e \in Linked : in[e] = h} \ {next[h]}
                                /\ seen' = {next[h]} \cap Entry
      BY <2>4 DEF ForEach
    <3>2. Len(L[h]) \in Nat /\ (\A i \in 1 .. Len(L[h]) : L[h][i] \in Entry) /\ next[h] = At(L, h, 1)
      BY <1>3, EndsOf, Shape
    <3>3. \A e \in due' : e \in Entry /\ e # next[h] /\ \E i \in 1 .. Len(L[h]) : L[h][i] = e
      BY <1>3, <3>1 DEF Current, Placed, Holds, Linked
    <3>4. CASE Len(L[h]) = 0
      <4>1. next[h] = h /\ due' = {}
        BY <3>2, <3>3, <3>4 DEF At
      <4>2. At(L, h, 1) = h
        BY <3>2, <3>4 DEF At
      <4>3. Reaches(L, h, tmp', due', Passed')
        BY <3>1, <3>2, <3>4, <4>1, <4>2 DEF Reaches, Passed
      <4> QED
        BY <1>2, <3>1, <4>1, <4>3 DEF Traversal
    <3>5. CASE Len(L[h]) > 0
      <4>1. next[h] = L[h][1] /\ next[h] \in Entry
        BY <3>2, <3>5 DEF At
      <4>2. tmp' = At(L, h, 2)
        <5>1. 1 \in 0 .. Len(L[h]) /\ 1 + 1 = 2
          BY <3>2, <3>5
        <5>2. next[At(L, h, 1)] = At(L, h, 1 + 1)
          BY <1>3, <5>1 DEF Strung
        <5> QED
          BY <3>1, <3>2, <5>1, <5>2
      <4>3. ASSUME NEW e \in due'
            PROVE  \E i \in 2 .. Len(L[h]) : L[h][i] = e
        <5>1. PICK i \in 1 .. Len(L[h]) : L[h][i] = e
          BY <3>3
        <5>2. i # 1
          BY <3>3, <4>1, <5>1
        <5> QED
          BY <3>2, <5>1, <5>2
      <4>4. 2 \in 1 .. (Len(L[h]) + 1)
        BY <3>2, <3>5
      <4>5. ASSUME NEW e \in Passed'
            PROVE  \E i \in 1 .. (2 - 1) : L[h][i] = e
        BY <3>1, <4>1 DEF Passed
      <4>6. Reaches(L, h, tmp', due', Passed')
        BY <4>2, <4>3, <4>4, <4>5 DEF Reaches
      <4>7. pos' # tmp'
        <5>1. At(L, h, 1) # At(L, h, 2)
          BY <1>3, <3>2, <4>4, Places
        <5> QED
          BY <3>1, <3>2, <4>2, <5>1
      <4> QED
        BY <1>2, <3>1, <3>3, <4>1, <4>6, <4>7, ListAssumption DEF Traversal
    <3> QED
      BY <3>2, <3>4, <3>5
  <2>5. CASE Advance
    <3>1. /\ loop \in ListHead /\ loop' = loop /\ pos # loop
          /\ pos' = tmp /\ tmp' = next[tmp] /\ due' = due \ {tmp} /\ loop # Null
          /\ seen' = seen \cup ({tmp} \cap Entry) /\ Passed = seen
      BY <1>3, <2>5 DEF Advance, Visit, Traversal, Passed
    <3>2. Len(L[loop]) \in Nat /\ \A i \in 1 .. Len(L[loop]) : L[loop][i] \in Entry
      BY <1>3, <3>1, Shape
    <3>3. PICK j \in 1 .. (Len(L[loop]) + 1) :
            /\ tmp = At(L, loop, j) /\ \A e \in due : \E i \in j .. Len(L[loop]) : L[loop][i] = e
            /\ \A e \in seen : \E i \in 1 .. (j - 1) : L[loop][i] = e
      BY <1>1, <1>3, <3>1 DEF Traversal, Reaches
    <3>4. CASE j = Len(L[loop]) + 1
      <4>1. tmp = loop /\ due' = {}
        BY <3>1, <3>2, <3>3, <3>4 DEF At
      <4>2. tmp' = At(L, loop, 1) /\ 1 \in 1 .. (Len(L[loop]) + 1)
        BY <1>3, <3>1, <3>2, <4>1, EndsOf
      <4>3. Reaches(L, loop, tmp', due', Passed')
        BY <3>1, <4>1, <4>2 DEF Reaches, Passed
      <4> QED
        BY <1>2, <3>1, <4>1, <4>3 DEF Traversal
    <3>5. CASE j <= Len(L[loop])
      <4>1. tmp = L[loop][j] /\ tmp \in Entry /\ tmp # loop
        BY <3>1, <3>2, <3>3, <3>5, ListAssumption DEF At
      <4>2. j \in 0 .. Len(L[loop]) /\ j + 1 \in 1 .. (Len(L[loop]) + 1)
        BY <3>2, <3>5
      <4>3. tmp' = At(L, loop, j + 1)
        BY <1>3, <3>1, <3>3, <4>2 DEF Strung
      <4>4. ASSUME NEW e \in due'
            PROVE  \E i \in (j + 1) .. Len(L[loop]) : L[loop][i] = e
        <5>1. PICK i \in j .. Len(L[loop]) : L[loop][i] = e
          BY <3>1, <3>3
        <5>2. i # j
          BY <3>1, <4>1, <5>1
        <5> QED
          BY <3>2, <5>1, <5>2
      <4>5. ASSUME NEW e \in Passed'
            PROVE  \E i \in 1 .. ((j + 1) - 1) : L[loop][i] = e
        <5>1. e \in seen \/ e = L[loop][j]
          BY <3>1, <4>1 DEF Passed
        <5>2. CASE e \in seen
          <6>1. PICK i \in 1 .. (j - 1) : L[loop][i] = e
            BY <3>3, <5>2
          <6>2. i \in 1 .. ((j + 1) - 1)
            BY <3>2, <6>1
          <6> QED
            BY <6>1, <6>2
        <5>3. CASE e = L[loop][j]
          BY <3>2, <5>3, j \in 1 .. ((j + 1) - 1)
        <5> QED
          BY <5>1, <5>2, <5>3
      <4>6. Reaches(L, loop, tmp', due', Passed')
        BY <4>2, <4>3, <4>4, <4>5 DEF Reaches
      <4>7. tmp # tmp'
        <5>1. At(L, loop, j) # At(L, loop, j + 1)
          BY <1>3, <3>1, <4>2, Places
        <5> QED
          BY <3>3, <4>3, <5>1
      <4> QED
        BY <1>2, <3>1, <4>1, <4>6, <4>7 DEF Traversal
    <3> QED
      BY <3>2, <3>4, <3>5
  <2>6. CASE ForEachEnds
    BY <2>6 DEF ForEachEnds, Traversal
  <2> QED
    BY <2>4, <2>5, <2>6
<1>5. TypeOK'
  <2>1. TypeOK /\ Linked \subseteq Entry
    BY DEF IInv, Linked
  <2>2. \A h \in ListHead : next[h] \in Node /\ next[next[h]] \in Node \cup {Null}
    BY <2>1, ListAssumption DEF TypeOK, Node
  <2>3. loop # Null => tmp \in Node /\ next[tmp] \in Node \cup {Null}
    <3>1. ASSUME loop # Null PROVE tmp \in Node
      BY <1>1, <1>3, <3>1, Shape DEF Traversal, Reaches
    <3> QED
      BY <2>1, <3>1 DEF TypeOK
  <2>4. CASE ForEach
    BY <1>2, <2>1, <2>2, <2>4 DEF ForEach, TypeOK, links
  <2>5. CASE Advance
    BY <1>2, <2>1, <2>3, <2>5 DEF Advance, Visit, TypeOK, links
  <2>6. CASE ForEachEnds
    BY <1>2, <2>1, <2>6 DEF ForEachEnds, TypeOK, links
  <2> QED
    BY <2>4, <2>5, <2>6
<1>6. Current(L)' /\ in' = in
  BY <1>3 DEF Current, Placed, ForEach, Advance, ForEachEnds, links
<1> QED
  BY <1>2, <1>4, <1>5, <1>6, Becomes DEF IInv

\* A head or linked entry is somewhere in the list of its home, with a place
\* before it and one after it.
LEMMA HomePlace ==
  ASSUME IInv, NEW n \in ListHead \cup Linked
  PROVE  /\ Home(n) \in ListHead
         /\ \E i \in 0 .. Len(Contents[Home(n)]) : At(Contents, Home(n), i) = n
         /\ \E i \in 1 .. (Len(Contents[Home(n)]) + 1) : At(Contents, Home(n), i) = n
<1>1. Fields /\ Current(Contents) /\ Strung(next, prev, Contents) /\ Apart(Contents)
  BY DEF IInv, TypeOK, Fields, Current, Strung
<1>2. CASE n \in ListHead
  <2>1. Home(n) = n /\ Len(Contents[n]) \in Nat
    BY <1>1, <1>2, Shape DEF Home
  <2> QED
    BY <1>1, <1>2, <2>1, EndsOf
<1>3. CASE n \in Linked
  <2>1. n \notin ListHead /\ Home(n) = in[n]
    BY <1>3, ListAssumption DEF Home, Linked
  <2>2. in[n] \in ListHead /\ \E i \in 1 .. Len(Contents[in[n]]) : Contents[in[n]][i] = n
    BY <1>1, <1>3 DEF Current, Placed, Holds, Linked, Fields
  <2>3. PICK i \in 1 .. Len(Contents[in[n]]) : Contents[in[n]][i] = n
    BY <2>2
  <2>4. Len(Contents[in[n]]) \in Nat /\ At(Contents, in[n], i) = n
    BY <1>1, <2>2, <2>3, Shape DEF At
  <2>5. i \in 0 .. Len(Contents[in[n]]) /\ i \in 1 .. (Len(Contents[in[n]]) + 1)
    BY <2>4
  <2> QED
    BY <2>1, <2>2, <2>4, <2>5
<1> QED
  BY <1>2, <1>3

\* The node at a place of a list is a head or linked entry whose home is it.
LEMMA PlaceHome ==
  ASSUME IInv, NEW h \in ListHead, NEW i \in Int
  PROVE  /\ At(Contents, h, i) \in ListHead \cup Linked
         /\ Home(At(Contents, h, i)) = h
<1>1. Current(Contents) /\ Apart(Contents)
  BY DEF IInv, Current, Strung
<1>2. CASE i \in 1 .. Len(Contents[h])
  <2>1. At(Contents, h, i) = Contents[h][i] /\ Contents[h][i] \in Entry
    BY <1>1, <1>2, Shape DEF At
  <2>2. in[Contents[h][i]] = h
    BY <1>1, <1>2, <2>1 DEF Current, Placed, Holds
  <2> QED
    BY <2>1, <2>2, ListAssumption DEF Home, Linked
<1>3. CASE i \notin 1 .. Len(Contents[h])
  BY <1>3 DEF At, Home
<1> QED
  BY <1>2, <1>3

LEMMA RingFollows == IInv => Ring /\ HeadsApart
<1>1. SUFFICES ASSUME IInv, NEW n \in ListHead \cup Linked
               PROVE  /\ next[n] \in ListHead \cup Linked /\ prev[next[n]] = n
                      /\ prev[n] \in ListHead \cup Linked /\ next[prev[n]] = n
                      /\ Home(next[n]) = Home(n)
  BY DEF Ring, HeadsApart
<1>2. PICK h \in ListHead : h = Home(n)
  BY <1>1, HomePlace
<1>3. Strung(next, prev, Contents) /\ Len(Contents[h]) \in Nat
  BY <1>1, Shape DEF IInv, Current, Strung
<1>4. PICK i \in 0 .. Len(Contents[h]) : At(Contents, h, i) = n
  BY <1>1, <1>2, HomePlace
<1>5. next[n] = At(Contents, h, i + 1) /\ prev[next[n]] = n
  BY <1>3, <1>4 DEF Strung
<1>6. PICK j \in 1 .. (Len(Contents[h]) + 1) : At(Contents, h, j) = n
  BY <1>1, <1>2, HomePlace
<1>7. prev[n] = At(Contents, h, j - 1) /\ next[prev[n]] = n
  <2>1. j - 1 \in 0 .. Len(Contents[h]) /\ (j - 1) + 1 = j
    BY <1>3
  <2>2. next[At(Contents, h, j - 1)] = At(Contents, h, (j - 1) + 1) /\ prev[At(Contents, h, (j - 1) + 1)] = At(Contents, h, j - 1)
    BY <1>3, <2>1 DEF Strung
  <2> QED
    BY <1>6, <2>1, <2>2
<1>8. i + 1 \in Int /\ j - 1 \in Int
  OBVIOUS
<1>9. /\ next[n] \in ListHead \cup Linked /\ Home(next[n]) = h
      /\ prev[n] \in ListHead \cup Linked
  BY <1>1, <1>5, <1>7, <1>8, PlaceHome
<1> QED
  BY <1>2, <1>5, <1>7, <1>9

LEMMA EmptyAtFirst == Init => IInv /\ Deque!Init
<1>1. SUFFICES ASSUME Init PROVE IInv /\ Deque!Init
  OBVIOUS
<1> DEFINE L == [h \in ListHead |-> <<>>]
<1>2. L \in [ListHead -> Seq(Entry)] /\ \A h \in ListHead : L[h] = <<>> /\ Len(L[h]) = 0
  OBVIOUS
<1>3. \A h \in ListHead : next[h] = h /\ prev[h] = h
  BY <1>1 DEF Init, Node
<1>4. \A e \in Entry : in[e] = Null
  BY <1>1 DEF Init
<1> HIDE DEF L
<1>5. Strung(next, prev, L)
  BY <1>2, <1>3 DEF Strung, Apart, At
<1>6. Contents = L
  BY <1>5, ContentsAre
<1>7. Placed(L)
  BY <1>2, <1>4, ListAssumption DEF Placed, Holds
<1>8. Traversal
  BY <1>1 DEF Init, Traversal
<1>9. TypeOK
  BY <1>1, ListAssumption DEF Init, TypeOK, Node
<1> QED
  BY <1>5, <1>6, <1>7, <1>8, <1>9 DEF IInv, Current, Deque!Init, L

LEMMA StepRefines ==
  ASSUME IInv, ~MisuseHead, [Next]_vars
  PROVE  IInv' /\ [Deque!Next]_Contents
<1>1. Ring
  BY RingFollows
<1>2. CASE Add
  BY <1>2, AddRefines
<1>3. CASE Del
  <2>1. PICK e \in Linked : /\ loop # Null => e = pos
                            /\ ListDel(e) \/ ListDelInit(e)
                            /\ due' = due \ {e} /\ seen' = seen \ {e}
    BY <1>3 DEF Del, May, Settle
  <2> QED
    BY <1>3, <2>1, DelRefines DEF Del
<1>4. CASE Move
  BY <1>4, MoveRefines
<1>5. CASE TakeFirst
  <2>1. PICK h \in ListHead : next[h] \in Entry /\ ListDelInit(next[h]) /\ loop = Null
    BY <1>5 DEF TakeFirst
  <2>2. next[h] \in Linked
    BY <1>1, <2>1, ListAssumption DEF Ring
  <2>3. due' = due \ {} /\ due' = due /\ seen' = seen /\ UNCHANGED iter
    BY <1>5 DEF TakeFirst, Settle
  <2> QED
    BY <2>1, <2>2, <2>3, DelRefines
<1>6. ASSUME UNCHANGED vars
      PROVE  IInv' /\ UNCHANGED Contents
  <2>1. UNCHANGED <<next, prev, in, loop, pos, tmp, due, seen>>
    BY <1>6 DEF vars, links, iter, history
  <2>2. UNCHANGED Contents
    BY <2>1 DEF Contents
  <2> QED
    BY <2>1, <2>2 DEF IInv, Current, Placed, Traversal, Passed, TypeOK
<1>7. CASE DelHead
  <2>1. PICK h \in ListHead : ListEmpty(h) /\ Unlink(h)
    BY <1>7 DEF DelHead
  <2>2. next[h] = h /\ prev[h] = h
    BY <1>1, <2>1 DEF ListEmpty, Ring
  <2>3. next' = next /\ prev' = prev
    BY <2>1, <2>2 DEF Unlink, IInv, TypeOK
  <2>4. UNCHANGED vars
    BY <1>7, <2>3 DEF DelHead, vars, links, history
  <2> QED
    BY <1>6, <2>4
<1>8. CASE ForEach \/ Advance \/ ForEachEnds
  <2>1. UNCHANGED next
    BY <1>8 DEF ForEach, Advance, ForEachEnds, links
  <2>2. UNCHANGED Contents
    BY <2>1 DEF Contents
  <2> QED
    BY <1>8, <2>2, LoopSteps
<1> QED
  BY <1>2, <1>3, <1>4, <1>5, <1>6, <1>7, <1>8 DEF Next

LEMMA VisitsAllFollows == IInv => VisitsAll
<1>1. SUFFICES ASSUME IInv, loop # Null
               PROVE  /\ tmp = loop \/ (tmp \in Linked /\ in[tmp] = loop)
                      /\ pos # loop => tmp \notin seen
                      /\ pos = loop => due = {}
  BY DEF VisitsAll
<1>2. /\ loop \in ListHead /\ Reaches(Contents, loop, tmp, due, Passed) /\ Current(Contents)
      /\ pos = loop => due = {}
      /\ seen \subseteq Entry /\ Apart(Contents) /\ loop \notin Entry
  BY <1>1, ListAssumption DEF IInv, Traversal, TypeOK, Current, Strung
<1>3. PICK j \in 1 .. (Len(Contents[loop]) + 1) :
        /\ tmp = At(Contents, loop, j)
        /\ \A e \in Passed : \E i \in 1 .. (j - 1) : Contents[loop][i] = e
  BY <1>2 DEF Reaches
<1>4. CASE j \in 1 .. Len(Contents[loop])
  <2>1. tmp = Contents[loop][j] /\ tmp \in Entry
    BY <1>2, <1>3, <1>4, Shape DEF At
  <2>2. in[tmp] = loop
    BY <1>2, <1>4, <2>1 DEF Current, Placed, Holds
  <2>3. ASSUME pos # loop, tmp \in seen PROVE FALSE
    <3>1. PICK i \in 1 .. (j - 1) : Contents[loop][i] = tmp
      BY <1>3, <2>3 DEF Passed
    <3>2. i \in 1 .. Len(Contents[loop]) /\ i \in 1 .. (Len(Contents[loop]) + 1) /\ i # j
      BY <1>2, <1>4, <3>1, Shape
    <3>3. At(Contents, loop, i) = At(Contents, loop, j)
      BY <1>3, <3>1, <3>2 DEF At
    <3> QED
      BY <1>2, <3>2, <3>3, Places
  <2> QED
    BY <1>2, <2>1, <2>2, <2>3, ListAssumption DEF Linked
<1>5. CASE j \notin 1 .. Len(Contents[loop])
  BY <1>2, <1>3, <1>5 DEF At
<1> QED
  BY <1>4, <1>5

LEMMA Always == ~MisuseHead => (Spec => []IInv)
<1>1. SUFFICES ASSUME ~MisuseHead PROVE Spec => []IInv
  OBVIOUS
<1> QED
  BY <1>1, EmptyAtFirst, StepRefines, PTL DEF Spec

\* Whatever entries are added, moved and unlinked, in whatever order and in the
\* middle of a loop, no pointer of a head or linked entry and no iterator
\* leaves the heads and entries, and no head is ever without neighbours.
THEOREM TypesStay == ~MisuseHead => (Spec => []TypeOK)
BY Always, PTL DEF IInv

\* ...every head and linked entry stays in a ring of heads and linked entries
\* in which next and prev are inverse to each other.
THEOREM RingsStay == ~MisuseHead => (Spec => []Ring)
BY Always, RingFollows, PTL

\* ...and no entry shows up under a head it was not added or moved under.
THEOREM ListsStayApart == ~MisuseHead => (Spec => []HeadsApart)
BY Always, RingFollows, PTL

\* list_for_each_entry_safe never has an entry outside its list as the next one
\* to visit, nor one that it visited and that stayed linked, whatever its body
\* does to the entry it is at, and when it ends has visited all that were in the
\* list when it began and stayed linked: each of these exactly once.
THEOREM LoopsVisitAll == ~MisuseHead => (Spec => []VisitsAll)
BY Always, VisitsAllFollows, PTL

\* The pointer assignments of list.h implement one sequence of entries for each
\* head: an operation inserts at an end or takes out the entry it names and
\* changes no other sequence.
THEOREM ListsAreSequences == ~MisuseHead => (Spec => ImplementsDeque)
<1>1. SUFFICES ASSUME ~MisuseHead PROVE Spec => Deque!Spec
  BY DEF ImplementsDeque
<1>2. Init => Deque!Init
  BY EmptyAtFirst
<1>3. IInv /\ [Next]_vars => [Deque!Next]_Contents
  BY <1>1, StepRefines
<1> QED
  BY <1>1, <1>2, <1>3, Always, PTL DEF Spec, Deque!Spec
=============================================================================
