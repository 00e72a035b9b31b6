------------------------------ MODULE SeqLemmas ------------------------------
(***************************************************************************)
(* What the list operations of the server do to the set of the entries of  *)
(* a list, to their being distinct and to their positions.  The proofs     *)
(* about ThreadPool, Requests and ClientRegistry reason about lists        *)
(* through these alone.  And induction, for the proofs about what a loop   *)
(* over a list (LListProofs) or a stream (SessionProofs) computes.         *)
(***************************************************************************)
EXTENDS Integers, Sequences, FiniteSets, FiniteSetTheorems, FunctionTheorems,
        SequenceTheorems, WellFoundedInduction, TLAPS

SetOf(s) == {s[i] : i \in DOMAIN s}
NoRepeats(s) == \A i, j \in DOMAIN s : s[i] = s[j] => i = j
Without(s, i) == SubSeq(s, 1, i - 1) \o SubSeq(s, i + 1, Len(s))
PosOf(s, e) == CHOOSE j \in DOMAIN s : s[j] = e

\* The empty list, and a list with an entry.
LEMMA SetOfEmpty ==
    /\ SetOf(<<>>) = {} /\ NoRepeats(<<>>)
    /\ \A S : \A s \in Seq(S) : /\ SetOf(s) \subseteq S
                                /\ SetOf(s) = {} => s = <<>>
  BY DEF SetOf, NoRepeats

\* llist_insertlast
LEMMA SetOfAppend ==
    ASSUME NEW S, NEW s \in Seq(S), NEW e \in S
    PROVE  /\ Append(s, e) \in Seq(S)
           /\ SetOf(Append(s, e)) = SetOf(s) \cup {e}
           /\ NoRepeats(s) /\ e \notin SetOf(s) => NoRepeats(Append(s, e))
<1>1. /\ Append(s, e) \in Seq(S) /\ DOMAIN Append(s, e) = 1..(Len(s) + 1)
      /\ Len(s) \in Nat /\ DOMAIN s = 1..Len(s)
      /\ \A i \in 1..Len(s) : Append(s, e)[i] = s[i]
      /\ Append(s, e)[Len(s) + 1] = e
  OBVIOUS
<1>2. SetOf(Append(s, e)) = SetOf(s) \cup {e}
  BY <1>1 DEF SetOf
<1>3. NoRepeats(s) /\ e \notin SetOf(s) => NoRepeats(Append(s, e))
  BY <1>1 DEF SetOf, NoRepeats
<1> QED BY <1>1, <1>2, <1>3

\* llist_insertfirst
LEMMA SetOfCons ==
    ASSUME NEW S, NEW s \in Seq(S), NEW e \in S
    PROVE  /\ <<e>> \o s \in Seq(S) /\ <<e>> \o s # <<>>
           /\ SetOf(<<e>> \o s) = SetOf(s) \cup {e}
           /\ NoRepeats(s) /\ e \notin SetOf(s) => NoRepeats(<<e>> \o s)
<1> DEFINE t == <<e>> \o s
<1>1. /\ t \in Seq(S) /\ DOMAIN t = 1..(Len(s) + 1)
      /\ Len(s) \in Nat /\ DOMAIN s = 1..Len(s)
      /\ t[1] = e
      /\ \A i \in 2..(Len(s) + 1) : t[i] = s[i - 1]
  OBVIOUS
<1> HIDE DEF t
<1>2. \A i \in 1..Len(s) : i + 1 \in 2..(Len(s) + 1) /\ t[i + 1] = s[i]
  BY <1>1
<1>3. SetOf(t) = SetOf(s) \cup {e}
  <2>1. SetOf(t) \subseteq SetOf(s) \cup {e}
    BY <1>1 DEF SetOf
  <2>2. e \in SetOf(t)
    <3>1. 1 \in DOMAIN t
      BY <1>1
    <3> QED BY <1>1, <3>1 DEF SetOf
  <2>3. ASSUME NEW i \in DOMAIN s
        PROVE  s[i] \in SetOf(t)
    <3>1. i + 1 \in DOMAIN t /\ t[i + 1] = s[i]
      BY <1>1, <1>2
    <3> QED BY <3>1 DEF SetOf
  <2>4. SetOf(s) \subseteq SetOf(t)
    BY <2>3 DEF SetOf
  <2> QED BY <2>1, <2>2, <2>4
<1>4. ASSUME NoRepeats(s), e \notin SetOf(s)
      PROVE  NoRepeats(t)
  <2> SUFFICES ASSUME NEW i \in DOMAIN t, NEW j \in DOMAIN t, t[i] = t[j]
               PROVE  i = j
    BY DEF NoRepeats
  <2>1. \A k \in DOMAIN t : k # 1 => k - 1 \in DOMAIN s /\ t[k] = s[k - 1] /\ t[k] # e
    <3> SUFFICES ASSUME NEW k \in DOMAIN t, k # 1
                 PROVE  k - 1 \in DOMAIN s /\ t[k] = s[k - 1] /\ t[k] # e
      OBVIOUS
    <3>1. k - 1 \in DOMAIN s /\ t[k] = s[k - 1]
      BY <1>1
    <3> QED BY <1>4, <3>1 DEF SetOf
  <2>2. CASE i = 1 \/ j = 1
    BY <1>1, <2>1, <2>2
  <2>3. CASE i # 1 /\ j # 1
    <3>1. i - 1 = j - 1
      BY <1>4, <2>1, <2>3 DEF NoRepeats
    <3> QED BY <1>1, <3>1
  <2> QED BY <2>2, <2>3
<1>5. t # <<>>
  BY <1>1
<1> QED BY <1>1, <1>3, <1>4, <1>5 DEF t

\* llist_removefirst
LEMMA SetOfTail ==
    ASSUME NEW S, NEW s \in Seq(S), s # <<>>
    PROVE  /\ Head(s) \in SetOf(s) /\ Head(s) \in S
           /\ Tail(s) \in Seq(S)
           /\ SetOf(s) = SetOf(Tail(s)) \cup {Head(s)}
           /\ NoRepeats(s) => NoRepeats(Tail(s)) /\ Head(s) \notin SetOf(Tail(s))
<1> DEFINE t == Tail(s)
<1>1. /\ Len(s) \in Nat \ {0} /\ DOMAIN s = 1..Len(s)
      /\ Head(s) = s[1] /\ s[1] \in S
      /\ t \in Seq(S) /\ DOMAIN t = 1..(Len(s) - 1)
      /\ \A i \in 1..(Len(s) - 1) : t[i] = s[i + 1]
  OBVIOUS
<1> HIDE DEF t
<1>2. \A i \in 2..Len(s) : i - 1 \in 1..(Len(s) - 1) /\ t[i - 1] = s[i]
  BY <1>1
<1>3. SetOf(s) = SetOf(t) \cup {Head(s)}
  <2>1. SetOf(s) \subseteq SetOf(t) \cup {Head(s)}
    <3> SUFFICES ASSUME NEW i \in DOMAIN s, i # 1
                 PROVE  s[i] \in SetOf(t)
      BY <1>1 DEF SetOf
    <3>1. i - 1 \in DOMAIN t /\ t[i - 1] = s[i]
      BY <1>1, <1>2
    <3> QED BY <3>1 DEF SetOf
  <2>2. SetOf(t) \cup {Head(s)} \subseteq SetOf(s)
    BY <1>1 DEF SetOf
  <2> QED BY <2>1, <2>2
<1>4. ASSUME NoRepeats(s)
      PROVE  NoRepeats(t) /\ Head(s) \notin SetOf(t)
  <2>1. \A i \in DOMAIN t : i + 1 \in DOMAIN s /\ i + 1 # 1 /\ t[i] = s[i + 1]
    BY <1>1
  <2>2. \A i \in DOMAIN t : t[i] # s[1]
    <3>1. 1 \in DOMAIN s
      BY <1>1
    <3> QED BY <1>4, <2>1, <3>1 DEF NoRepeats
  <2>3. Head(s) \notin SetOf(t)
    BY <1>1, <2>2 DEF SetOf
  <2>4. ASSUME NEW i \in DOMAIN t, NEW j \in DOMAIN t, t[i] = t[j]
        PROVE  i = j
    <3>1. i + 1 = j + 1
      BY <1>4, <2>1, <2>4 DEF NoRepeats
    <3> QED BY <1>1, <3>1
  <2> QED BY <2>3, <2>4 DEF NoRepeats
<1> QED BY <1>1, <1>3, <1>4 DEF t

\* llist_remove of the i-th entry moves the later ones up.
LEMMA WithoutEntries ==
    ASSUME NEW S, NEW s \in Seq(S), NEW i \in DOMAIN s
    PROVE  /\ Without(s, i) \in Seq(S) /\ Len(Without(s, i)) = Len(s) - 1
           /\ DOMAIN Without(s, i) = 1..(Len(s) - 1)
           /\ \A j \in 1..(Len(s) - 1) : Without(s, i)[j] = IF j < i THEN s[j] ELSE s[j + 1]
<1> DEFINE n == Len(s)
           a == SubSeq(s, 1, i - 1)
           b == SubSeq(s, i + 1, n)
           t == a \o b
<1>0. n \in Nat /\ DOMAIN s = 1..n /\ i \in 1..n /\ i \in Int
  OBVIOUS
<1>1. a \in Seq(S) /\ Len(a) = i - 1 /\ \A j \in 1..(i - 1) : a[j] = s[j]
  BY <1>0
<1>2. b \in Seq(S) /\ Len(b) = n - i /\ \A j \in 1..(n - i) : b[j] = s[i + j]
  BY <1>0
<1> HIDE DEF a, b
<1> HIDE DEF n
<1>3. /\ t \in Seq(S) /\ DOMAIN t = 1..(n - 1)
      /\ \A j \in 1..(n - 1) : t[j] = IF j < i THEN a[j] ELSE b[j - (i - 1)]
  <2>1. /\ t \in Seq(S) /\ Len(t) = Len(a) + Len(b)
        /\ \A j \in 1..(Len(a) + Len(b)) : t[j] = IF j <= Len(a) THEN a[j] ELSE b[j - Len(a)]
    <3>1. a \in Seq(S) /\ b \in Seq(S)
      BY <1>1, <1>2
    <3> QED BY ONLY <3>1, ConcatProperties
  <2>2. Len(a) + Len(b) = n - 1 /\ \A j \in 1..(n - 1) : j <= Len(a) <=> j < i
    BY <1>0, <1>1, <1>2
  <2>3. DOMAIN t = 1..Len(t)
    BY <2>1
  <2>4. ASSUME NEW j \in 1..(n - 1)
        PROVE  t[j] = IF j < i THEN a[j] ELSE b[j - (i - 1)]
    <3>1. j \in 1..(Len(a) + Len(b)) /\ (j <= Len(a) <=> j < i) /\ Len(a) = i - 1
      BY <1>1, <2>2
    <3> HIDE DEF t
    <3> QED BY <2>1, <3>1
  <2> HIDE DEF t
  <2> QED BY <2>1, <2>2, <2>3, <2>4
<1> HIDE DEF t
<1>4. \A j \in 1..(n - 1) : t[j] = IF j < i THEN s[j] ELSE s[j + 1]
  <2> SUFFICES ASSUME NEW j \in 1..(n - 1)
               PROVE  t[j] = IF j < i THEN s[j] ELSE s[j + 1]
    OBVIOUS
  <2>1. CASE j < i
    <3>1. j \in 1..(i - 1)
      BY <1>0, <2>1
    <3> QED BY <1>1, <1>3, <2>1, <3>1
  <2>2. CASE ~(j < i)
    <3>1. j - (i - 1) \in 1..(n - i) /\ i + (j - (i - 1)) = j + 1
      BY <1>0, <2>2
    <3> QED BY <1>2, <1>3, <2>2, <3>1
  <2> QED BY <2>1, <2>2
<1>5. t = Without(s, i)
  BY DEF t, a, b, n, Without
<1>6. Len(t) = n - 1
  BY <1>0, <1>3
<1> QED BY <1>3, <1>4, <1>5, <1>6 DEF n

\* ... and takes it from the set.
LEMMA SetOfWithout ==
    ASSUME NEW S, NEW s \in Seq(S), NEW i \in DOMAIN s
    PROVE  /\ Without(s, i) \in Seq(S)
           /\ SetOf(Without(s, i)) \subseteq SetOf(s)
           /\ \A e \in SetOf(s) : e # s[i] => e \in SetOf(Without(s, i))
           /\ NoRepeats(s) => /\ NoRepeats(Without(s, i))
                              /\ s[i] \notin SetOf(Without(s, i))
<1> DEFINE n == Len(s)
           t == Without(s, i)
<1>0. n \in Nat /\ DOMAIN s = 1..n /\ i \in 1..n /\ i \in Int
  OBVIOUS
<1>3. t \in Seq(S) /\ DOMAIN t = 1..(n - 1)
  BY WithoutEntries
<1>4. \A j \in 1..(n - 1) : t[j] = IF j < i THEN s[j] ELSE s[j + 1]
  BY WithoutEntries
<1> HIDE DEF n, t
<1>5. \A j \in 1..n : j # i => \E k \in 1..(n - 1) : t[k] = s[j]
  <2> SUFFICES ASSUME NEW j \in 1..n, j # i
               PROVE  \E k \in 1..(n - 1) : t[k] = s[j]
    OBVIOUS
  <2>1. CASE j < i
    BY <1>0, <1>4, <2>1
  <2>2. CASE ~(j < i)
    <3>1. j - 1 \in 1..(n - 1) /\ ~(j - 1 < i) /\ (j - 1) + 1 = j
      BY <1>0, <2>2
    <3> QED BY <1>4, <3>1
  <2> QED BY <2>1, <2>2
<1> DEFINE up(j) == IF j < i THEN j ELSE j + 1
<1>a. \A j \in DOMAIN t : up(j) \in DOMAIN s /\ up(j) # i /\ t[j] = s[up(j)]
  <2> SUFFICES ASSUME NEW j \in 1..(n - 1)
               PROVE  up(j) \in 1..n /\ up(j) # i /\ t[j] = s[up(j)]
    BY <1>0, <1>3
  <2> QED BY <1>0, <1>4
<1>b. \A j, k \in DOMAIN t : up(j) = up(k) => j = k
  <2> SUFFICES ASSUME NEW j \in 1..(n - 1), NEW k \in 1..(n - 1), up(j) = up(k)
               PROVE  j = k
    BY <1>3
  <2> QED BY <1>0
<1> HIDE DEF up
<1>6. SetOf(t) \subseteq SetOf(s)
  BY <1>a DEF SetOf
<1>7. \A e \in SetOf(s) : e # s[i] => e \in SetOf(t)
  <2> SUFFICES ASSUME NEW j \in DOMAIN s, s[j] # s[i]
               PROVE  s[j] \in SetOf(t)
    BY DEF SetOf
  <2>1. PICK k \in 1..(n - 1) : t[k] = s[j]
    BY <1>0, <1>5
  <2>2. k \in DOMAIN t
    BY <1>3
  <2> QED BY <2>1, <2>2 DEF SetOf
<1>8. ASSUME NoRepeats(s)
      PROVE  NoRepeats(t) /\ s[i] \notin SetOf(t)
  BY <1>a, <1>b, <1>8 DEF SetOf, NoRepeats
<1> QED BY <1>3, <1>6, <1>7, <1>8 DEF t

\* Positions: an entry of a list without repetitions has one,
LEMMA PosOfEntry ==
    ASSUME NEW s
    PROVE  /\ \A e \in SetOf(s) : PosOf(s, e) \in DOMAIN s /\ s[PosOf(s, e)] = e
           /\ NoRepeats(s) => \A j \in DOMAIN s : PosOf(s, s[j]) = j
<1>1. ASSUME NEW e \in SetOf(s)
      PROVE  PosOf(s, e) \in DOMAIN s /\ s[PosOf(s, e)] = e
  <2>1. \E j \in DOMAIN s : s[j] = e
    BY DEF SetOf
  <2> QED BY <2>1 DEF PosOf
<1>2. ASSUME NoRepeats(s), NEW j \in DOMAIN s
      PROVE  PosOf(s, s[j]) = j
  <2>1. s[j] \in SetOf(s)
    BY DEF SetOf
  <2> QED BY <1>1, <1>2, <2>1 DEF NoRepeats
<1> QED BY <1>1, <1>2

\* llist_insertlast does not change it,
LEMMA PosOfAppend ==
    ASSUME NEW S, NEW s \in Seq(S), NEW e \in S, NoRepeats(s), e \notin SetOf(s)
    PROVE  \A d \in SetOf(s) : PosOf(Append(s, e), d) = PosOf(s, d)
<1> SUFFICES ASSUME NEW d \in SetOf(s)
             PROVE  PosOf(Append(s, e), d) = PosOf(s, d)
  OBVIOUS
<1> DEFINE t == Append(s, e)
           k == PosOf(s, d)
<1>1. k \in DOMAIN s /\ s[k] = d
  BY PosOfEntry
<1>2. NoRepeats(t)
  BY SetOfAppend
<1>3. k \in DOMAIN t /\ t[k] = s[k]
  BY <1>1
<1> HIDE DEF t, k
<1>4. PosOf(t, t[k]) = k
  BY <1>2, <1>3, PosOfEntry
<1> QED BY <1>1, <1>3, <1>4 DEF t, k

\* and llist_remove of an entry before it makes it one less.
LEMMA PosOfWithout ==
    ASSUME NEW S, NEW s \in Seq(S), NEW i \in DOMAIN s, NoRepeats(s)
    PROVE  \A d \in SetOf(s) : d # s[i] =>
               PosOf(Without(s, i), d) = IF PosOf(s, d) < i THEN PosOf(s, d)
                                                            ELSE PosOf(s, d) - 1
<1> SUFFICES ASSUME NEW d \in SetOf(s), d # s[i]
             PROVE  PosOf(Without(s, i), d) = IF PosOf(s, d) < i THEN PosOf(s, d)
                                                                 ELSE PosOf(s, d) - 1
  OBVIOUS
<1> DEFINE n == Len(s)
           t == Without(s, i)
           k == PosOf(s, d)
           m == IF k < i THEN k ELSE k - 1
<1>1. k \in DOMAIN s /\ s[k] = d
  BY PosOfEntry
<1>2. NoRepeats(t)
  BY SetOfWithout
<1>3. DOMAIN t = 1..(n - 1) /\ \A j \in 1..(n - 1) : t[j] = IF j < i THEN s[j] ELSE s[j + 1]
  BY WithoutEntries
<1>4. n \in Nat /\ DOMAIN s = 1..n
  OBVIOUS
<1> HIDE DEF n, t, k
<1>5. m \in 1..(n - 1) /\ k = IF m < i THEN m ELSE m + 1
  BY <1>1, <1>4
<1>6. m \in DOMAIN t /\ t[m] = d
  BY <1>1, <1>3, <1>5
<1>7. PosOf(t, t[m]) = m
  BY <1>2, <1>6, PosOfEntry
<1> QED BY <1>6, <1>7 DEF t, k

\* A list of thread numbers that repeats none and is as long as there are
\* numbers holds all of them.
LEMMA FullList ==
    ASSUME NEW S, IsFiniteSet(S), NEW s \in Seq(S), NoRepeats(s), Len(s) >= Cardinality(S)
    PROVE  S \subseteq SetOf(s)
<1>1. Len(s) \in Nat /\ s \in [1..Len(s) -> S]
  OBVIOUS
<1>2. s \in Injection(1..Len(s), S)
  BY <1>1 DEF NoRepeats, Injection, IsInjective
<1>3. Cardinality(1..Len(s)) <= Cardinality(S)
      /\ (Cardinality(1..Len(s)) = Cardinality(S) => s \in Surjection(1..Len(s), S))
  BY <1>2, FS_Injection
<1>4. Cardinality(1..Len(s)) = Len(s)
  <2>1. 1 \in Int /\ Len(s) \in Int
    BY <1>1
  <2>2. Cardinality(1..Len(s)) = IF 1 > Len(s) THEN 0 ELSE Len(s) - 1 + 1
    BY <2>1, FS_Interval, Zenon
  <2> QED BY <1>1, <2>2
<1>5. Cardinality(S) \in Nat
  BY FS_CardinalityType
<1>6. s \in Surjection(1..Len(s), S)
  BY <1>1, <1>3, <1>4, <1>5
<1> QED BY <1>1, <1>6 DEF Surjection, SetOf

-----------------------------------------------------------------------------
(* Induction. *)

\* Every set of numbers that is not empty has a least element ...
LEMMA Least ==
    ASSUME NEW T \in SUBSET Nat, T # {}
    PROVE  \E x \in T : \A y \in T : x <= y
<1> DEFINE R == {ss \in Nat \X Nat : ss[1] < ss[2]}
<1>1. IsWellFoundedOn(R, Nat)
  BY NatLessThanWellFounded DEF OpToRel
<1> HIDE DEF R
<1>2. PICK x \in T : \A y \in T : ~(<<y, x>> \in R)
  BY <1>1, WFMin
<1>3. \A y \in T : ~(y < x)
  <2> TAKE y \in T
  <2>1. <<y, x>> \notin R
    BY <1>2
  <2> QED BY <2>1 DEF R
<1> QED BY <1>3

\* ... so that a set of numbers that has 0, and k + 1 with every k, has all.
LEMMA SetInduction ==
    ASSUME NEW S \in SUBSET Nat, 0 \in S, \A k \in S : k + 1 \in S
    PROVE  S = Nat
<1> SUFFICES ASSUME Nat \ S # {} PROVE FALSE
  OBVIOUS
<1>1. PICK x \in Nat \ S : \A y \in Nat \ S : x <= y
  BY Least
<1>2. x # 0 /\ x - 1 \in Nat /\ ~(x <= x - 1)
  BY <1>1
<1>3. x - 1 \in S
  BY <1>1, <1>2
<1>4. (x - 1) + 1 \in S
  BY <1>3
<1> QED BY <1>1, <1>4
=============================================================================
