---------------------------- MODULE LListProofs ----------------------------
(***************************************************************************)
(* Proofs about LList, for every set of nodes and of data.                 *)
(***************************************************************************)
EXTENDS LList, SeqLemmas, TLAPS

\* Removing index i from a sequence: what is left, and where it stands.
LEMMA RemoveProperties ==
    ASSUME NEW S, NEW s \in Seq(S), NEW i \in 1..Len(s)
    PROVE  /\ Remove(s, i) \in Seq(S)
           /\ Len(Remove(s, i)) = Len(s) - 1
           /\ \A j \in 1..(Len(s) - 1) : Remove(s, i)[j] = IF j < i THEN s[j] ELSE s[j + 1]
<1> DEFINE a == SubSeq(s, 1, i - 1)
           b == SubSeq(s, i + 1, Len(s))
<1>0. Len(s) \in Nat
  OBVIOUS
<1>1. a \in Seq(S) /\ Len(a) = i - 1 /\ \A j \in 1..(i - 1) : a[j] = s[j]
  BY <1>0
<1>2. b \in Seq(S) /\ Len(b) = Len(s) - i /\ \A j \in 1..(Len(s) - i) : b[j] = s[i + j]
  BY <1>0
<1>3. Remove(s, i) = a \o b
  BY DEF Remove
<1> HIDE DEF a, b
<1>4. a \o b \in Seq(S) /\ Len(a \o b) = Len(a) + Len(b)
  <2>1. a \in Seq(S) /\ b \in Seq(S)
    BY <1>1, <1>2
  <2> QED BY ONLY <2>1
<1>5. ASSUME NEW j \in 1..(Len(s) - 1)
      PROVE  (a \o b)[j] = IF j < i THEN s[j] ELSE s[j + 1]
  <2>1. CASE j < i
    BY <1>0, <1>1, <1>2, <2>1
  <2>2. CASE ~(j < i)
    <3>1. (a \o b)[j] = b[j - (i - 1)]
      BY <1>0, <1>1, <1>2, <2>2
    <3>2. j - (i - 1) \in 1..(Len(s) - i)
      BY <1>0, <2>2
    <3>3. b[j - (i - 1)] = s[i + (j - (i - 1))]
      BY <1>2, <3>2
    <3>4. i + (j - (i - 1)) = j + 1
      BY <1>0
    <3> QED BY <2>2, <3>1, <3>3, <3>4
  <2> QED BY <2>1, <2>2
<1>6. Len(a) + Len(b) = Len(s) - 1
  BY <1>0, <1>1, <1>2
<1> QED
  BY <1>3, <1>4, <1>5, <1>6

LEMMA RemoveDistinct ==
    ASSUME NEW s \in Seq(Nodes), NEW i \in 1..Len(s), Distinct(s)
    PROVE  Distinct(Remove(s, i))
<1>1. Len(s) \in Nat
  OBVIOUS
<1>2. /\ Len(Remove(s, i)) = Len(s) - 1
      /\ \A j \in 1..(Len(s) - 1) : Remove(s, i)[j] = IF j < i THEN s[j] ELSE s[j + 1]
  BY RemoveProperties
<1> SUFFICES ASSUME NEW j \in 1..(Len(s) - 1), NEW k \in 1..(Len(s) - 1),
                    Remove(s, i)[j] = Remove(s, i)[k]
             PROVE  j = k
  BY <1>2 DEF Distinct
<1> DEFINE jj == IF j < i THEN j ELSE j + 1
           kk == IF k < i THEN k ELSE k + 1
<1>3. jj \in 1..Len(s) /\ kk \in 1..Len(s) /\ s[jj] = s[kk]
  BY <1>1, <1>2
<1>4. jj = kk
  BY <1>3 DEF Distinct
<1> QED
  BY <1>1, <1>4

LEMMA RemoveHolds ==
    ASSUME NEW s \in Seq(Nodes), NEW i \in 1..Len(s), Distinct(s), NEW a, Holds(s, a)
    PROVE  Holds(Remove(s, i), a \ {s[i]})
<1>1. Len(s) \in Nat
  OBVIOUS
<1>2. /\ Len(Remove(s, i)) = Len(s) - 1
      /\ \A j \in 1..(Len(s) - 1) : Remove(s, i)[j] = IF j < i THEN s[j] ELSE s[j + 1]
  BY RemoveProperties
<1>3. ASSUME NEW x \in Nodes, x \in a \ {s[i]}
      PROVE  \E j \in 1..(Len(s) - 1) : Remove(s, i)[j] = x
  <2>1. PICK j \in 1..Len(s) : s[j] = x
    BY <1>3 DEF Holds
  <2>2. j # i
    BY <1>3, <2>1
  <2>3. CASE j < i
    <3>1. j \in 1..(Len(s) - 1)
      BY <1>1, <2>3
    <3> QED BY <1>2, <2>1, <2>3, <3>1
  <2>4. CASE ~(j < i)
    <3>1. j - 1 \in 1..(Len(s) - 1) /\ ~(j - 1 < i) /\ (j - 1) + 1 = j
      BY <1>1, <2>2, <2>4
    <3> QED BY <1>2, <2>1, <3>1
  <2> QED BY <2>3, <2>4
<1>4. ASSUME NEW j \in 1..(Len(s) - 1)
      PROVE  Remove(s, i)[j] \in a \ {s[i]}
  <2> DEFINE jj == IF j < i THEN j ELSE j + 1
  <2>1. jj \in 1..Len(s) /\ jj # i /\ Remove(s, i)[j] = s[jj]
    BY <1>1, <1>2
  <2> HIDE DEF jj
  <2>2. s[jj] # s[i] /\ s[jj] \in Nodes
    BY <2>1 DEF Distinct
  <2>3. s[jj] \in a
    BY <2>1, <2>2 DEF Holds
  <2> QED BY <2>1, <2>2, <2>3
<1> QED
  BY <1>2, <1>3, <1>4 DEF Holds

\* What the four cases of Unlink have in common: the predecessor's next and the
\* successor's previous pointer step over the node.
LEMMA RemoveChain ==
    ASSUME NEW s \in Seq(Nodes), NEW i \in 1..Len(s), Distinct(s),
           NEW nx, NEW pv, Chain(s, nx, pv),
           NEW nx2, NEW pv2,
           \A x \in Nodes : nx2[x] = IF i > 1 /\ x = s[i - 1] THEN nx[s[i]] ELSE nx[x],
           \A x \in Nodes : pv2[x] = IF i < Len(s) /\ x = s[i + 1] THEN pv[s[i]] ELSE pv[x]
    PROVE  Chain(Remove(s, i), nx2, pv2)
<1> DEFINE n == Len(s)
           t == Remove(s, i)
<1>1. n \in Nat /\ i \in 1..n
  OBVIOUS
<1>2. Len(t) = n - 1 /\ \A j \in 1..(n - 1) : t[j] = IF j < i THEN s[j] ELSE s[j + 1]
  BY RemoveProperties
<1>3. \A j \in 1..n : s[j] \in Nodes
  OBVIOUS
<1>4. \A j \in 1..n : /\ nx[s[j]] = IF j = n THEN NULL ELSE s[j + 1]
                      /\ pv[s[j]] = IF j = 1 THEN NULL ELSE s[j - 1]
  BY DEF Chain
<1>5. \A j, k \in 1..n : s[j] = s[k] => j = k
  BY DEF Distinct
<1> HIDE DEF n, t
<1>6. ASSUME NEW j \in 1..(n - 1)
      PROVE  nx2[t[j]] = IF j = n - 1 THEN NULL ELSE t[j + 1]
  <2>1. CASE j < i - 1
    <3>1. j \in 1..n /\ i - 1 \in 1..n /\ j + 1 < i /\ j + 1 \in 1..(n - 1) /\ j # n - 1 /\ j # n
      BY <1>1, <2>1
    <3>2. t[j] = s[j] /\ t[j + 1] = s[j + 1]
      BY <1>1, <1>2, <3>1, <2>1
    <3>3. s[j] # s[i - 1]
      BY <1>1, <1>5, <2>1, <3>1
    <3> QED BY <1>3, <1>4, <3>1, <3>2, <3>3
  <2>2. CASE j = i - 1
    <3>1. j \in 1..n /\ i > 1 /\ j < i /\ t[j] = s[i - 1]
      BY <1>1, <1>2, <2>2
    <3>2. nx2[t[j]] = IF i = n THEN NULL ELSE s[i + 1]
      BY <1>1, <1>3, <1>4, <2>2, <3>1
    <3>3. j = n - 1 <=> i = n
      BY <1>1, <2>2
    <3>4. i # n => t[j + 1] = s[i + 1]
      BY <1>1, <1>2, <2>2
    <3> QED BY <3>2, <3>3, <3>4
  <2>3. CASE j >= i
    <3>1. j + 1 \in 1..n /\ t[j] = s[j + 1]
      BY <1>1, <1>2, <2>3
    <3>2. i > 1 => s[j + 1] # s[i - 1]
      BY <1>1, <1>5, <2>3, <3>1
    <3>3. nx2[t[j]] = IF j + 1 = n THEN NULL ELSE s[(j + 1) + 1]
      BY <1>3, <1>4, <3>1, <3>2
    <3>4. j # n - 1 => t[j + 1] = s[(j + 1) + 1]
      BY <1>1, <1>2, <2>3
    <3>5. j + 1 = n <=> j = n - 1
      BY <1>1
    <3> QED BY <3>3, <3>4, <3>5
  <2> QED BY <1>1, <2>1, <2>2, <2>3
<1>7. ASSUME NEW j \in 1..(n - 1)
      PROVE  pv2[t[j]] = IF j = 1 THEN NULL ELSE t[j - 1]
  <2>1. CASE j < i
    <3>1. j \in 1..n /\ t[j] = s[j] /\ (j # 1 => t[j - 1] = s[j - 1])
      BY <1>1, <1>2, <2>1
    <3>2. i < n => s[j] # s[i + 1]
      BY <1>1, <1>5, <2>1, <3>1
    <3> QED BY <1>3, <1>4, <3>1, <3>2 DEF n
  <2>2. CASE j = i
    <3>1. i < n /\ i + 1 \in 1..n /\ t[j] = s[i + 1]
      BY <1>1, <1>2, <2>2
    <3>2. pv2[t[j]] = IF i = 1 THEN NULL ELSE s[i - 1]
      BY <1>1, <1>3, <1>4, <3>1 DEF n
    <3>3. i # 1 => t[j - 1] = s[i - 1]
      BY <1>1, <1>2, <2>2
    <3> QED BY <2>2, <3>2, <3>3
  <2>3. CASE j > i
    <3>1. j + 1 \in 1..n /\ t[j] = s[j + 1] /\ j # 1
      BY <1>1, <1>2, <2>3
    <3>2. s[j + 1] # s[i + 1]
      BY <1>1, <1>5, <2>3, <3>1
    <3>3. pv2[t[j]] = s[(j + 1) - 1]
      BY <1>1, <1>3, <1>4, <3>1, <3>2
    <3>4. t[j - 1] = s[j]
      <4>1. j - 1 \in 1..(n - 1) /\ ~(j - 1 < i) /\ (j - 1) + 1 = j
        BY <1>1, <2>3
      <4> QED BY <1>2, <4>1
    <3>5. (j + 1) - 1 = j
      BY <1>1
    <3> QED BY <3>1, <3>3, <3>4, <3>5
  <2> QED BY <1>1, <2>1, <2>2, <2>3
<1> QED
  BY <1>2, <1>6, <1>7 DEF Chain, t

LEMMA PositionOf ==
    ASSUME TypeOK, WellLinked, NEW p \in alloc
    PROVE  /\ Position(p) \in 1..Len(order)
           /\ order[Position(p)] = p
<1>1. \E i \in 1..Len(order) : order[i] = p
  BY DEF TypeOK, WellLinked, Holds
<1> QED
  BY <1>1 DEF Position

-----------------------------------------------------------------------------
(* Taking a node out. *)

\* Unlink, wherever the node stands: the four cases of the code are the four
\* combinations of being first and being last.
LEMMA UnlinkKeepsLinks ==
    ASSUME TypeOK, WellLinked, NEW p \in alloc, Unlink(p)
    PROVE  /\ WellLinked'
           /\ order' \in Seq(Nodes) /\ alloc' \subseteq Nodes
           /\ head' \in Pointers /\ tail' \in Pointers
           /\ next' \in [Nodes -> Pointers] /\ prev' \in [Nodes -> Pointers]
           /\ p = head => head' = next[p]
<1> DEFINE n == Len(order)
<1>0. PICK i \in 1..n : Position(p) = i /\ order[i] = p
  BY PositionOf
<1>1. i \in 1..n /\ order[i] = p /\ n \in Nat /\ order \in Seq(Nodes) /\ p \in Nodes
  BY <1>0 DEF TypeOK
<1>2. order' = Remove(order, i) /\ alloc' = alloc \ {p}
  BY <1>0 DEF Unlink
<1>3. Distinct(order) /\ Holds(order, alloc) /\ Ends(order, head, tail) /\ Chain(order, next, prev)
  BY DEF WellLinked
<1>4. Distinct(order')
  BY <1>1, <1>2, <1>3, RemoveDistinct
<1>5. Holds(order', alloc')
  BY <1>1, <1>2, <1>3, RemoveHolds
<1>6. /\ order' \in Seq(Nodes) /\ Len(order') = n - 1
      /\ \A j \in 1..(n - 1) : order'[j] = IF j < i THEN order[j] ELSE order[j + 1]
  BY <1>1, <1>2, RemoveProperties
<1>7. /\ next[p] = IF i = n THEN NULL ELSE order[i + 1]
      /\ prev[p] = IF i = 1 THEN NULL ELSE order[i - 1]
      /\ head = order[1] /\ tail = order[n]
  BY <1>1, <1>3 DEF Chain, Ends
<1>8. \A j \in 1..n : order[j] \in Nodes /\ order[j] # NULL
  BY <1>1, ListAssumption
<1>9. /\ next \in [Nodes -> Pointers] /\ prev \in [Nodes -> Pointers]
      /\ head \in Pointers /\ tail \in Pointers
  BY DEF TypeOK
\* The assignments of each case, said in terms of the position.
<1>10. /\ next' \in [Nodes -> Pointers] /\ prev' \in [Nodes -> Pointers]
       /\ \A x \in Nodes : next'[x] = IF i > 1 /\ x = order[i - 1] THEN next[p] ELSE next[x]
       /\ \A x \in Nodes : prev'[x] = IF i < n /\ x = order[i + 1] THEN prev[p] ELSE prev[x]
       /\ head' = IF i = 1 THEN next[p] ELSE head
       /\ tail' = IF i = n THEN prev[p] ELSE tail
  <2>0. (i > 1 => order[i - 1] \in Nodes /\ order[i - 1] # NULL)
          /\ (i < n => order[i + 1] \in Nodes /\ order[i + 1] # NULL)
    BY <1>1, <1>8
  <2>1. CASE i > 1 /\ i < n
    <3>1. /\ next' = [next EXCEPT ![order[i - 1]] = next[p]]
          /\ prev' = [prev EXCEPT ![order[i + 1]] = prev[p]]
          /\ head' = head /\ tail' = tail
      BY <1>1, <1>7, <2>0, <2>1 DEF Unlink
    <3> QED BY <1>1, <1>9, <2>0, <2>1, <3>1
  <2>2. CASE i = 1 /\ i = n
    <3>1. next' = next /\ prev' = prev /\ head' = next[p] /\ tail' = prev[p]
      BY <1>1, <1>7, <2>2 DEF Unlink
    <3>2. ~(i > 1) /\ ~(i < n)
      <4>1. i = 1 /\ n = 1
        BY <2>2
      <4> HIDE DEF n
      <4> QED BY ONLY <4>1
    <3> QED BY <1>9, <2>2, <3>1, <3>2
  <2>3. CASE i > 1 /\ i = n
    <3>1. /\ next' = [next EXCEPT ![order[i - 1]] = next[p]]
          /\ prev' = prev /\ head' = head /\ tail' = prev[p]
      BY <1>1, <1>7, <2>0, <2>3 DEF Unlink
    <3> QED BY <1>1, <1>9, <2>0, <2>3, <3>1
  <2>4. CASE i = 1 /\ i < n
    <3>1. /\ prev' = [prev EXCEPT ![order[i + 1]] = prev[p]]
          /\ next' = next /\ head' = next[p] /\ tail' = tail
      BY <1>1, <1>7, <2>0, <2>4 DEF Unlink
    <3> QED BY <1>1, <1>9, <2>0, <2>4, <3>1
  <2> QED BY <1>1, <2>1, <2>2, <2>3, <2>4
<1>11. Chain(order', next', prev')
  BY <1>1, <1>2, <1>3, <1>10, RemoveChain
<1>12. Ends(order', head', tail')
  <2>1. CASE n = 1
    BY <1>1, <1>6, <1>7, <1>10, <2>1 DEF Ends
  <2>2. CASE n > 1
    <3>1. order'[1] = IF i = 1 THEN order[2] ELSE order[1]
      BY <1>1, <1>6, <2>2
    <3>2. order'[n - 1] = IF i = n THEN order[n - 1] ELSE order[n]
      BY <1>1, <1>6, <2>2
    <3>3. head' = order'[1] /\ tail' = order'[n - 1]
      BY <1>1, <1>7, <1>10, <2>2, <3>1, <3>2
    <3> QED BY <1>1, <1>6, <2>2, <3>3 DEF Ends
  <2>3. n = 1 \/ n > 1
    <3>1. i \in 1..n /\ n \in Nat
      BY <1>1
    <3> HIDE DEF n
    <3> QED BY ONLY <3>1
  <2> QED BY <2>1, <2>2, <2>3
<1>13. p = head => i = 1
  BY <1>1, <1>3, <1>7 DEF Distinct
<1>14. head' \in Pointers /\ tail' \in Pointers
  BY <1>1, <1>9, <1>10
<1> QED
  BY <1>2, <1>4, <1>5, <1>6, <1>10, <1>11, <1>12, <1>13, <1>14 DEF WellLinked, TypeOK

-----------------------------------------------------------------------------
(* Putting a node in. *)

LEMMA InsertFirstKeepsLinks ==
    ASSUME TypeOK, WellLinked, NEW n \in Nodes, NEW d \in Data, llist_insertfirst(n, d)
    PROVE  WellLinked' /\ TypeOK'
<1> DEFINE m == Len(order)
<1>1. m \in Nat /\ order \in Seq(Nodes) /\ n # NULL
  BY ListAssumption DEF TypeOK
<1>2. order' = <<n>> \o order /\ alloc' = alloc \cup {n} /\ head' = n /\ n \notin alloc
  BY DEF llist_insertfirst
<1>3. /\ order' \in Seq(Nodes) /\ Len(order') = m + 1 /\ order'[1] = n
      /\ \A j \in 1..m : order'[j + 1] = order[j]
  BY <1>1, <1>2
<1>4. \A j \in 2..(m + 1) : j - 1 \in 1..m /\ order'[j] = order[j - 1]
  BY <1>1, <1>3
<1>5. Distinct(order) /\ Holds(order, alloc) /\ Ends(order, head, tail) /\ Chain(order, next, prev)
  BY DEF WellLinked
<1>6. \A j \in 1..m : order[j] \in alloc /\ order[j] # n /\ order[j] \in Nodes /\ order[j] # NULL
  BY <1>1, <1>2, <1>5, ListAssumption DEF Holds
<1>7. Distinct(order')
  <2>1. \A i, j \in 1..m : order[i] = order[j] => i = j
    BY <1>5 DEF Distinct
  <2> SUFFICES ASSUME NEW i \in 1..(m + 1), NEW j \in 1..(m + 1), order'[i] = order'[j]
               PROVE  i = j
    BY <1>3 DEF Distinct
  <2>2. \A k \in 2..(m + 1) : order'[k] # order'[1]
    BY <1>3, <1>4, <1>6
  <2>3. CASE i # 1 /\ j # 1
    BY <1>1, <1>4, <2>1, <2>3
  <2> QED BY <1>1, <2>2, <2>3
<1>8. Holds(order', alloc')
  <2>1. ASSUME NEW x \in alloc PROVE \E j \in 1..(m + 1) : order'[j] = x
    <3>1. PICK j \in 1..m : order[j] = x
      BY <1>5 DEF Holds, TypeOK
    <3> QED BY <1>1, <1>3, <3>1
  <2>2. ASSUME NEW j \in 1..(m + 1) PROVE order'[j] \in alloc'
    BY <1>1, <1>2, <1>3, <1>4, <1>6
  <2> QED BY <1>1, <1>2, <1>3, <2>1, <2>2 DEF Holds
<1>9. llist_isEmpty <=> m = 0
  BY <1>1, <1>5, <1>6 DEF llist_isEmpty, Ends
<1>10. /\ next \in [Nodes -> Pointers] /\ prev \in [Nodes -> Pointers]
       /\ head \in Pointers /\ tail \in Pointers
  BY DEF TypeOK
<1>11. CASE m = 0
  <2>1. tail' = n /\ next' = [next EXCEPT ![n] = NULL] /\ prev' = [prev EXCEPT ![n] = NULL]
    BY <1>9, <1>11 DEF llist_insertfirst
  <2>2. Chain(order', next', prev') /\ Ends(order', head', tail')
    BY <1>2, <1>3, <1>10, <1>11, <2>1 DEF Chain, Ends
  <2>3. TypeOK'
    BY <1>2, <1>3, <1>10, <2>1 DEF TypeOK, Pointers, llist_insertfirst
  <2> QED BY <1>7, <1>8, <2>2, <2>3 DEF WellLinked
<1>12. CASE m # 0
  <2>1. tail' = tail /\ next' = [next EXCEPT ![n] = head]
          /\ prev' = [prev EXCEPT ![n] = NULL, ![head] = n]
    BY <1>9, <1>12 DEF llist_insertfirst
  <2>2. head = order[1] /\ tail = order[m] /\ head \in Nodes /\ head # n
    BY <1>1, <1>5, <1>6, <1>12 DEF Ends
  <2>3. Ends(order', head', tail')
    BY <1>1, <1>2, <1>3, <1>12, <2>1, <2>2 DEF Ends
  <2>4. next'[n] = order'[2] /\ prev'[n] = NULL
    BY <1>1, <1>3, <1>10, <1>12, <2>1, <2>2
  <2>5. ASSUME NEW j \in 1..m
        PROVE  /\ next'[order[j]] = IF j = m THEN NULL ELSE order[j + 1]
               /\ prev'[order[j]] = IF j = 1 THEN n ELSE order[j - 1]
    BY <1>1, <1>5, <1>6, <1>10, <2>1, <2>2 DEF Chain, Distinct
  <2>6. Chain(order', next', prev')
    <3> SUFFICES ASSUME NEW j \in 1..(m + 1)
                 PROVE  /\ next'[order'[j]] = IF j = m + 1 THEN NULL ELSE order'[j + 1]
                        /\ prev'[order'[j]] = IF j = 1 THEN NULL ELSE order'[j - 1]
      BY <1>3 DEF Chain
    <3>1. CASE j = 1
      BY <1>1, <1>3, <1>12, <2>4, <3>1
    <3>2. CASE j # 1
      <4> DEFINE k == j - 1
      <4>1. k \in 1..m /\ order'[j] = order[k] /\ j = k + 1
        BY <1>1, <1>4, <3>2
      <4>2. k # m => order'[j + 1] = order[k + 1]
        BY <1>1, <1>3, <4>1
      <4>3. order'[j - 1] = IF k = 1 THEN n ELSE order[k - 1]
        BY <1>1, <1>3, <1>4, <4>1
      <4> HIDE DEF k
      <4> QED BY <1>1, <2>5, <3>2, <4>1, <4>2, <4>3
    <3> QED BY <3>1, <3>2
  <2>7. TypeOK'
    BY <1>2, <1>3, <1>10, <2>1, <2>2 DEF TypeOK, Pointers, llist_insertfirst
  <2> QED BY <1>7, <1>8, <2>3, <2>6, <2>7 DEF WellLinked
<1> QED BY <1>11, <1>12

LEMMA InsertLastKeepsLinks ==
    ASSUME TypeOK, WellLinked, NEW n \in Nodes, NEW d \in Data, llist_insertlast(n, d)
    PROVE  WellLinked' /\ TypeOK'
<1> DEFINE m == Len(order)
<1>1. m \in Nat /\ order \in Seq(Nodes) /\ n # NULL
  BY ListAssumption DEF TypeOK
<1>2. order' = Append(order, n) /\ alloc' = alloc \cup {n} /\ tail' = n /\ n \notin alloc
  BY DEF llist_insertlast
<1>3. /\ order' \in Seq(Nodes) /\ Len(order') = m + 1 /\ order'[m + 1] = n
      /\ \A j \in 1..m : order'[j] = order[j]
  BY <1>1, <1>2
<1>5. Distinct(order) /\ Holds(order, alloc) /\ Ends(order, head, tail) /\ Chain(order, next, prev)
  BY DEF WellLinked
<1>6. \A j \in 1..m : order[j] \in alloc /\ order[j] # n /\ order[j] \in Nodes /\ order[j] # NULL
  BY <1>1, <1>2, <1>5, ListAssumption DEF Holds
<1>7. Distinct(order')
  BY <1>1, <1>3, <1>5, <1>6 DEF Distinct
<1>8. Holds(order', alloc')
  <2>1. ASSUME NEW x \in alloc PROVE \E j \in 1..(m + 1) : order'[j] = x
    <3>1. PICK j \in 1..m : order[j] = x
      BY <1>5 DEF Holds, TypeOK
    <3> QED BY <1>1, <1>3, <3>1
  <2>2. ASSUME NEW j \in 1..(m + 1) PROVE order'[j] \in alloc'
    BY <1>1, <1>2, <1>3, <1>6
  <2> QED BY <1>1, <1>2, <1>3, <2>1, <2>2 DEF Holds
<1>9. llist_isEmpty <=> m = 0
  BY <1>1, <1>5, <1>6 DEF llist_isEmpty, Ends
<1>10. /\ next \in [Nodes -> Pointers] /\ prev \in [Nodes -> Pointers]
       /\ head \in Pointers /\ tail \in Pointers
  BY DEF TypeOK
<1>11. CASE m = 0
  <2>1. head' = n /\ next' = [next EXCEPT ![n] = NULL] /\ prev' = [prev EXCEPT ![n] = NULL]
    BY <1>9, <1>11 DEF llist_insertlast
  <2>2. Chain(order', next', prev') /\ Ends(order', head', tail')
    BY <1>2, <1>3, <1>10, <1>11, <2>1 DEF Chain, Ends
  <2>3. TypeOK'
    BY <1>2, <1>3, <1>10, <2>1 DEF TypeOK, Pointers, llist_insertlast
  <2> QED BY <1>7, <1>8, <2>2, <2>3 DEF WellLinked
<1>12. CASE m # 0
  <2>1. head' = head /\ prev' = [prev EXCEPT ![n] = tail]
          /\ next' = [next EXCEPT ![n] = NULL, ![tail] = n]
    BY <1>9, <1>12 DEF llist_insertlast
  <2>2. head = order[1] /\ tail = order[m] /\ tail \in Nodes /\ tail # n
    BY <1>1, <1>5, <1>6, <1>12 DEF Ends
  <2>3. Ends(order', head', tail')
    BY <1>1, <1>2, <1>3, <1>12, <2>1, <2>2 DEF Ends
  <2>4. prev'[n] = order'[m] /\ next'[n] = NULL
    BY <1>1, <1>3, <1>10, <1>12, <2>1, <2>2
  <2>5. ASSUME NEW j \in 1..m
        PROVE  /\ next'[order[j]] = IF j = m THEN n ELSE order[j + 1]
               /\ prev'[order[j]] = IF j = 1 THEN NULL ELSE order[j - 1]
    BY <1>1, <1>5, <1>6, <1>10, <2>1, <2>2 DEF Chain, Distinct
  <2>6. Chain(order', next', prev')
    <3> SUFFICES ASSUME NEW j \in 1..(m + 1)
                 PROVE  /\ next'[order'[j]] = IF j = m + 1 THEN NULL ELSE order'[j + 1]
                        /\ prev'[order'[j]] = IF j = 1 THEN NULL ELSE order'[j - 1]
      BY <1>3 DEF Chain
    <3>1. CASE j = m + 1
      <4>1. j - 1 = m /\ j # 1
        BY <1>1, <1>12, <3>1
      <4> QED BY <1>3, <2>4, <3>1, <4>1
    <3>2. CASE j # m + 1
      <4>1. j \in 1..m /\ order'[j] = order[j]
        BY <1>1, <1>3, <3>2
      <4>2. order'[j + 1] = IF j = m THEN n ELSE order[j + 1]
        BY <1>1, <1>3, <4>1
      <4>3. j # 1 => order'[j - 1] = order[j - 1]
        BY <1>1, <1>3, <4>1
      <4> QED BY <2>5, <3>2, <4>1, <4>2, <4>3
    <3> QED BY <3>1, <3>2
  <2>7. TypeOK'
    BY <1>2, <1>3, <1>10, <2>1, <2>2 DEF TypeOK, Pointers, llist_insertlast
  <2> QED BY <1>7, <1>8, <2>3, <2>6, <2>7 DEF WellLinked
<1> QED BY <1>11, <1>12

-----------------------------------------------------------------------------
(* The inductive invariant. *)

LEMMA InitListInv == Init => ListInv
<1> SUFFICES ASSUME Init PROVE ListInv
  OBVIOUS
<1>1. TypeOK
  <2>1. held \in BOOLEAN /\ crashed \in BOOLEAN /\ freeing \in BOOLEAN
    BY Zenon DEF Init
  <2> QED BY <2>1 DEF Init, TypeOK, Pointers
<1>2. order = <<>> /\ Len(order) = 0 /\ alloc = {} /\ head = NULL /\ tail = NULL
  BY DEF Init
<1>3. WellLinked
  BY <1>2 DEF WellLinked, Distinct, Holds, Ends, Chain
<1> QED
  BY <1>1, <1>2, <1>3 DEF ListInv, Init

\* The first node is allocated unless the list is empty.
LEMMA HeadAllocated ==
    ASSUME TypeOK, WellLinked, head # NULL
    PROVE  head \in alloc
<1>1. Len(order) # 0 /\ head = order[1] /\ order \in Seq(Nodes)
  BY DEF WellLinked, Ends, TypeOK
<1>2. 1 \in 1..Len(order) /\ order[1] \in Nodes
  BY <1>1
<1> QED BY <1>1, <1>2 DEF WellLinked, Holds

LEMMA NextListInv == ListInv /\ [Next]_lvars => ListInv'
<1> SUFFICES ASSUME ListInv, [Next]_lvars PROVE ListInv'
  OBVIOUS
<1>0. TypeOK /\ WellLinked /\ (freeing => fpos = head)
  BY DEF ListInv
<1>1. ASSUME NEW n \in Nodes, NEW d \in Data, llist_insertfirst(n, d) PROVE ListInv'
  BY <1>0, <1>1, InsertFirstKeepsLinks DEF llist_insertfirst, Usable, ListInv
<1>2. ASSUME NEW n \in Nodes, NEW d \in Data, llist_insertlast(n, d) PROVE ListInv'
  BY <1>0, <1>2, InsertLastKeepsLinks DEF llist_insertlast, Usable, ListInv
<1>3. ASSUME NEW p \in alloc, Unlink(p), data' = data, held' = held,
             crashed' = crashed, freeing' = freeing, fpos' \in Pointers,
             freeing => fpos' = head'
      PROVE  ListInv'
  <2>1. /\ WellLinked'
        /\ order' \in Seq(Nodes) /\ alloc' \subseteq Nodes
        /\ head' \in Pointers /\ tail' \in Pointers
        /\ next' \in [Nodes -> Pointers] /\ prev' \in [Nodes -> Pointers]
    BY <1>0, <1>3, UnlinkKeepsLinks
  <2>2. TypeOK'
    BY <1>0, <1>3, <2>1 DEF TypeOK
  <2> QED BY <1>3, <2>1, <2>2 DEF ListInv
<1>4. CASE llist_removefirst
  <2>1. CASE ~llist_isEmpty /\ Unlink(head) /\ UNCHANGED crashed
    <3>1. head \in alloc
      BY <1>0, <2>1, HeadAllocated DEF llist_isEmpty
    <3>2. ~freeing /\ fpos' = fpos /\ fpos \in Pointers
      BY <1>0, <1>4 DEF llist_removefirst, Usable, TypeOK
    <3> QED BY <1>3, <1>4, <2>1, <3>1, <3>2 DEF llist_removefirst
  <2>2. CASE crashed' = TRUE /\ UNCHANGED <<head, tail, next, prev, alloc, order>>
    <3>1. crashed' \in BOOLEAN
      BY <2>2
    <3> QED
      BY <1>0, <1>4, <2>2, <3>1 DEF llist_removefirst, ListInv, TypeOK, WellLinked
  <2> QED BY <1>4, <2>1, <2>2 DEF llist_removefirst
<1>5. ASSUME NEW p \in alloc, llist_remove(p) PROVE ListInv'
  <2>1. ~freeing /\ fpos' = fpos /\ fpos \in Pointers
    BY <1>0, <1>5 DEF llist_remove, Usable, TypeOK
  <2> QED BY <1>3, <1>5, <2>1 DEF llist_remove
<1>6. CASE llist_inspect_empty
  <2>1. held' \in BOOLEAN
    BY <1>6 DEF llist_inspect_empty
  <2> QED
    BY <1>0, <1>6, <2>1 DEF llist_inspect_empty, ListInv, TypeOK, WellLinked
<1>7. CASE llist_free
  <2>1. freeing' \in BOOLEAN
    BY <1>7 DEF llist_free
  <2> QED
    BY <1>0, <1>7, <2>1 DEF llist_free, ListInv, TypeOK, WellLinked
<1>8. CASE llist_free_step
  <2>1. fpos = head /\ fpos # NULL /\ Unlink(fpos) /\ fpos' = next[fpos]
    BY <1>0, <1>8 DEF llist_free_step
  <2>2. fpos \in alloc
    BY <1>0, <2>1, HeadAllocated
  <2>3. head' = next[fpos] /\ head' \in Pointers
    BY <1>0, <2>1, <2>2, UnlinkKeepsLinks
  <2> QED BY <1>3, <1>8, <2>1, <2>2, <2>3 DEF llist_free_step
<1>9. CASE UNCHANGED lvars
  BY <1>0, <1>9 DEF lvars, ListInv, TypeOK, WellLinked
<1> QED
  BY <1>1, <1>2, <1>4, <1>5, <1>6, <1>7, <1>8, <1>9 DEF Next

\* Whatever sequence of operations list.c performs, both pointer chains visit
\* exactly the allocated nodes, in the intended order: no operation leaks a
\* node, links a freed one or leaves the chains disagreeing.
THEOREM ListWellLinked == Spec => []WellLinked
<1>1. ListInv => WellLinked
  BY DEF ListInv
<1> QED
  BY <1>1, InitListInv, NextListInv, PTL DEF Spec

-----------------------------------------------------------------------------
(* What list_length returns. *)

\* One round of the loop.
Round(c) ==
    IF c.current = NULL THEN c ELSE [current |-> next[c.current], count |-> c.count + 1]

\* The recursion that defines Counting has a solution: it is the one that stands
\* at the node after the first k, and has counted them.
LEMMA CountingEquation ==
    ASSUME TypeOK, WellLinked
    PROVE  Counting = [k \in Nat |-> IF k = 0 THEN [current |-> head, count |-> 0]
                                              ELSE Round(Counting[k - 1])]
<1> DEFINE n == Len(order)
           At(k) == [current |-> IF k < n THEN order[k + 1] ELSE NULL,
                     count |-> IF k < n THEN k ELSE n]
           f == [k \in Nat |-> At(k)]
           F(g) == [k \in Nat |-> IF k = 0 THEN [current |-> head, count |-> 0]
                                           ELSE Round(g[k - 1])]
<1>1. n \in Nat /\ order \in Seq(Nodes)
  BY DEF TypeOK
<1>2. At(0) = [current |-> head, count |-> 0]
  BY <1>1 DEF WellLinked, Ends
<1>3. ASSUME NEW k \in Nat, k # 0 PROVE At(k) = Round(At(k - 1))
  <2>1. CASE k - 1 < n
    <3>1. k \in 1..n /\ (k - 1) + 1 = k /\ k - 1 < n
      BY <1>1, <1>3, <2>1
    <3>2. order[k] # NULL /\ next[order[k]] = IF k = n THEN NULL ELSE order[k + 1]
      BY <1>1, <3>1, ListAssumption DEF WellLinked, Chain
    <3>3. At(k - 1) = [current |-> order[k], count |-> k - 1]
      BY <3>1
    <3>4. At(k) = [current |-> IF k = n THEN NULL ELSE order[k + 1], count |-> k]
      BY <1>1, <3>1
    <3> QED BY <3>1, <3>2, <3>3, <3>4 DEF Round
  <2>2. CASE ~(k - 1 < n)
    BY <1>1, <1>3, <2>2 DEF Round
  <2> QED BY <2>1, <2>2
<1>4. f = F(f)
  <2>1. \A k \in Nat : k # 0 => k - 1 \in Nat
    OBVIOUS
  <2> HIDE DEF At
  <2> QED BY <1>2, <1>3, <2>1
<1>5. Counting = CHOOSE g : g = F(g)
  BY DEF Counting, Round
<1> HIDE DEF f, F
<1>6. Counting = F(Counting)
  BY <1>4, <1>5
<1> QED BY <1>6 DEF F

\* After k rounds the loop has counted the first k nodes and stands at the next.
LEMMA CountingAt ==
    ASSUME TypeOK, WellLinked, NEW m \in Nat
    PROVE  Counting[m] = [current |-> IF m < Len(order) THEN order[m + 1] ELSE NULL,
                          count |-> IF m < Len(order) THEN m ELSE Len(order)]
<1> DEFINE n == Len(order)
           At(k) == [current |-> IF k < n THEN order[k + 1] ELSE NULL,
                     count |-> IF k < n THEN k ELSE n]
           S == {k \in Nat : Counting[k] = At(k)}
<1>1. n \in Nat /\ order \in Seq(Nodes)
  BY DEF TypeOK
<1>2. \A k \in Nat : Counting[k] = IF k = 0 THEN [current |-> head, count |-> 0]
                                            ELSE Round(Counting[k - 1])
  BY CountingEquation
<1>3. 0 \in S
  BY <1>1, <1>2 DEF WellLinked, Ends
<1>4. ASSUME NEW k \in S PROVE k + 1 \in S
  <2>1. Counting[k + 1] = Round(At(k)) /\ k \in Nat
    BY <1>2, <1>4
  <2>2. CASE k < n
    <3>1. k + 1 \in 1..n /\ order[k + 1] # NULL
      BY <1>1, <2>1, <2>2, ListAssumption
    <3>2. next[order[k + 1]] = IF k + 1 = n THEN NULL ELSE order[(k + 1) + 1]
      BY <3>1 DEF WellLinked, Chain
    <3>3. Round(At(k)) = [current |-> next[order[k + 1]], count |-> k + 1]
      BY <2>2, <3>1 DEF Round
    <3>4. At(k + 1) = [current |-> IF k + 1 = n THEN NULL ELSE order[(k + 1) + 1], count |-> k + 1]
      BY <1>1, <2>1, <2>2
    <3> QED BY <2>1, <3>2, <3>3, <3>4
  <2>3. CASE ~(k < n)
    BY <1>1, <2>1, <2>3 DEF Round
  <2> QED BY <2>2, <2>3
<1>5. S = Nat
  <2> HIDE DEF S
  <2>1. S \in SUBSET Nat
    BY DEF S
  <2> QED BY <1>3, <1>4, <2>1, SetInduction
<1> QED BY <1>5

LEMMA NodesSuffice ==
    ASSUME TypeOK, WellLinked
    PROVE  Len(order) <= Cardinality(Nodes) /\ Cardinality(Nodes) \in Nat
<1>1. Len(order) \in Nat /\ order \in [1..Len(order) -> Nodes]
  BY DEF TypeOK
<1>2. order \in Injection(1..Len(order), Nodes)
  BY <1>1 DEF WellLinked, Distinct, Injection, IsInjective
<1>3. Cardinality(1..Len(order)) <= Cardinality(Nodes)
  BY <1>2, FS_Injection, ListAssumption
<1>4. Cardinality(1..Len(order)) = Len(order)
  <2>1. 1 \in Int /\ Len(order) \in Int
    BY <1>1
  <2>2. Cardinality(1..Len(order)) = IF 1 > Len(order) THEN 0 ELSE Len(order) - 1 + 1
    BY <2>1, FS_Interval, Zenon
  <2> QED BY <1>1, <2>2
<1> QED BY <1>3, <1>4, FS_CardinalityType, ListAssumption

LEMMA LengthAlong == ASSUME TypeOK, WellLinked PROVE list_length = Len(order)
<1>1. /\ Len(order) \in Nat /\ Cardinality(Nodes) \in Nat
      /\ ~(Cardinality(Nodes) < Len(order)) \/ Cardinality(Nodes) = Len(order)
  BY NodesSuffice DEF TypeOK
<1>2. ~(Cardinality(Nodes) < Len(order))
  BY <1>1
<1>3. Counting[Cardinality(Nodes)] = [current |-> NULL, count |-> Len(order)]
  BY <1>1, <1>2, CountingAt
<1> QED BY <1>3 DEF list_length

\* list_length returns the number of nodes that were put into the list and not
\* taken out again.
THEOREM ListLengthCorrect == Spec => []LengthCorrect
<1>1. ListInv => LengthCorrect
  BY LengthAlong DEF LengthCorrect, ListInv
<1> QED BY <1>1, InitListInv, NextListInv, PTL DEF Spec

-----------------------------------------------------------------------------
(* The list implements the abstract sequence: first for the data along the *)
(* intended order, then for what the walk along the pointers finds.        *)

Along == [i \in DOMAIN order |-> data[order[i]]]
OrderADT == INSTANCE ListADT WITH list <- Along, inuse <- Cardinality(alloc)

\* Taking one of the finitely many nodes into use, and giving one back.
LEMMA InUse ==
    ASSUME TypeOK, NEW n \in Nodes
    PROVE  /\ n \notin alloc => Cardinality(alloc \cup {n}) = Cardinality(alloc) + 1
           /\ n \in alloc => Cardinality(alloc \ {n}) = Cardinality(alloc) - 1
<1>1. IsFiniteSet(alloc)
  BY FS_Subset, ListAssumption DEF TypeOK
<1>2. Cardinality(alloc) \in Nat
  BY <1>1, FS_CardinalityType
<1>3. n \notin alloc => Cardinality(alloc \cup {n}) = Cardinality(alloc) + 1
  BY <1>1, FS_AddElement
<1>4. n \in alloc => Cardinality(alloc \ {n}) = Cardinality(alloc) - 1
  BY <1>1, FS_RemoveElement
<1> QED BY <1>3, <1>4

LEMMA SameSequence ==
    ASSUME NEW s \in Seq(Data), NEW t \in Seq(Data), Len(s) = Len(t),
           \A i \in 1..Len(s) : s[i] = t[i]
    PROVE  s = t
  OBVIOUS

LEMMA ContentsType ==
    ASSUME TypeOK
    PROVE  /\ Along \in Seq(Data)
           /\ Len(Along) = Len(order)
           /\ \A i \in 1..Len(order) : Along[i] = data[order[i]]
<1>1. order \in Seq(Nodes) /\ Len(order) \in Nat /\ DOMAIN order = 1..Len(order)
  BY DEF TypeOK
<1>2. ASSUME NEW i \in 1..Len(order) PROVE data[order[i]] \in Data
  <2>1. order[i] \in Nodes
    BY <1>1
  <2> QED BY <2>1 DEF TypeOK
<1>3. Along = [i \in 1..Len(order) |-> data[order[i]]]
  BY <1>1 DEF Along
<1>4. Along \in [1..Len(order) -> Data]
  BY <1>2, <1>3
<1>5. Along \in Seq(Data) /\ Len(Along) = Len(order)
  BY ONLY <1>1, <1>4
<1> QED BY <1>3, <1>5

LEMMA ContentsOfUnlink ==
    ASSUME TypeOK, WellLinked, TypeOK', NEW p \in alloc, Unlink(p), data' = data
    PROVE  OrderADT!RemoveAt
<1>0. PICK i \in 1..Len(order) : Position(p) = i /\ order[i] = p
  BY PositionOf
<1>1. order' = Remove(order, i) /\ order \in Seq(Nodes) /\ Len(order) \in Nat
  BY <1>0 DEF Unlink, TypeOK
<1>2. /\ Len(order') = Len(order) - 1
      /\ \A j \in 1..(Len(order) - 1) : order'[j] = IF j < i THEN order[j] ELSE order[j + 1]
  BY <1>1, RemoveProperties
<1>3. /\ Along \in Seq(Data) /\ Len(Along) = Len(order)
      /\ \A j \in 1..Len(order) : Along[j] = data[order[j]]
  BY ContentsType
<1>4. /\ Along' \in Seq(Data) /\ Len(Along') = Len(order')
      /\ \A j \in 1..Len(order') : Along'[j] = data[order'[j]]
  BY DEF Along, TypeOK
<1>5. /\ Remove(Along, i) \in Seq(Data)
      /\ Len(Remove(Along, i)) = Len(order) - 1
      /\ \A j \in 1..(Len(order) - 1) :
            Remove(Along, i)[j] = IF j < i THEN Along[j] ELSE Along[j + 1]
  BY <1>1, <1>3, RemoveProperties
<1>6. ASSUME NEW j \in 1..(Len(order) - 1) PROVE Along'[j] = Remove(Along, i)[j]
  <2>1. j \in 1..Len(order) /\ j + 1 \in 1..Len(order)
    BY <1>1
  <2>2. Along'[j] = data[order'[j]]
    BY <1>1, <1>2, <1>4
  <2>3. CASE j < i
    BY <1>2, <1>3, <1>5, <2>1, <2>2, <2>3
  <2>4. CASE ~(j < i)
    BY <1>2, <1>3, <1>5, <2>1, <2>2, <2>4
  <2> QED BY <2>3, <2>4
<1>7. Along' = Remove(Along, i)
  BY <1>2, <1>4, <1>5, <1>6, SameSequence
<1> QED
  <2>1. Cardinality(alloc') = Cardinality(alloc) - 1
    <3>1. alloc' = alloc \ {p} /\ p \in Nodes
      BY DEF Unlink, TypeOK
    <3> QED BY <3>1, InUse
  <2> QED BY <1>3, <1>7, <2>1 DEF OrderADT!RemoveAt, Remove

LEMMA NextAlong ==
    ListInv /\ ListInv' /\ [Next]_lvars => OrderADT!ListNext \/ (Along' = Along /\ alloc' = alloc)
<1> SUFFICES ASSUME ListInv, ListInv', [Next]_lvars
             PROVE  OrderADT!ListNext \/ (Along' = Along /\ alloc' = alloc)
  OBVIOUS
<1>0. TypeOK /\ WellLinked /\ TypeOK' /\ (freeing => fpos = head)
  BY DEF ListInv
<1>a. /\ Along \in Seq(Data) /\ Len(Along) = Len(order)
      /\ \A j \in 1..Len(order) : Along[j] = data[order[j]]
  BY <1>0, ContentsType
<1>b. /\ Along' \in Seq(Data) /\ Len(Along') = Len(order')
      /\ \A j \in 1..Len(order') : Along'[j] = data'[order'[j]]
  BY <1>0 DEF Along, TypeOK
<1>c. order \in Seq(Nodes) /\ Len(order) \in Nat
  BY <1>0 DEF TypeOK
\* A node that is not allocated is not in the list, so that writing its data
\* field changes nothing the callers see.
<1>d. ASSUME NEW n \in Nodes, NEW d \in Data, n \notin alloc,
             data' = [data EXCEPT ![n] = d]
      PROVE  data'[n] = d /\ \A j \in 1..Len(order) : data'[order[j]] = Along[j]
  BY <1>0, <1>a, <1>c, <1>d DEF WellLinked, Holds, TypeOK
<1>1. ASSUME NEW n \in Nodes, NEW d \in Data, llist_insertfirst(n, d)
      PROVE  OrderADT!InsertFirst
  <2>1. order' = <<n>> \o order /\ n \notin alloc /\ data' = [data EXCEPT ![n] = d]
    BY <1>1 DEF llist_insertfirst
  <2>2. Len(order') = Len(order) + 1 /\ order'[1] = n
          /\ \A j \in 1..Len(order) : order'[j + 1] = order[j]
    BY <1>c, <2>1
  <2>3. /\ <<d>> \o Along \in Seq(Data) /\ Len(<<d>> \o Along) = Len(order) + 1
        /\ (<<d>> \o Along)[1] = d
        /\ \A j \in 1..Len(order) : (<<d>> \o Along)[j + 1] = Along[j]
    BY <1>a, <1>c
  <2>4. ASSUME NEW j \in 1..(Len(order) + 1) PROVE Along'[j] = (<<d>> \o Along)[j]
    <3>1. CASE j = 1
      <4>1. j \in 1..Len(order')
        BY <1>c, <2>2
      <4>2. data'[n] = d
        BY <1>d, <2>1
      <4>3. Along'[j] = data'[order'[j]]
        BY <1>b, <4>1
      <4> QED BY <2>2, <2>3, <3>1, <4>2, <4>3
    <3>2. CASE j # 1
      <4>1. PICK k \in 1..Len(order) : j = k + 1
        BY <1>c, <3>2
      <4>2. Along'[j] = data'[order[k]]
        BY <1>b, <2>2, <4>1
      <4> QED BY <1>d, <2>1, <2>3, <4>1, <4>2
    <3> QED BY <3>1, <3>2
  <2>5. Along' = <<d>> \o Along
    BY <1>b, <2>2, <2>3, <2>4, SameSequence
  <2>6. Cardinality(alloc') = Cardinality(alloc) + 1
    BY <1>0, <1>1, <2>1, InUse DEF llist_insertfirst
  <2> QED BY <2>5, <2>6 DEF OrderADT!InsertFirst, OrderADT!Insert
<1>2. ASSUME NEW n \in Nodes, NEW d \in Data, llist_insertlast(n, d)
      PROVE  OrderADT!InsertLast
  <2>1. order' = Append(order, n) /\ n \notin alloc /\ data' = [data EXCEPT ![n] = d]
    BY <1>2 DEF llist_insertlast
  <2>2. Len(order') = Len(order) + 1 /\ order'[Len(order) + 1] = n
          /\ \A j \in 1..Len(order) : order'[j] = order[j]
    BY <1>c, <2>1
  <2>3. /\ Append(Along, d) \in Seq(Data) /\ Len(Append(Along, d)) = Len(order) + 1
        /\ Append(Along, d)[Len(order) + 1] = d
        /\ \A j \in 1..Len(order) : Append(Along, d)[j] = Along[j]
    BY <1>a, <1>c
  <2>4. ASSUME NEW j \in 1..(Len(order) + 1) PROVE Along'[j] = Append(Along, d)[j]
    <3>1. CASE j = Len(order) + 1
      <4>1. j \in 1..Len(order')
        BY <1>c, <2>2
      <4>2. data'[n] = d
        BY <1>d, <2>1
      <4>3. Along'[j] = data'[order'[j]]
        BY <1>b, <4>1
      <4> QED BY <2>2, <2>3, <3>1, <4>2, <4>3
    <3>2. CASE j # Len(order) + 1
      <4>1. j \in 1..Len(order)
        BY <1>c, <3>2
      <4>2. Along'[j] = data'[order[j]]
        BY <1>b, <2>2, <4>1
      <4> QED BY <1>d, <2>1, <2>3, <4>1, <4>2
    <3> QED BY <3>1, <3>2
  <2>5. Along' = Append(Along, d)
    BY <1>b, <2>2, <2>3, <2>4, SameSequence
  <2>6. Cardinality(alloc') = Cardinality(alloc) + 1
    BY <1>0, <1>2, <2>1, InUse DEF llist_insertlast
  <2> QED BY <2>5, <2>6 DEF OrderADT!InsertLast, OrderADT!Insert
<1>3. CASE llist_removefirst
  <2>1. CASE ~llist_isEmpty /\ Unlink(head)
    BY <1>0, <1>3, <2>1, HeadAllocated, ContentsOfUnlink
       DEF llist_removefirst, llist_isEmpty, OrderADT!ListNext
  <2>2. CASE UNCHANGED <<head, tail, next, prev, alloc, order>>
    BY <1>3, <2>2 DEF llist_removefirst, Along
  <2> QED BY <1>3, <2>1, <2>2 DEF llist_removefirst
<1>4. ASSUME NEW p \in alloc, llist_remove(p) PROVE OrderADT!ListNext
  BY <1>0, <1>4, ContentsOfUnlink DEF llist_remove, OrderADT!ListNext
<1>5. CASE llist_inspect_empty
  BY <1>5 DEF llist_inspect_empty, Along
<1>6. CASE llist_free
  BY <1>6 DEF llist_free, Along
<1>7. CASE llist_free_step
  <2>1. fpos \in alloc
    BY <1>0, <1>7, HeadAllocated DEF llist_free_step
  <2> QED BY <1>0, <1>7, <2>1, ContentsOfUnlink DEF llist_free_step, OrderADT!ListNext
<1>8. CASE UNCHANGED lvars
  BY <1>8 DEF lvars, Along
<1> QED
  BY <1>1, <1>2, <1>3, <1>4, <1>5, <1>6, <1>7, <1>8 DEF Next, OrderADT!ListNext

\* The walk along the next pointers finds the data along the intended order.
LEMMA ContentsAlong == ListInv => Contents = Along
<1> SUFFICES ASSUME ListInv PROVE Contents = Along
  OBVIOUS
<1>1. TypeOK /\ WellLinked
  BY DEF ListInv
<1>2. Len(order) \in Nat /\ DOMAIN order = 1..Len(order) /\ list_length = Len(order)
  BY <1>1, LengthAlong DEF TypeOK
<1>3. ASSUME NEW i \in 1..Len(order) PROVE Counting[i - 1].current = order[i]
  <2>1. i - 1 \in Nat /\ i - 1 < Len(order) /\ (i - 1) + 1 = i
    BY <1>2
  <2>2. Counting[i - 1] = [current |-> order[i], count |-> i - 1]
    BY <1>1, <2>1, CountingAt
  <2> QED BY <2>2
<1> QED BY <1>2, <1>3 DEF Contents, Along

LEMMA ContentsAlongNext == ListInv' => (Contents = Along)'
  BY ContentsAlong, PTL

LEMMA NextImplements ==
    ListInv /\ ListInv' /\ [Next]_lvars => [ADT!ListNext]_<<Contents, Cardinality(alloc)>>
<1> SUFFICES ASSUME ListInv, ListInv', [Next]_lvars
             PROVE  [ADT!ListNext]_<<Contents, Cardinality(alloc)>>
  OBVIOUS
<1>1. Contents = Along /\ (Contents = Along)'
  BY ContentsAlong, ContentsAlongNext
<1>2. OrderADT!ListNext \/ (Along' = Along /\ alloc' = alloc)
  BY NextAlong
<1> QED
  BY <1>1, <1>2
     DEF ADT!ListNext, ADT!InsertFirst, ADT!InsertLast, ADT!Insert, ADT!RemoveAt,
         OrderADT!ListNext, OrderADT!InsertFirst, OrderADT!InsertLast,
         OrderADT!Insert, OrderADT!RemoveAt

\* The pointer manipulations of list.c implement a sequence: what a caller finds
\* who walks along the next pointers changes, with every operation, as an
\* operation of ListADT says, and so does the number of nodes in use.
THEOREM ListImplementsADT == Spec => ImplementsListADT
<1>1. Init => ADT!ListInit
  <2> SUFFICES ASSUME Init PROVE Contents = <<>> /\ Cardinality(alloc) = 0
    BY DEF ADT!ListInit
  <2>1. order = <<>> /\ alloc = {} /\ Contents = Along
    BY InitListInv, ContentsAlong DEF Init
  <2>2. Cardinality(alloc) = 0
    BY <2>1, FS_EmptySet
  <2> QED BY <2>1, <2>2 DEF Along
<1> QED
  BY <1>1, InitListInv, NextListInv, NextImplements, PTL
     DEF Spec, ImplementsListADT, ADT!ListSpec

-----------------------------------------------------------------------------
(* What llist_free gives back. *)

\* Whenever llist_free is under way it stands at the first node that is left,
\* and when it has no node to go on with it has given all of them back.
THEOREM ListFreeComplete == Spec => []FreeComplete
<1>1. ListInv => FreeComplete
  <2> SUFFICES ASSUME ListInv, freeing PROVE fpos = head /\ (fpos = NULL => alloc = {})
    BY DEF FreeComplete
  <2>1. fpos = head /\ TypeOK /\ WellLinked
    BY DEF ListInv
  <2>2. head = NULL => alloc = {}
    <3> SUFFICES ASSUME head = NULL, NEW n \in alloc PROVE FALSE
      OBVIOUS
    <3>1. PICK i \in 1..Len(order) : order[i] = n
      BY <2>1 DEF TypeOK, WellLinked, Holds
    <3>2. order[1] = NULL /\ Len(order) \in Nat /\ 1 \in 1..Len(order) /\ order \in Seq(Nodes)
      BY <2>1, <3>1 DEF TypeOK, WellLinked, Ends
    <3> QED BY <3>2, ListAssumption
  <2> QED BY <2>1, <2>2
<1> QED BY <1>1, InitListInv, NextListInv, PTL DEF Spec
=============================================================================
