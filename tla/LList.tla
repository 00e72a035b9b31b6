------------------------------- MODULE LList -------------------------------
(***************************************************************************)
(* The doubly linked list of OU4/Resources/list.c at the level of its      *)
(* pointers.  Every operation holds the list's mutex from its first to its *)
(* last access, so one operation is one step.  head is the next field of   *)
(* the head node and tail the previous field of the tail node; nodes come  *)
(* from and go back to the allocator.                                      *)
(*                                                                         *)
(* order is a history variable: the nodes in the order the operations were *)
(* meant to give them, and the invariant says that the pointers agree with *)
(* it.  The refinement does without it: what list_length's walk along the  *)
(* next pointers finds is a ListADT.                                       *)
(***************************************************************************)
EXTENDS Integers, Sequences, FiniteSets

CONSTANTS
    Nodes,   \* addresses calloc can return (the bound on the list's length)
    Data,    \* what callers store
    NULL

ASSUME ListAssumption == NULL \notin Nodes /\ IsFiniteSet(Nodes)

VARIABLES
    head, tail,   \* l->head->next and l->tail->previous
    next, prev,   \* the fields of every node
    data,
    alloc,        \* nodes that are allocated
    held,         \* the mutex was left locked
    crashed,      \* a null pointer was followed
    freeing,      \* llist_free is under way ...
    fpos,         \* ... at this position
    order         \* history: the nodes from first to last

lvars == <<head, tail, next, prev, data, alloc, held, crashed, freeing, fpos, order>>

Pointers == Nodes \cup {NULL}

TypeOK ==
    /\ head \in Pointers /\ tail \in Pointers
    /\ next \in [Nodes -> Pointers] /\ prev \in [Nodes -> Pointers]
    /\ data \in [Nodes -> Data]
    /\ alloc \subseteq Nodes
    /\ held \in BOOLEAN /\ crashed \in BOOLEAN /\ freeing \in BOOLEAN
    /\ fpos \in Pointers
    /\ order \in Seq(Nodes)

\* llist_empty
Init ==
    /\ head = NULL /\ tail = NULL
    /\ next = [n \in Nodes |-> NULL] /\ prev = [n \in Nodes |-> NULL]
    /\ data \in [Nodes -> Data]
    /\ alloc = {}
    /\ held = FALSE /\ crashed = FALSE /\ freeing = FALSE
    /\ fpos = NULL
    /\ order = <<>>

llist_isEmpty == head = NULL

Remove(s, i) == SubSeq(s, 1, i - 1) \o SubSeq(s, i + 1, Len(s))
Position(p) == CHOOSE i \in 1..Len(order) : order[i] = p

\* The mutex can be taken and the caller is still alive.
Usable == ~held /\ ~crashed /\ ~freeing

-----------------------------------------------------------------------------
\* Mutant of llist_insertfirst: the old first node does not point back.
llist_insertfirst_nolink(n, d) ==
    /\ Usable /\ n \notin alloc
    /\ alloc' = alloc \cup {n}
    /\ data' = [data EXCEPT ![n] = d]
    /\ head' = n
    /\ tail' = IF llist_isEmpty THEN n ELSE tail
    /\ next' = [next EXCEPT ![n] = head]
    /\ prev' = [prev EXCEPT ![n] = NULL]
    /\ order' = <<n>> \o order
    /\ UNCHANGED <<held, crashed, freeing, fpos>>

llist_insertfirst(n, d) ==
    /\ Usable /\ n \notin alloc
    /\ alloc' = alloc \cup {n}
    /\ data' = [data EXCEPT ![n] = d]
    /\ head' = n
    /\ \/ /\ llist_isEmpty
          /\ tail' = n
          /\ next' = [next EXCEPT ![n] = NULL]
          /\ prev' = [prev EXCEPT ![n] = NULL]
       \/ /\ ~llist_isEmpty
          /\ next' = [next EXCEPT ![n] = head]
          /\ prev' = [prev EXCEPT ![n] = NULL, ![head] = n]
          /\ UNCHANGED tail
    /\ order' = <<n>> \o order
    /\ UNCHANGED <<held, crashed, freeing, fpos>>

\* Mutant of llist_insertlast: the old last node does not point to the new one.
llist_insertlast_nolink(n, d) ==
    /\ Usable /\ n \notin alloc
    /\ alloc' = alloc \cup {n}
    /\ data' = [data EXCEPT ![n] = d]
    /\ tail' = n
    /\ head' = IF llist_isEmpty THEN n ELSE head
    /\ prev' = [prev EXCEPT ![n] = tail]
    /\ next' = [next EXCEPT ![n] = NULL]
    /\ order' = Append(order, n)
    /\ UNCHANGED <<held, crashed, freeing, fpos>>

llist_insertlast(n, d) ==
    /\ Usable /\ n \notin alloc
    /\ alloc' = alloc \cup {n}
    /\ data' = [data EXCEPT ![n] = d]
    /\ tail' = n
    /\ \/ /\ llist_isEmpty
          /\ head' = n
          /\ next' = [next EXCEPT ![n] = NULL]
          /\ prev' = [prev EXCEPT ![n] = NULL]
       \/ /\ ~llist_isEmpty
          /\ prev' = [prev EXCEPT ![n] = tail]
          /\ next' = [next EXCEPT ![n] = NULL, ![tail] = n]
          /\ UNCHANGED head
    /\ order' = Append(order, n)
    /\ UNCHANGED <<held, crashed, freeing, fpos>>

\* The four cases by which llist_remove and the llist_removefirst functions
\* take the node at p out of the chain before they free it.
Unlink(p) ==
    /\ \/ /\ next[p] # NULL /\ prev[p] # NULL
          /\ next' = [next EXCEPT ![prev[p]] = next[p]]
          /\ prev' = [prev EXCEPT ![next[p]] = prev[p]]
          /\ UNCHANGED <<head, tail>>
       \/ /\ next[p] = NULL /\ prev[p] = NULL
          /\ tail' = prev[p]
          /\ head' = next[p]
          /\ UNCHANGED <<next, prev>>
       \/ /\ next[p] = NULL /\ prev[p] # NULL
          /\ tail' = prev[p]
          /\ next' = [next EXCEPT ![prev[p]] = NULL]
          /\ UNCHANGED <<head, prev>>
       \/ /\ next[p] # NULL /\ prev[p] = NULL
          /\ head' = next[p]
          /\ prev' = [prev EXCEPT ![next[p]] = NULL]
          /\ UNCHANGED <<tail, next>>
    /\ alloc' = alloc \ {p}
    /\ order' = Remove(order, Position(p))

\* llist_removefirst, llist_removefirst_INT and llist_removefirst_PDU differ
\* only in what they do with the data.  None of them tests for an empty list.
llist_removefirst ==
    /\ Usable
    /\ \/ ~llist_isEmpty /\ Unlink(head) /\ UNCHANGED crashed
       \/ llist_isEmpty /\ crashed' = TRUE /\ UNCHANGED <<head, tail, next, prev, alloc, order>>
    /\ UNCHANGED <<data, held, freeing, fpos>>

\* llist_remove at a position the caller got from the list.
llist_remove(p) ==
    /\ Usable /\ ~llist_isEmpty
    /\ Unlink(p)
    /\ UNCHANGED <<data, held, crashed, freeing, fpos>>

\* llist_inspect on an empty list returns without unlocking the mutex.
llist_inspect_empty ==
    /\ Usable /\ llist_isEmpty
    /\ held' = TRUE
    /\ UNCHANGED <<head, tail, next, prev, data, alloc, crashed, freeing, fpos, order>>

\* The loop of list_length after k rounds.
Counting[k \in Nat] ==
    IF k = 0
    THEN [current |-> head, count |-> 0]
    ELSE LET c == Counting[k - 1]
         IN  IF c.current = NULL
             THEN c
             ELSE [current |-> next[c.current], count |-> c.count + 1]

\* Mutant of list_length: the loop stops at the last node.
list_length_short ==
    IF llist_isEmpty THEN 0 ELSE Counting[Cardinality(Nodes)].count - 1

\* list_length: the count when the loop has come to NULL.  A walk along the next
\* pointers that comes to NULL at all does so within one round for each node.
list_length == Counting[Cardinality(Nodes)].count

\* Mutant of llist_free: the loop starts at the last node.
llist_free_last ==
    /\ Usable
    /\ freeing' = TRUE
    /\ fpos' = tail
    /\ UNCHANGED <<head, tail, next, prev, data, alloc, held, crashed, order>>

\* llist_free: remove node after node, going on at the position llist_remove
\* returns.
llist_free ==
    /\ Usable
    /\ freeing' = TRUE
    /\ fpos' = head
    /\ UNCHANGED <<head, tail, next, prev, data, alloc, held, crashed, order>>

\* Mutant of llist_free_step: llist_remove returns the position before.
llist_free_step_back ==
    /\ freeing /\ fpos # NULL
    /\ Unlink(fpos)
    /\ fpos' = prev[fpos]
    /\ UNCHANGED <<data, held, crashed, freeing>>

llist_free_step ==
    /\ freeing /\ fpos # NULL
    /\ Unlink(fpos)
    /\ fpos' = next[fpos]
    /\ UNCHANGED <<data, held, crashed, freeing>>

Next ==
    \/ \E n \in Nodes, d \in Data : llist_insertfirst(n, d) \/ llist_insertlast(n, d)
    \/ llist_removefirst
    \/ \E p \in alloc : llist_remove(p)
    \/ llist_inspect_empty
    \/ llist_free \/ llist_free_step

Spec == Init /\ [][Next]_lvars /\ WF_lvars(llist_free_step)

-----------------------------------------------------------------------------
(* Correctness. *)

Distinct(s) == \A i, j \in 1..Len(s) : s[i] = s[j] => i = j

\* The pointers nx and pv lead along s, forwards and backwards.
Chain(s, nx, pv) ==
    \A i \in 1..Len(s) :
        /\ nx[s[i]] = IF i = Len(s) THEN NULL ELSE s[i + 1]
        /\ pv[s[i]] = IF i = 1 THEN NULL ELSE s[i - 1]

Ends(s, h, t) ==
    /\ h = IF Len(s) = 0 THEN NULL ELSE s[1]
    /\ t = IF Len(s) = 0 THEN NULL ELSE s[Len(s)]

Holds(s, a) == \A n \in Nodes : n \in a <=> \E i \in 1..Len(s) : s[i] = n

\* The chain of next pointers from head and the chain of previous pointers from
\* tail both visit exactly the allocated nodes, in the order the operations
\* were meant to give them and backwards.
WellLinked ==
    /\ Distinct(order)
    /\ Holds(order, alloc)
    /\ Ends(order, head, tail)
    /\ Chain(order, next, prev)

\* What the proof that the list stays well linked rests on: llist_free always
\* stands at the first node that is left.
ListInv == TypeOK /\ WellLinked /\ (freeing => fpos = head)

\* The list as its callers see it when they walk from llist_first along the next
\* pointers, and the memory it holds, behave as ListADT says: every insertion
\* shows up at its end and takes one node, every removal takes one element out,
\* keeps the others in their order and gives one node back.
Contents == [i \in 1..list_length |-> data[Counting[i - 1].current]]
ADT == INSTANCE ListADT WITH list <- Contents, inuse <- Cardinality(alloc)
ImplementsListADT == ADT!ListSpec

\* llist_free gives every node back exactly once, and ends.
FreeComplete == freeing => (fpos = head /\ (fpos = NULL => alloc = {}))
FreeEnds == freeing ~> alloc = {}

\* list_length returns the number of elements: the loop neither misses a node
\* nor runs on after the last one.
LengthCorrect == list_length = Len(order)
=============================================================================
