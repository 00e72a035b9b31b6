------------------------------ MODULE ListADT ------------------------------
(***************************************************************************)
(* What the callers of OU4/Resources/list.c rely on: a list is a sequence  *)
(* that is inserted into at either end, taken from at the front, and from  *)
(* which the element at a position can be removed.  It holds memory for    *)
(* exactly the elements inserted and not yet removed.                      *)
(***************************************************************************)
EXTENDS Naturals, Sequences

CONSTANT Data

VARIABLES
    list,    \* the elements from first to last
    inuse    \* how many nodes the list holds

ListInit == list = <<>> /\ inuse = 0

Insert == inuse' = inuse + 1
InsertFirst == \E d \in Data : list' = <<d>> \o list /\ Insert
InsertLast == \E d \in Data : list' = Append(list, d) /\ Insert
RemoveAt ==
    /\ \E i \in 1..Len(list) :
           list' = SubSeq(list, 1, i - 1) \o SubSeq(list, i + 1, Len(list))
    /\ inuse' = inuse - 1

ListNext == InsertFirst \/ InsertLast \/ RemoveAt

ListSpec == ListInit /\ [][ListNext]_<<list, inuse>>
=============================================================================
