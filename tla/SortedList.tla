----------------------------- MODULE SortedList -----------------------------
(***************************************************************************)
(* What a counted tree promises (tree234.h): a list, sorted or not, to     *)
(* which elements are added, by value or by place, and from which they are *)
(* deleted by place.                                                       *)
(***************************************************************************)
EXTENDS Integers, SequencesExt

CONSTANT Elements

VARIABLES
    sorted,  \* the tree has a comparison function
    list

LInit == sorted \in BOOLEAN /\ list = <<>>

Smaller(e) == Len(SelectSeq(list, LAMBDA x : x < e))

AddSorted(e) ==
    /\ sorted
    /\ list' = IF Contains(list, e) THEN list ELSE InsertAt(list, Smaller(e) + 1, e)
AddAtPlace(i, e) ==
    ~sorted /\ i \in 0..Len(list) /\ list' = InsertAt(list, i + 1, e)
DeletePlace(i) ==
    i \in 0..Len(list) - 1 /\ list' = RemoveAt(list, i + 1)

LNext ==
    /\ UNCHANGED sorted
    /\ \/ \E e \in Elements : AddSorted(e)
       \/ \E i \in 0..Len(list), e \in Elements : AddAtPlace(i, e)
       \/ \E i \in 0..Len(list) - 1 : DeletePlace(i)
LSpec == LInit /\ [][LNext]_<<sorted, list>>
=============================================================================
