------------------------------ MODULE Tree234 ------------------------------
(***************************************************************************)
(* The counted 2-3-4 trees of tree234.c.  A node has one to three elements *)
(* and, unless it is a leaf, one child more, with the number of elements   *)
(* below each child stored beside it.  A tree is <<>> or <<root>>.         *)
(* Positions count from 0, as in the code.                                 *)
(***************************************************************************)
EXTENDS Integers, SequencesExt

CONSTANTS
    Sorted,    \* elements of a sorted tree
    Unsorted,  \* elements of an unsorted tree, which may hold one twice
    MaxElems   \* bound: elements in an unsorted tree

VARIABLES
    ordered,   \* cmp is given
    tree

tvars == <<ordered, tree>>

Node(kids, counts, elems) == [kids |-> kids, counts |-> counts, elems |-> elems]
Leaf(elems) == Node(<<>>, <<>>, elems)
IsLeaf(n) == n.kids = <<>>
Sum(counts) == FoldLeft(+, 0, counts)
\* countnode234, count234.
CountNode(n) == Sum(n.counts) + Len(n.elems)
Count(t) == IF t = <<>> THEN 0 ELSE CountNode(t[1])
Below(n, k) == IF IsLeaf(n) THEN 0 ELSE n.counts[k + 1]
LastOf(s) == IF s = <<>> THEN <<>> ELSE <<Last(s)>>
HeadOf(s) == IF s = <<>> THEN <<>> ELSE <<Head(s)>>
FrontOf(s) == IF s = <<>> THEN <<>> ELSE Front(s)
TailOf(s) == IF s = <<>> THEN <<>> ELSE Tail(s)
Part(s, from, to) == IF s = <<>> THEN <<>> ELSE SubSeq(s, from, to)

\* The place of child or element k (from 0) when everything before it is skipped.
Skipped(n, k) == LET c == [j \in 1..k |-> Below(n, j - 1) + 1] IN Sum(c)

(***************************************************************************)
(* Adding.  An element goes into a leaf; a node with three elements is     *)
(* split into one of two and one of one, left first, and its middle        *)
(* element goes up.                                                        *)
(***************************************************************************)
\* The child to descend to: by value, or by place (the first child that reaches it).
ChildByValue(n, e) == Len(SelectSeq(n.elems, LAMBDA x : x < e))
Reaches(n, k, index) == index - Skipped(n, k) <= Below(n, k)
ChildByPlace(n, index) ==
    CHOOSE k \in 0..Len(n.elems) :
        Reaches(n, k, index) /\ \A j \in 0..k - 1 : ~Reaches(n, j, index)

\* What an insertion below leaves: a node, or two with an element between.
One(n) == [nodes |-> <<n>>, up |-> <<>>]
\* The new element (and the halves of a child that was split) in place of child k.
Widened(n, k, e, halves) ==
    Node(IF halves = <<>> THEN <<>> ELSE SubSeq(n.kids, 1, k) \o halves \o SubSeq(n.kids, k + 2, Len(n.kids)),
         IF halves = <<>> THEN <<>>
         ELSE SubSeq(n.counts, 1, k) \o <<CountNode(halves[1]), CountNode(halves[2])>>
              \o SubSeq(n.counts, k + 2, Len(n.counts)),
         InsertAt(n.elems, k + 1, e))
Split(w) ==
    [nodes |-> <<Node(Part(w.kids, 1, 3), Part(w.counts, 1, 3), SubSeq(w.elems, 1, 2)),
                 Node(Part(w.kids, 4, 5), Part(w.counts, 4, 5), <<w.elems[4]>>)>>,
     up |-> <<w.elems[3]>>]
Insert(n, k, e, halves) ==
    LET w == Widened(n, k, e, halves)
    IN  IF Len(w.elems) <= 3 THEN One(w) ELSE Split(w)

RECURSIVE AddBelow(_, _, _)
AddBelow(n, e, index) ==
    LET k == IF index >= 0 THEN ChildByPlace(n, index) ELSE ChildByValue(n, e)
        r == AddBelow(n.kids[k + 1], e, IF index >= 0 THEN index - Skipped(n, k) ELSE index)
    IN  IF IsLeaf(n) THEN Insert(n, k, e, <<>>)
        ELSE IF Len(r.nodes) = 2 THEN Insert(n, k, r.up[1], r.nodes)
        ELSE One([n EXCEPT !.kids[k + 1] = r.nodes[1], !.counts[k + 1] = CountNode(r.nodes[1])])

\* add234_internal, the element not being there already.
AddTo(t, e, index) ==
    IF t = <<>> THEN <<Leaf(<<e>>)>>
    ELSE LET r == AddBelow(t[1], e, index)
         IN  IF Len(r.nodes) = 1 THEN r.nodes
             ELSE <<Node(r.nodes, [i \in 1..2 |-> CountNode(r.nodes[i])], r.up)>>

(***************************************************************************)
(* Looking up by place and by value.                                       *)
(***************************************************************************)
RECURSIVE IndexBelow(_, _)
IndexBelow(n, index) ==
    LET k == ChildByPlace(n, index)
        rest == index - Skipped(n, k)
    IN  IF rest = Below(n, k) THEN n.elems[k + 1] ELSE IndexBelow(n.kids[k + 1], rest)

\* index234: <<>> stands for NULL.
Index(t, index) == IF index < 0 \/ index >= Count(t) THEN <<>> ELSE <<IndexBelow(t[1], index)>>

\* The place of e in the subtree, or where it would be.
RECURSIVE Seek(_, _, _)
Seek(n, e, at) ==
    LET k == ChildByValue(n, e)
        place == at + Skipped(n, k)
    IN  IF k < Len(n.elems) /\ n.elems[k + 1] = e
        THEN [found |-> TRUE, place |-> place + Below(n, k)]
        ELSE IF IsLeaf(n) THEN [found |-> FALSE, place |-> place]
        ELSE Seek(n.kids[k + 1], e, place)

\* findrelpos234: the place of the element, -1 for none.
FindRelPos(t, e, relation) ==
    LET r == Seek(t[1], e, 0)
        place == IF r.found THEN CASE relation \in {"EQ", "LE", "GE"} -> r.place
                                   [] relation = "LT" -> r.place - 1
                                   [] relation = "GT" -> r.place + 1
                 ELSE IF relation = "EQ" THEN -1
                 ELSE IF relation \in {"LT", "LE"} THEN r.place - 1 ELSE r.place
    IN  IF t = <<>> \/ Index(t, place) = <<>> THEN -1 ELSE place

(***************************************************************************)
(* Deleting.  On the way down every node that is entered is given a second *)
(* element first: from a sibling that has one to spare, or by merging it   *)
(* with a sibling around the element between them.                         *)
(***************************************************************************)
\* Children k and k + 1 and the element between become one child (cases 3b, 2c).
Merged(n, k) ==
    LET a == n.kids[k + 1]
        b == n.kids[k + 2]
        m == Node(a.kids \o b.kids, a.counts \o b.counts, a.elems \o <<n.elems[k + 1]>> \o b.elems)
    IN  Node(Part(n.kids, 1, k) \o <<m>> \o Part(n.kids, k + 3, Len(n.kids)),
             Part(n.counts, 1, k) \o <<CountNode(m)>> \o Part(n.counts, k + 3, Len(n.counts)),
             RemoveAt(n.elems, k + 1))

\* Case 3a: the last subtree of child k - 1, or the first of child k + 1, moves to child k.
FromLeft(n, k) ==
    LET sib == n.kids[k]
        sub == n.kids[k + 1]
        newSub == Node(LastOf(sib.kids) \o sub.kids, LastOf(sib.counts) \o sub.counts,
                       <<n.elems[k]>> \o sub.elems)
        newSib == Node(FrontOf(sib.kids), FrontOf(sib.counts), Front(sib.elems))
    IN  [n EXCEPT !.kids[k] = newSib, !.kids[k + 1] = newSub, !.elems[k] = Last(sib.elems),
                  !.counts[k] = CountNode(newSib), !.counts[k + 1] = CountNode(newSub)]
FromRight(n, k) ==
    LET sub == n.kids[k + 1]
        sib == n.kids[k + 2]
        newSub == Node(sub.kids \o HeadOf(sib.kids), sub.counts \o HeadOf(sib.counts),
                       Append(sub.elems, n.elems[k + 1]))
        newSib == Node(TailOf(sib.kids), TailOf(sib.counts), Tail(sib.elems))
    IN  [n EXCEPT !.kids[k + 1] = newSub, !.kids[k + 2] = newSib, !.elems[k + 1] = Head(sib.elems),
                  !.counts[k + 1] = CountNode(newSub), !.counts[k + 2] = CountNode(newSib)]

Rich(n, k) == k \in 1..Len(n.kids) /\ Len(n.kids[k].elems) > 1

\* Mutant: the index is not adjusted to what came from the left.
EnterUnadjusted(n, k, index) ==
    IF Rich(n, k + 1) THEN [n |-> n, k |-> k, index |-> index]
    ELSE IF Rich(n, k) THEN [n |-> FromLeft(n, k), k |-> k, index |-> index]
    ELSE IF Rich(n, k + 2) THEN [n |-> FromRight(n, k), k |-> k, index |-> index]
    ELSE IF k > 0 THEN [n |-> Merged(n, k - 1), k |-> k - 1, index |-> index + n.counts[k] + 1]
    ELSE [n |-> Merged(n, k), k |-> k, index |-> index]

\* The node, the child to descend to and the index in it, when that child is to be entered.
Enter(n, k, index) ==
    IF Rich(n, k + 1) THEN [n |-> n, k |-> k, index |-> index]
    ELSE IF Rich(n, k)
         THEN LET m == FromLeft(n, k)
              IN  [n |-> m, k |-> k, index |-> index + n.counts[k] - m.counts[k]]
    ELSE IF Rich(n, k + 2) THEN [n |-> FromRight(n, k), k |-> k, index |-> index]
    ELSE IF k > 0 THEN [n |-> Merged(n, k - 1), k |-> k - 1, index |-> index + n.counts[k] + 1]
    ELSE [n |-> Merged(n, k), k |-> k, index |-> index]

RECURSIVE Largest(_), Smallest(_)
Largest(n) == IF IsLeaf(n) THEN Last(n.elems) ELSE Largest(Last(n.kids))
Smallest(n) == IF IsLeaf(n) THEN Head(n.elems) ELSE Smallest(Head(n.kids))

\* An empty root gives way to its only child.
Shifted(n) == IF n.elems = <<>> THEN n.kids[1] ELSE n

RECURSIVE DeleteBelow(_, _)
DeleteBelow(n, index) ==
    LET k == ChildByPlace(n, index)
        here == index - Skipped(n, k) = Below(n, k)
        \* After the deletion of one element below child j of m.
        In(m, j, i) == Shifted([m EXCEPT !.kids[j + 1] = DeleteBelow(@, i), !.counts[j + 1] = @ - 1])
        p == Enter(n, k, index - Skipped(n, k))
        c == Merged(n, k)
    IN  IF ~here THEN In(p.n, p.k, p.index)
        ELSE IF IsLeaf(n) THEN [n EXCEPT !.elems = RemoveAt(@, k + 1)]
        ELSE IF Rich(n, k + 1)
             THEN In([n EXCEPT !.elems[k + 1] = Largest(n.kids[k + 1])], k, n.counts[k + 1] - 1)
        ELSE IF Rich(n, k + 2)
             THEN In([n EXCEPT !.elems[k + 1] = Smallest(n.kids[k + 2])], k + 1, 0)
        ELSE In(c, k, Below(c.kids[k + 1], 0) + Below(c.kids[k + 1], 1) + 1)

DeleteFrom(t, index) ==
    IF CountNode(t[1]) = 1 THEN <<>> ELSE <<DeleteBelow(t[1], index)>>

(***************************************************************************)
(* The operations.                                                         *)
(***************************************************************************)
TInit == ordered \in BOOLEAN /\ tree = <<>>

\* add234, addpos234: each for one kind of tree only.
Add(e) ==
    /\ ordered
    /\ tree' = IF FindRelPos(tree, e, "EQ") >= 0 THEN tree ELSE AddTo(tree, e, -1)
    /\ UNCHANGED ordered
AddPos(e, index) ==
    /\ ~ordered /\ Count(tree) < MaxElems
    /\ tree' = AddTo(tree, e, index)
    /\ UNCHANGED ordered
\* delpos234, del234.
DelPos(index) == tree # <<>> /\ tree' = DeleteFrom(tree, index) /\ UNCHANGED ordered
Del(e) ==
    /\ ordered
    /\ LET index == FindRelPos(tree, e, "EQ") IN index >= 0 /\ tree' = DeleteFrom(tree, index)
    /\ UNCHANGED ordered

TNext ==
    \/ \E e \in Sorted : Add(e) \/ Del(e)
    \/ \E e \in Unsorted, index \in 0..Count(tree) : AddPos(e, index)
    \/ \E index \in 0..Count(tree) - 1 : DelPos(index)
TSpec == TInit /\ [][TNext]_tvars

-----------------------------------------------------------------------------
RECURSIVE InOrder(_)
InOrder(n) ==
    IF IsLeaf(n) THEN n.elems
    ELSE FlattenSeq([i \in 1..Len(n.elems) |-> Append(InOrder(n.kids[i]), n.elems[i])])
         \o InOrder(Last(n.kids))
Listed(t) == IF t = <<>> THEN <<>> ELSE InOrder(t[1])

RECURSIVE Depth(_), WellFormed(_)
Depth(n) == IF IsLeaf(n) THEN 0 ELSE 1 + Depth(n.kids[1])
\* What the checks of the test program (tree234.c:1043) ask of every node.
WellFormed(n) ==
    /\ Len(n.elems) \in 1..3
    /\ Len(n.kids) \in {0, Len(n.elems) + 1} /\ Len(n.counts) = Len(n.kids)
    /\ \A i \in DOMAIN n.kids :
           /\ WellFormed(n.kids[i]) /\ n.counts[i] = Len(InOrder(n.kids[i]))
           /\ Depth(n.kids[i]) = Depth(n.kids[1])

Relations == {"EQ", "LT", "LE", "GT", "GE"}
Related(x, e, relation) ==
    CASE relation = "EQ" -> x = e [] relation = "LT" -> x < e [] relation = "LE" -> x <= e
      [] relation = "GT" -> x > e [] relation = "GE" -> x >= e
\* The nearest element that stands in the relation to e: its place, or -1.
Nearest(list, e, relation) ==
    LET places == {i \in DOMAIN list : Related(list[i], e, relation)}
    IN  IF places = {} THEN -1
        ELSE IF relation \in {"LT", "LE"} THEN (CHOOSE i \in places : \A j \in places : j <= i) - 1
        ELSE (CHOOSE i \in places : \A j \in places : j >= i) - 1

\* However elements come and go, all leaves stay at one depth, every count is what it counts, and
\* looking up by place and by value finds what the list of the elements has there.
TreeSound ==
    /\ tree # <<>> => WellFormed(tree[1])
    /\ LET list == Listed(tree)
       IN  /\ \A i \in -1..Len(list) :
                 Index(tree, i) = IF i \in 0..Len(list) - 1 THEN <<list[i + 1]>> ELSE <<>>
           /\ ordered => \A e \in Sorted \cup {0, 100}, r \in Relations :
                               FindRelPos(tree, e, r) = Nearest(list, e, r)

\* The tree is a list.
AList == INSTANCE SortedList WITH Elements <- Sorted \cup Unsorted, sorted <- ordered, list <- Listed(tree)
IsList == AList!LSpec
=============================================================================
