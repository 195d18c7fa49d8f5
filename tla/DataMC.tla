-------------------------------- MODULE DataMC --------------------------------
(***************************************************************************)
(* Data structures and conversions - byte queues, the counted tree, the    *)
(* wildcards, zlib, the big numbers - checked side by side: live names the *)
(* one a behaviour is about, and the others stay at their beginning.       *)
(***************************************************************************)
EXTENDS Zlib

CONSTANTS Granule, MaxBytes, MaxAdd, Sorted, Unsorted, MaxElems, WordBits

VARIABLES live,
    chain, size,
    ordered, tree,
    shape, pattern,
    operands, result

-----------------------------------------------------------------------------
UpTo(S, n) == UNION {[1..k -> S] : k \in 0..n}
\* Classes with their brackets and ranges; stars and escapes; escapes inside classes.
Shapes == <<
    [first |-> {"["}, more |-> {"[", "]", "a", "b", "-", "^"}, longest |-> 6,
     targets |-> UpTo({"a", "^", "-"}, 1)],
    [first |-> {"*", "a", "\\", "?"}, more |-> {"a", "b", "*", "?", "\\"}, longest |-> 5,
     targets |-> UpTo({"a", "b"}, 3) \cup {<<"*">>, <<"a", "b", "a", "b">>, <<"b", "a", "a", "b">>}],
    [first |-> {"["}, more |-> {"\\", "]", "a", "-", "*"}, longest |-> 5,
     targets |-> UpTo({"a", "]"}, 2)] >>

\* What is compressed, and what is sent as it is.
AllPackets == {<<0>>, <<200, 0>>, <<0, 0, 200, 0, 0, 200, 200>>, <<200, 0, 0, 0, 200, 0>>,
            <<0, 0, 0, 0, 0>>} \cup [1..3 -> {0, 200}]
AllStored == {<<0>>, <<200, 0>>, <<200, 0, 0>>}
\* At the ends of the codes for lengths, and of some for distances.
AllLens == {3, 4, 10, 11, 12, 18, 19, 66, 67, 114, 115, 130, 131} \cup 226..270 \cup 515..524
AllDistances == {1, 4, 5, 6, 7, 8, 1024, 1025, 24576, 24577, 32767}
\* Blocks of another compressor: with codes of many lengths, with every way to repeat a length.
Char(c) == [len |-> 0, chr |-> c, distance |-> 0]
Match(len, distance) == [len |-> len, chr |-> 0, distance |-> distance]
End == Char(256)
Plain(n) == <<n, 0>>
Cut(bytes) == {8 * k : k \in bytes}
AllStreams == <<
    [lenlen |-> <<0, 0, 2, 3, 0, 0, 0, 0, 0, 0, 0, 0, 0, 2, 0, 2, 0, 3>>, hlit |-> 259,
     program |-> <<Plain(2), <<18, 127>>, <<18, 50>>, Plain(2), <<18, 44>>, Plain(2), Plain(3),
                   Plain(3), Plain(1), Plain(0), Plain(0), Plain(1)>>,
     contents |-> <<Char(0), Char(200), Char(200), Match(3, 1), Match(4, 4), Char(0), Match(3, 4), End>>,
     cuts |-> Cut({0, 1, 8, 10, 12, 16, 19})],
    [lenlen |-> <<0, 4, 4, 0, 4, 4, 4, 4, 4, 4, 4, 4, 0, 3, 0, 3, 0, 3>>, hlit |-> 258,
     program |-> [i \in 1..10 |-> Plain(i)]
                 \o <<<<18, 127>>, <<17, 7>>, <<18, 87>>, Plain(11), Plain(11), Plain(1)>>,
     contents |-> <<Char(9), Char(0), Match(3, 1), Char(5), Char(8), Match(3, 1), End>>,
     cuts |-> Cut({2, 7, 9, 13, 17, 20, 24})],
    [lenlen |-> <<2, 0, 2, 0, 0, 0, 0, 0, 0, 0, 0, 0, 0, 2, 0, 0, 0, 2>>, hlit |-> 259,
     program |-> <<Plain(1), <<18, 127>>, <<18, 50>>, Plain(3), <<18, 44>>, Plain(3), <<16, 3>>>>,
     contents |-> <<Char(200), Char(0), Match(3, 2), Match(4, 3), Char(0), Match(3, 4), End>>,
     cuts |-> Cut({3, 5, 9, 11, 12, 13, 14, 15})] >>

\* Numbers of up to three words, the first of them not 0.
UpToWords(n) ==
    {bn \in UpTo(0..2 ^ WordBits - 1, n) : Len(bn) <= 1 \/ Last(bn) # 0}
Numbers == UpToWords(3)
Factors == UpToWords(2)
Mods == {bn \in UpToWords(3) : bn \notin {<<>>, <<0>>}}
Exps == {<<>>, <<1>>, <<2>>, <<3>>, <<1, 2>>, <<3, 3>>}

-----------------------------------------------------------------------------
Queue == INSTANCE Bufchain
Tree == INSTANCE Tree234
Globs == INSTANCE Wildcard
BigNumbers == INSTANCE Bignum

queueVars == <<chain, size>>
treeVars == <<ordered, tree>>
globVars == <<shape, pattern>>
bignumVars == <<operands, result>>
allVars == <<live, queueVars, treeVars, globVars, zvars, bignumVars>>

MCInit ==
    /\ Queue!BInit /\ Tree!TInit /\ Globs!WInit /\ ZInit /\ BigNumbers!NInit
    /\ live \in {"queue", "tree", "glob", "zlib", "bignum"}
    \* What a component that is not live starts from does not matter.
    /\ live # "tree" => ordered
    /\ live # "glob" => shape = 1
    /\ live # "zlib" => single = <<>>

MCNext ==
    \/ /\ live = "queue" /\ Queue!BNext
       /\ UNCHANGED <<live, treeVars, globVars, zvars, bignumVars>>
    \/ /\ live = "tree" /\ Tree!TNext
       /\ UNCHANGED <<live, queueVars, globVars, zvars, bignumVars>>
    \/ /\ live = "glob" /\ Globs!WNext
       /\ UNCHANGED <<live, queueVars, treeVars, zvars, bignumVars>>
    \/ /\ live = "zlib" /\ ZNext
       /\ UNCHANGED <<live, queueVars, treeVars, globVars, bignumVars>>
    \/ /\ live = "bignum" /\ BigNumbers!NNext
       /\ UNCHANGED <<live, queueVars, treeVars, globVars, zvars>>

MCSpec == MCInit /\ [][MCNext]_allVars

\* A queue keeps what was put into it, a tree its order, its counts and its depth, a pattern
\* matches what the grammar says, and its escape matches itself (Bufchain, Tree234, Wildcard).
StructuresSound ==
    /\ live = "queue" => Queue!ChainSound
    /\ live = "tree" => Tree!TreeSound
    /\ live = "glob" => Globs!MatchesDefined /\ Globs!UnescapedMatches

\* What the compressor of one end takes in comes out of the decompressor of the other, and the
\* chains of its window are those of its hash; the length that is foretold of a packet that is not
\* compressed is a byte short, or exact where the bits fill whole bytes (Zlib).
CompressionSound ==
    /\ Arrives /\ ChainsSound /\ MatchesRead
    /\ StreamsRead /\ AdjustmentShort

\* The big numbers are numbers (Bignum).
ArithmeticRight == live = "bignum" => BigNumbers!ArithmeticRight

\* What is converted, into a compressed stream and back or from one number into another, keeps its
\* value.
ConversionsRight == CompressionSound /\ ArithmeticRight

\* A chain of granules is a queue of bytes, and a tree of nodes is a list.
StructuresRefine == Queue!IsQueue /\ Tree!IsList
=============================================================================
