------------------------------ MODULE MCTagIndex ------------------------------
(* Instances of TagIndex for TLC.  Threads, keys and the nodes other than   *)
(* root are interchangeable; tags are ordered.                              *)
EXTENDS TagIndex, TLC

CONSTANTS t1, t2, k1, k2, n1, n2, n3

TwoThreads == {t1, t2}
OneKey == {k1}
TwoKeys == {k1, k2}
FourNodes == {root, n1, n2, n3}

(* Two tags on the same side of "ROOT". *)
TwoTags == {1, 2}
ThreeNodes == {root, n1, n2}
(* With "ROOT" as 2, two tags on its left. *)
LeftSide == {0, 1, 2}
Both == {<<1, 0>>}
AllLists == {<<>>, <<2>>, <<1, 2>>, <<2, 2>>}

AllCalls == {"add", "remove", "any", "all", "walk"}

Symmetric == Permutations(Threads) \cup Permutations(Keys) \cup Permutations(Nodes \ {root})
=============================================================================
