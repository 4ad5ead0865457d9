---------------------------- MODULE TagIndexProofs ----------------------------
(***************************************************************************)
(* Theorems about TagIndex, for every number of threads, tags, keys and    *)
(* nodes and every assignment of tags to nodes.                            *)
(***************************************************************************)
EXTENDS TagIndex, FiniteSetTheorems, TLAPS

(***************************************************************************)
(* Types.                                                                  *)
(***************************************************************************)

LEMMA InitType == Init => TypeOK
<1> SUFFICES ASSUME Init PROVE TypeOK
  OBVIOUS
<1> USE TagAssumption DEF Init
<1>1. EmptyBag \in Bags
  BY DEF EmptyBag, Bags
<1>2. /\ tag \in [Nodes -> Tags \cup {NULL}]
      /\ keys \in [Nodes -> Bags]
      /\ keys_lock \in [Nodes -> Threads \cup {NULL}]
      /\ num_keys \in [Nodes -> Int]
      /\ left \in [Nodes -> Nodes \cup {NULL}]
      /\ right \in [Nodes -> Nodes \cup {NULL}]
      /\ span \in [Nodes -> SUBSET Tags]
  BY <1>1
<1>3. reserved \subseteq Nodes /\ crashed \in BOOLEAN
  OBVIOUS
<1>6. pc \in [Threads -> Labels] /\ op \in [Threads -> Ops]
  BY DEF Labels, Ops
<1>7. /\ want \in [Threads -> Seq(Tags)] /\ pos \in [Threads -> Nat \ {0}]
      /\ key \in [Threads -> Keys \cup {NULL}]
  OBVIOUS
<1>4. /\ node \in [Threads -> Nodes \cup {NULL}] /\ new \in [Threads -> Nodes \cup {NULL}]
      /\ copied \in [Threads -> Bags] /\ found \in [Threads -> Bags]
  BY <1>1
<1>5. /\ stack \in [Threads -> Seq(Nodes)] /\ told \in [Threads -> Seq(Tags)]
      /\ steady \in [Threads -> SUBSET (Tags \X Keys)]
      /\ ever \in [Threads -> SUBSET (Tags \X Keys)]
      /\ starved \in [Threads -> BOOLEAN]
  OBVIOUS
<1> QED BY <1>2, <1>3, <1>4, <1>5, <1>6, <1>7 DEF TypeOK

(* Where a thread that walks the tree or works on a list is. *)
LEMMA Places ==
  ASSUME TypeOK, TreeInv, SearchInv, NEW t \in Threads
  PROVE  /\ pc[t] \in {"descend", "cas", "lock", "report"} \/ Locked(t) =>
              node[t] \in Linked /\ node[t] \in Nodes /\ tag[node[t]] \in Tags
         /\ pc[t] \in {"descend", "cas"} => Wanted(t) \in Tags /\ Child(t) \in Nodes \cup {NULL}
<1>1. \A n \in Linked : n \in Nodes /\ span[n] \subseteq Tags /\ tag[n] \in Tags
                      /\ left[n] \in Nodes \cup {NULL} /\ right[n] \in Nodes \cup {NULL}
  BY TagAssumption DEF TypeOK, TreeInv, Linked
<1>2. pc[t] \in {"descend", "cas", "lock", "report"} \/ Locked(t) => node[t] \in Linked
  BY DEF SearchInv, Placed
<1>3. pc[t] \in {"descend", "cas"} => Wanted(t) \in span[node[t]]
  BY DEF SearchInv, Placed
<1> QED BY <1>1, <1>2, <1>3 DEF Child

LEMMA LeaveType ==
  ASSUME TypeOK, NEW t \in Threads, Leave(t),
         UNCHANGED <<tag, keys, num_keys, left, right, crashed, span>>,
         reserved' \subseteq Nodes, keys_lock' \in [Nodes -> Threads \cup {NULL}]
  PROVE  TypeOK'
BY DEF TypeOK, Leave, Bags, EmptyBag, Labels, Ops, Goto

LEMMA CallType ==
  ASSUME TypeOK, NEW t \in Threads, NEW f \in Ops, NEW gs \in Seq(Tags),
         NEW k \in Keys \cup {NULL}, NEW l \in Labels, Call(t, f, gs, k, l)
  PROVE  TypeOK'
<1>1. Listed(f, gs) \subseteq Tags \X Keys
  BY DEF Listed, Range
<1> QED BY <1>1, TagAssumption DEF TypeOK, Call, Goto, fields, match, walk

LEMMA MergeType ==
  ASSUME TypeOK, SearchInv, NEW t \in Threads, NEW list \in Bags, Merge(t, list),
         pos[t] \in DOMAIN want[t],
         UNCHANGED <<tag, keys, num_keys, left, right, reserved, span>>,
         keys_lock' \in [Nodes -> Threads \cup {NULL}]
  PROVE  TypeOK'
<1>1. PICK lost \in SUBSET Keys :
        /\ found' = [found EXCEPT ![t] = Merged(t, list, lost)]
        /\ starved' = [starved EXCEPT ![t] = @ \/ lost # {}]
  BY DEF Merge
<1>2. Merged(t, list, lost) \in Bags
  BY DEF Merged, TypeOK, Bags
<1>3. pos' \in [Threads -> Nat \ {0}] /\ node' \in [Threads -> Nodes \cup {NULL}]
      /\ pc' \in [Threads -> Labels]
  <2>1. CASE pos[t] < Len(want[t])
    <3>1. /\ pos' = [pos EXCEPT ![t] = @ + 1]
          /\ node' = [node EXCEPT ![t] = root]
          /\ pc' = [pc EXCEPT ![t] = "descend"]
      BY <2>1 DEF Merge, Goto
    <3>2. pos[t] + 1 \in Nat \ {0}
      BY DEF TypeOK
    <3> QED BY <3>1, <3>2, TagAssumption DEF TypeOK, Labels
  <2>2. CASE ~(pos[t] < Len(want[t]))
    <3>1. /\ pos' = pos
          /\ node' = [node EXCEPT ![t] = NULL]
          /\ pc' = [pc EXCEPT ![t] = "return"]
      BY <2>2 DEF Merge, Goto
    <3> QED BY <3>1 DEF TypeOK, Labels
  <2> QED BY <2>1, <2>2
<1>4. found' \in [Threads -> Bags] /\ starved' \in [Threads -> BOOLEAN] /\ copied' \in [Threads -> Bags]
  BY <1>1, <1>2 DEF Merge, TypeOK, Bags, EmptyBag
<1>5. UNCHANGED <<crashed, op, want, key, new, walk, steady, ever>>
  BY DEF Merge
<1> QED BY <1>3, <1>4, <1>5 DEF TypeOK, walk

LEMMA TypeStep == TypeOK /\ TreeInv /\ SearchInv /\ ListInv /\ [Next]_vars => TypeOK'
<1> SUFFICES ASSUME TypeOK, TreeInv, SearchInv, ListInv, [Next]_vars PROVE TypeOK'
  OBVIOUS
<1> USE TagAssumption DEF At, Goto, fields, tree, lists, call, match, walk, history
<1>1. CASE UNCHANGED vars
  BY <1>1 DEF vars, TypeOK
<1>2. ASSUME NEW t \in Threads, Begin(t) PROVE TypeOK'
  <2>1. ASSUME NEW f \in {"add", "remove"}, NEW g \in Tags, NEW k \in Keys, KeyCall(t, f, g, k) PROVE TypeOK'
    <3>1. <<g>> \in Seq(Tags) /\ f \in Ops /\ "descend" \in Labels
      BY DEF Ops, Labels
    <3> QED BY <2>1, <3>1, CallType DEF KeyCall
  <2>2. ASSUME NEW f \in {"any", "all"}, NEW gs \in TagLists, MatchCall(t, f, gs) PROVE TypeOK'
    BY <2>2, CallType DEF MatchCall, Ops, Labels
  <2>3. CASE WalkCall(t)
    <3>1. <<>> \in Seq(Tags) /\ "walk" \in Ops /\ "push" \in Labels
      BY DEF Ops, Labels
    <3> QED BY <2>3, <3>1, CallType DEF WalkCall
  <2> QED BY <1>2, <2>1, <2>2, <2>3 DEF Begin
<1>3. ASSUME NEW t \in Threads, LockKeys(t) PROVE TypeOK'
  BY <1>3 DEF LockKeys, TypeOK, Labels
<1>4. ASSUME NEW t \in Threads, Reach(t) \/ CreateFails(t) \/ PushFails(t) \/ WalkEnds(t) \/ Search(t) PROVE TypeOK'
  <2>1. CASE Reach(t)
    BY <2>1 DEF Reach, TypeOK, Labels
  <2>2. CASE CreateFails(t)
    BY <2>2 DEF CreateFails, TypeOK
  <2>5. CASE PushFails(t)
    BY <2>5 DEF PushFails, TypeOK
  <2>3. CASE WalkEnds(t)
    BY <2>3 DEF WalkEnds, TypeOK, Labels
  <2>4. CASE Search(t)
    <3>1. \E l \in Labels : pc' = [pc EXCEPT ![t] = l]
      BY <2>4 DEF Search, Labels
    <3>2. pc' \in [Threads -> Labels]
      BY <3>1 DEF TypeOK
    <3>3. UNCHANGED <<fields, reserved, crashed, call, node, new, match, walk, span, history>>
      BY <2>4 DEF Search
    <3> QED BY <3>2, <3>3 DEF TypeOK
  <2> QED BY <1>4, <2>1, <2>2, <2>3, <2>4, <2>5
<1>5. ASSUME NEW t \in Threads, Descend(t) PROVE TypeOK'
  BY <1>5, Places DEF Descend, TypeOK
<1>6. ASSUME NEW t \in Threads, NEW n \in Nodes, Create(t, n) PROVE TypeOK'
  <2>1. Wanted(t) \in Tags
    BY <1>6, Places DEF Create, AtLeaf
  <2>2. EmptyBag \in Bags /\ "cas" \in Labels
    BY DEF EmptyBag, Bags, Labels
  <2>3. /\ tag' \in [Nodes -> Tags \cup {NULL}] /\ keys' \in [Nodes -> Bags]
        /\ keys_lock' \in [Nodes -> Threads \cup {NULL}] /\ num_keys' \in [Nodes -> Int]
    BY <1>6, <2>1, <2>2 DEF Create, TypeOK
  <2>4. /\ left' \in [Nodes -> Nodes \cup {NULL}] /\ right' \in [Nodes -> Nodes \cup {NULL}]
        /\ reserved' \subseteq Nodes /\ new' \in [Threads -> Nodes \cup {NULL}]
        /\ pc' \in [Threads -> Labels]
    BY <1>6, <2>2 DEF Create, TypeOK
  <2>5. UNCHANGED <<crashed, call, node, match, walk, span, history>>
    BY <1>6 DEF Create
  <2> QED BY <2>3, <2>4, <2>5 DEF TypeOK
<1>7. ASSUME NEW t \in Threads, CasWins(t) PROVE TypeOK'
  <2>1. LeftSpan(node[t]) \in SUBSET Tags /\ RightSpan(node[t]) \in SUBSET Tags
    BY <1>7 DEF LeftSpan, RightSpan, TypeOK, CasWins, SearchInv, Placed, Linked
  <2>2. "descend" \in Labels
    BY DEF Labels
  <2>3. left' \in [Nodes -> Nodes \cup {NULL}] /\ right' \in [Nodes -> Nodes \cup {NULL}]
    BY <1>7 DEF CasWins, TypeOK
  <2>4. span' \in [Nodes -> SUBSET Tags]
    BY <1>7, <2>1 DEF CasWins, TypeOK
  <2>5. /\ node' \in [Threads -> Nodes \cup {NULL}] /\ new' \in [Threads -> Nodes \cup {NULL}]
        /\ pc' \in [Threads -> Labels]
    BY <1>7, <2>2 DEF CasWins, TypeOK
  <2>6. UNCHANGED <<tag, lists, keys_lock, reserved, crashed, call, match, walk, history>>
    BY <1>7 DEF CasWins
  <2> QED BY <2>3, <2>4, <2>5, <2>6 DEF TypeOK
<1>8. ASSUME NEW t \in Threads, CasLoses(t) PROVE TypeOK'
  BY <1>8, Places DEF CasLoses, TypeOK, Labels
<1>9. ASSUME NEW t \in Threads, RemoveMisses(t) PROVE TypeOK'
  BY <1>9, LeaveType DEF RemoveMisses, TypeOK
<1>10. ASSUME NEW t \in Threads, UnlockKeys(t) PROVE TypeOK'
  BY <1>10, LeaveType DEF UnlockKeys, Unlock, TypeOK
<1>11. ASSUME NEW t \in Threads, Return(t) PROVE TypeOK'
  BY <1>11, LeaveType DEF Return, TypeOK
<1>12. ASSUME NEW t \in Threads, MatchMisses(t) PROVE TypeOK'
  <2>1. EmptyBag \in Bags
    BY DEF EmptyBag, Bags
  <2>2. pos[t] \in DOMAIN want[t]
    BY <1>12 DEF MatchMisses, AtLeaf, SearchInv, Placed, Matching
  <2> QED BY <1>12, <2>1, <2>2, MergeType DEF MatchMisses, TypeOK
<1>13. ASSUME NEW t \in Threads, UnlockAndMerge(t) PROVE TypeOK'
  <2>1. copied[t] \in Bags /\ keys_lock' \in [Nodes -> Threads \cup {NULL}]
    BY <1>13 DEF TypeOK, UnlockAndMerge, Unlock
  <2>2. pos[t] \in DOMAIN want[t]
    BY <1>13 DEF UnlockAndMerge, SearchInv, Placed, Matching
  <2> QED BY <1>13, <2>1, <2>2, MergeType DEF UnlockAndMerge
<1>14. ASSUME NEW t \in Threads, Link(t) PROVE TypeOK'
  <2>1. node[t] \in Nodes /\ tag[node[t]] \in Tags /\ key[t] \in Keys
    BY <1>14, Places DEF Link, ListInv, Locked, TypeOK
  <2>2. keys' \in [Nodes -> Bags]
    BY <1>14, <2>1 DEF Link, TypeOK, Bags
  <2>3. ever' \in [Threads -> SUBSET (Tags \X Keys)]
    <3> SUFFICES ASSUME NEW u \in Threads, Concerns(u, tag[node[t]])
                 PROVE  <<tag[node[t]], key[t]>> \in Tags \X Keys
      BY <1>14 DEF Link, Appears, TypeOK
    <3> QED BY <2>1
  <2> QED BY <1>14, <2>2, <2>3 DEF Link, Appears, TypeOK, Labels
<1>15. ASSUME NEW t \in Threads, Unlink(t) PROVE TypeOK'
  <2>1. node[t] \in Nodes /\ key[t] \in Keys /\ keys[node[t]][key[t]] = 1
    BY <1>15, Places DEF Unlink, ListInv, Locked, TypeOK
  <2>2. keys' \in [Nodes -> Bags]
    BY <1>15, <2>1 DEF Unlink, TypeOK, Bags
  <2> QED BY <1>15, <2>1, <2>2 DEF Unlink, Disappears, TypeOK, Labels
<1>16. ASSUME NEW t \in Threads, Count(t) PROVE TypeOK'
  <2>1. num_keys' \in [Nodes -> Int]
    <3>1. node[t] \in Nodes /\ num_keys[node[t]] \in Int
      BY <1>16, Places DEF Count, Locked, TypeOK
    <3> QED BY <1>16, <3>1 DEF Count, TypeOK
  <2> QED BY <1>16, <2>1 DEF Count, TypeOK, Labels
<1>17. ASSUME NEW t \in Threads, CopyKeys(t) PROVE TypeOK'
  BY <1>17, Places DEF CopyKeys, TypeOK, Labels, Locked
<1>18. ASSUME NEW t \in Threads, CopyFails(t) PROVE TypeOK'
  <2>1. PICK k \in Keys :
          LET rest == [keys[node[t]] EXCEPT ![k] = @ - 1]
          IN /\ keys[node[t]][k] > 0
             /\ \/ /\ copied' = [copied EXCEPT ![t] = rest]
                   /\ starved' = [starved EXCEPT ![t] = TRUE]
                   /\ Goto(t, "unlock")
                   /\ UNCHANGED crashed
                \/ /\ rest # EmptyBag
                   /\ crashed' = TRUE
                   /\ UNCHANGED <<copied, starved, pc>>
    BY <1>18 DEF CopyFails
  <2>2. node[t] \in Nodes
    BY <1>18, Places DEF CopyFails, Locked
  <2>3. [keys[node[t]] EXCEPT ![k] = @ - 1] \in Bags
    <3>1. keys[node[t]] \in [Keys -> Nat]
      BY <2>2 DEF TypeOK, Bags
    <3>2. keys[node[t]][k] - 1 \in Nat
      BY <2>1, <3>1
    <3>3. [keys[node[t]] EXCEPT ![k] = keys[node[t]][k] - 1] \in [Keys -> Nat]
      BY <3>1, <3>2
    <3> QED BY <3>3 DEF Bags
  <2>4. copied' \in [Threads -> Bags] /\ starved' \in [Threads -> BOOLEAN]
        /\ pc' \in [Threads -> Labels] /\ crashed' \in BOOLEAN
    <3> DEFINE rest == [keys[node[t]] EXCEPT ![k] = @ - 1]
    <3>1. CASE copied' = [copied EXCEPT ![t] = rest] /\ starved' = [starved EXCEPT ![t] = TRUE]
               /\ pc' = [pc EXCEPT ![t] = "unlock"] /\ crashed' = crashed
      <4> HIDE DEF rest
      <4> QED BY <3>1, <2>3 DEF TypeOK, Labels, rest
    <3>2. CASE crashed' = TRUE /\ UNCHANGED <<copied, starved, pc>>
      BY <3>2 DEF TypeOK
    <3> QED BY <2>1, <3>1, <3>2
  <2>5. UNCHANGED <<fields, reserved, call, node, new, found, walk, span, steady, ever>>
    BY <1>18 DEF CopyFails
  <2> QED BY <2>4, <2>5 DEF TypeOK
<1>19. ASSUME NEW t \in Threads, PushLeft(t) PROVE TypeOK'
  BY <1>19 DEF PushLeft, TypeOK
<1>20. ASSUME NEW t \in Threads, Pop(t) PROVE TypeOK'
  BY <1>20 DEF Pop, TypeOK, Labels
<1>21. ASSUME NEW t \in Threads, Report(t) PROVE TypeOK'
  <2>1. told' \in [Threads -> Seq(Tags)]
    BY <1>21, Places DEF Report, TypeOK, Locked
  <2> QED BY <1>21, <2>1 DEF Report, Unlock, TypeOK, Labels
<1>22. ASSUME NEW t \in Threads, GoRight(t) PROVE TypeOK'
  BY <1>22, Places DEF GoRight, TypeOK, Labels
<1> QED BY <1>1, <1>2, <1>3, <1>4, <1>5, <1>6, <1>7, <1>8, <1>9, <1>10, <1>11, <1>12,
           <1>13, <1>14, <1>15, <1>16, <1>17, <1>18, <1>19, <1>20, <1>21, <1>22
        DEF Next, Free

(***************************************************************************)
(* The tree.                                                               *)
(***************************************************************************)

(* What a step does to the nodes that are linked already: nothing. *)
LinkedKept ==
  \A n \in Linked : /\ n \in Linked' /\ n \in reserved'
                    /\ tag'[n] = tag[n] /\ span'[n] = span[n]
                    /\ left[n] # NULL => left'[n] = left[n]
                    /\ right[n] # NULL => right'[n] = right[n]

LEMMA ChildrenLinked ==
  ASSUME TypeOK, TreeInv, NEW n \in Linked
  PROVE  /\ n \in Nodes /\ tag[n] \in Tags /\ span[n] \subseteq Tags
         /\ left[n] # NULL => left[n] \in Linked
         /\ right[n] # NULL => right[n] \in Linked
BY TagAssumption DEF TypeOK, TreeInv, Linked

LEMMA QuietTree ==
  ASSUME TreeInv, UNCHANGED tree
  PROVE  TreeInv' /\ LinkedKept /\ Linked' = Linked
<1>1. Linked' = Linked
  BY DEF tree, Linked
<1>2. \A n \in Nodes : LeftSpan(n)' = LeftSpan(n) /\ RightSpan(n)' = RightSpan(n)
  BY DEF tree, LeftSpan, RightSpan
<1>3. TreeInv'
  BY <1>1 DEF TreeInv, tree, Inside, LeftSpan, RightSpan
<1>4. LinkedKept
  BY <1>1 DEF TreeInv, tree, LinkedKept
<1> QED BY <1>1, <1>3, <1>4

LEMMA CreateTree ==
  ASSUME TypeOK, TreeInv, NEW t \in Threads, NEW n \in Nodes, Create(t, n)
  PROVE  TreeInv' /\ LinkedKept /\ Linked' = Linked /\ n \notin Linked
<1>1. n \notin Linked /\ n \notin reserved
  BY DEF Create, TreeInv
<1>2. /\ \A m \in Nodes \ {n} : tag'[m] = tag[m] /\ left'[m] = left[m] /\ right'[m] = right[m]
      /\ left'[n] = NULL /\ right'[n] = NULL
      /\ reserved' = reserved \cup {n} /\ span' = span
  BY DEF Create, TypeOK
<1>3. Linked' = Linked
  <2>1. reserved \subseteq Nodes \ {n} /\ NULL \notin Nodes
    BY <1>1, TagAssumption DEF TypeOK
  <2>2. \A x \in Nodes : (\E q \in reserved' : x \in {left'[q], right'[q]})
                        <=> (\E q \in reserved : x \in {left[q], right[q]})
    BY <1>2, <2>1
  <2> QED BY <2>2 DEF Linked
<1>4. \A m \in Linked : /\ m \in Nodes \ {n} /\ LeftSpan(m)' = LeftSpan(m) /\ RightSpan(m)' = RightSpan(m)
  BY <1>1, <1>2, ChildrenLinked DEF LeftSpan, RightSpan
<1>5. \A l, m \in Linked : Inside(l, m)' = Inside(l, m)
  BY <1>2, <1>4 DEF Inside
<1>6. TreeInv'
  BY <1>2, <1>3, <1>4, <1>5 DEF TreeInv
<1>7. LinkedKept
  BY <1>2, <1>3, <1>4 DEF LinkedKept, TreeInv
<1> QED BY <1>1, <1>3, <1>6, <1>7

LEMMA LoseTree ==
  ASSUME TypeOK, TreeInv, SearchInv, NEW t \in Threads, CasLoses(t)
  PROVE  TreeInv' /\ LinkedKept /\ Linked' = Linked
<1>1. /\ new[t] \in Nodes /\ new[t] \in reserved /\ new[t] \notin Linked
      /\ left[new[t]] = NULL /\ right[new[t]] = NULL
  BY DEF CasLoses, At, SearchInv, Placed, TypeOK
<1>2. /\ \A m \in Nodes \ {new[t]} : tag'[m] = tag[m]
      /\ left' = left /\ right' = right /\ span' = span
      /\ reserved' = reserved \ {new[t]}
  BY DEF CasLoses, TypeOK
<1>3. Linked' = Linked
  BY <1>1, <1>2, TagAssumption DEF Linked, TypeOK
<1>4. \A m \in Linked : /\ m \in Nodes \ {new[t]} /\ LeftSpan(m)' = LeftSpan(m) /\ RightSpan(m)' = RightSpan(m)
  BY <1>1, <1>2, ChildrenLinked DEF LeftSpan, RightSpan
<1>5. \A l, m \in Linked : Inside(l, m)' = Inside(l, m)
  BY <1>2, <1>4 DEF Inside
<1>6. root \in reserved' /\ Linked \subseteq reserved'
  BY <1>1, <1>2 DEF TreeInv, Linked
<1>7. TreeInv'
  BY <1>2, <1>3, <1>4, <1>5, <1>6 DEF TreeInv
<1>8. LinkedKept
  BY <1>2, <1>3, <1>4, <1>6 DEF LinkedKept
<1> QED BY <1>3, <1>7, <1>8

(* The new node is linked below p on the side of its tag g.  No linked tag *)
(* is in the part of the span of p that the new node takes over, because p *)
(* has no child there.                                                     *)
LEMMA WinTree ==
  ASSUME TypeOK, TreeInv, SearchInv, NEW t \in Threads, CasWins(t)
  PROVE  TreeInv' /\ LinkedKept /\ Linked' = Linked \cup {new[t]}
<1>0. PICK p, n, g, S : /\ p = node[t] /\ n = new[t] /\ g = tag[n]
                        /\ S = IF g < tag[p] THEN LeftSpan(p) ELSE RightSpan(p)
  OBVIOUS
<1>1. /\ n \in Nodes /\ n \in reserved /\ n \notin Linked /\ n # NULL
      /\ left[n] = NULL /\ right[n] = NULL /\ g = Wanted(t) /\ g # tag[p]
      /\ p \in Linked /\ g \in span[p]
  BY <1>0, TagAssumption DEF CasWins, At, SearchInv, Placed, TypeOK
<1>2. /\ p \in Nodes /\ p # n /\ g \in Tags /\ tag[p] \in Tags /\ g \in Int /\ tag[p] \in Int
      /\ g \in S /\ S \subseteq Tags
  <2>1. p \in Nodes /\ p # n /\ g \in Int /\ tag[p] \in Int /\ g \in Tags /\ tag[p] \in Tags
    BY <1>1, ChildrenLinked, TagAssumption
  <2>2. LeftSpan(p) \subseteq Tags /\ RightSpan(p) \subseteq Tags
    BY <1>1, ChildrenLinked DEF LeftSpan, RightSpan
  <2>3. g \in S
    BY <1>0, <1>1, <2>1 DEF LeftSpan, RightSpan
  <2> QED BY <1>0, <2>1, <2>2, <2>3
<1>3. /\ tag' = tag /\ reserved' = reserved
      /\ \A m \in Nodes \ {n} : span'[m] = span[m]
      /\ span'[n] = S
      /\ \A m \in Nodes \ {p} : left'[m] = left[m] /\ right'[m] = right[m]
  BY <1>0, <1>1, <1>2 DEF CasWins, tree, TypeOK
<1>4. \/ g < tag[p] /\ left[p] = NULL /\ left'[p] = n /\ right'[p] = right[p]
      \/ g > tag[p] /\ right[p] = NULL /\ right'[p] = n /\ left'[p] = left[p]
  BY <1>0, <1>1, <1>2 DEF CasWins, Child, TypeOK
<1>5. Linked' = Linked \cup {n}
  <2>1. reserved \subseteq Nodes /\ NULL \notin Nodes /\ p \in reserved
    BY <1>1, TagAssumption DEF TypeOK, TreeInv
  <2>2. \A x \in Nodes : (\E q \in reserved' : x \in {left'[q], right'[q]})
                        <=> x = n \/ (\E q \in reserved : x \in {left[q], right[q]})
    BY <1>1, <1>3, <1>4, <2>1
  <2> QED BY <1>1, <2>2 DEF Linked
<1>6. \A m \in Linked : /\ m \in Nodes \ {n}
                        /\ span'[m] = span[m] /\ LeftSpan(m)' = LeftSpan(m) /\ RightSpan(m)' = RightSpan(m)
  BY <1>1, <1>3, ChildrenLinked DEF LeftSpan, RightSpan
<1>7. \A m \in Linked : tag[m] \notin S
  BY <1>0, <1>2, <1>4, <1>1, ChildrenLinked, TagAssumption DEF TreeInv, LeftSpan, RightSpan
<1>8. \A l, m \in Linked : Inside(l, m)' = Inside(l, m)
  BY <1>6 DEF Inside
<1>9. S \subseteq LeftSpan(p) \/ S \subseteq RightSpan(p)
  BY <1>0
<1>10. \A m \in Linked \ {p} : S \cap span[m] = {} \/ S \subseteq LeftSpan(m) \/ S \subseteq RightSpan(m)
  <2> SUFFICES ASSUME NEW m \in Linked \ {p}
               PROVE  S \cap span[m] = {} \/ S \subseteq LeftSpan(m) \/ S \subseteq RightSpan(m)
    OBVIOUS
  <2>1. S \subseteq span[p]
    BY <1>0 DEF LeftSpan, RightSpan
  <2>2. CASE span[p] \cap span[m] = {}
    BY <2>1, <2>2
  <2>3. CASE Inside(p, m)
    BY <2>1, <2>3 DEF Inside
  <2>4. CASE Inside(m, p)
    <3>1. tag[m] \in span[m]
      BY DEF TreeInv
    <3>2. ~(span[m] \subseteq S)
      BY <3>1, <1>7
    <3>3. LeftSpan(p) \cap RightSpan(p) = {}
      <4> SUFFICES ASSUME NEW x \in Tags, x < tag[p], x > tag[p] PROVE FALSE
        BY <1>1, ChildrenLinked DEF LeftSpan, RightSpan
      <4> QED BY <1>2, TagAssumption
    <3> QED BY <1>0, <2>4, <3>2, <3>3 DEF Inside
  <2> QED BY <1>1, <2>2, <2>3, <2>4 DEF TreeInv
<1>11. \A m \in Linked : Inside(n, m)' \/ span'[n] \cap span'[m] = {}
  <2> SUFFICES ASSUME NEW m \in Linked PROVE Inside(n, m)' \/ span'[n] \cap span'[m] = {}
    OBVIOUS
  <2>1. CASE m = p
    BY <2>1, <1>3, <1>6, <1>9 DEF Inside
  <2>2. CASE m # p
    BY <2>2, <1>3, <1>6, <1>10 DEF Inside
  <2> QED BY <2>1, <2>2
<1>12. \A l, m \in Linked' : l # m => Inside(l, m)' \/ Inside(m, l)' \/ span'[l] \cap span'[m] = {}
  BY <1>5, <1>6, <1>8, <1>11 DEF TreeInv
<1>13. /\ root \in reserved' /\ Linked' \subseteq reserved' /\ span'[root] = Tags
  BY <1>1, <1>3, <1>5, <1>6 DEF TreeInv, Linked
<1>14. \A m \in Linked' : /\ tag'[m] \in span'[m]
                          /\ left'[m] # NULL => span'[left'[m]] = LeftSpan(m)'
                          /\ right'[m] # NULL => span'[right'[m]] = RightSpan(m)'
  <2>1. \A m \in Linked' : tag'[m] \in span'[m]
    BY <1>0, <1>2, <1>3, <1>5, <1>6 DEF TreeInv
  <2>2. \A m \in Linked \ {p} : /\ left'[m] # NULL => span'[left'[m]] = LeftSpan(m)'
                                /\ right'[m] # NULL => span'[right'[m]] = RightSpan(m)'
    BY <1>3, <1>6, ChildrenLinked DEF TreeInv
  <2>3. /\ left'[p] # NULL => span'[left'[p]] = LeftSpan(p)'
        /\ right'[p] # NULL => span'[right'[p]] = RightSpan(p)'
    <3>1. /\ left[p] # NULL => span'[left[p]] = LeftSpan(p)'
          /\ right[p] # NULL => span'[right[p]] = RightSpan(p)'
      BY <1>1, <1>6, ChildrenLinked DEF TreeInv
    <3>2. LeftSpan(p)' = LeftSpan(p) /\ RightSpan(p)' = RightSpan(p)
      BY <1>1, <1>6
    <3>3. CASE g < tag[p]
      <4>1. left'[p] = n /\ right'[p] = right[p] /\ S = LeftSpan(p)
        BY <3>3, <1>0, <1>2, <1>4
      <4> QED BY <4>1, <3>1, <3>2, <1>3
    <3>4. CASE ~(g < tag[p])
      <4>1. right'[p] = n /\ left'[p] = left[p] /\ S = RightSpan(p)
        BY <3>4, <1>0, <1>2, <1>4
      <4> QED BY <4>1, <3>1, <3>2, <1>3
    <3> QED BY <3>3, <3>4
  <2>4. left'[n] = NULL /\ right'[n] = NULL
    BY <1>1, <1>2, <1>3
  <2> QED BY <2>1, <2>2, <2>3, <2>4, <1>5
<1>15. \A l, m \in Linked' : tag'[l] \in span'[m] => /\ tag'[l] < tag'[m] => left'[m] # NULL
                                                     /\ tag'[l] > tag'[m] => right'[m] # NULL
  <2>1. \A l, m \in Linked : tag[l] \in span[m] => /\ tag[l] < tag[m] => left'[m] # NULL
                                                   /\ tag[l] > tag[m] => right'[m] # NULL
    BY <1>1, <1>3, <1>4, <1>6 DEF TreeInv
  <2>2. \A l \in Linked' : tag[l] \in S => l = n
    BY <1>5, <1>7
  <2>3. ~(g < g) /\ ~(g > g)
    BY <1>2
  <2>4. \A m \in Linked \ {p} : g \in span[m] => /\ g < tag[m] => left'[m] # NULL
                                                 /\ g > tag[m] => right'[m] # NULL
    <3> SUFFICES ASSUME NEW m \in Linked \ {p}, g \in span[m]
                 PROVE  /\ g < tag[m] => left'[m] # NULL
                        /\ g > tag[m] => right'[m] # NULL
      OBVIOUS
    <3>1. m # n /\ m \in Linked /\ tag[m] \in Int
      BY <1>1, ChildrenLinked, TagAssumption
    <3>2. CASE span[p] \subseteq LeftSpan(m)
      <4>1. tag[p] \in LeftSpan(m) /\ g \in LeftSpan(m)
        BY <3>2, <1>1 DEF TreeInv
      <4>2. g < tag[m] /\ tag[p] < tag[m] /\ tag[p] \in span[m]
        BY <4>1 DEF LeftSpan
      <4>3. left[m] # NULL
        BY <4>2, <1>1 DEF TreeInv
      <4> QED BY <4>2, <4>3, <3>1, <1>2, <1>3, <1>6
    <3>3. CASE span[p] \subseteq RightSpan(m)
      <4>1. tag[p] \in RightSpan(m) /\ g \in RightSpan(m)
        BY <3>3, <1>1 DEF TreeInv
      <4>2. g > tag[m] /\ tag[p] > tag[m] /\ tag[p] \in span[m]
        BY <4>1 DEF RightSpan
      <4>3. right[m] # NULL
        BY <4>2, <1>1 DEF TreeInv
      <4> QED BY <4>2, <4>3, <3>1, <1>2, <1>3, <1>6
    <3>4. CASE Inside(m, p)
      <4>1. tag[m] \in span[m] /\ g \in span[m]
        BY DEF TreeInv
      <4>2. CASE span[m] \subseteq LeftSpan(p)
        <5>1. g \in LeftSpan(p) /\ tag[m] \in LeftSpan(p)
          BY <4>1, <4>2
        <5>2. S = LeftSpan(p)
          BY <1>0, <5>1 DEF LeftSpan
        <5> QED BY <5>1, <5>2, <1>7
      <4>3. CASE span[m] \subseteq RightSpan(p)
        <5>1. g \in RightSpan(p) /\ tag[m] \in RightSpan(p)
          BY <4>1, <4>3
        <5>2. ~(g < tag[p])
          BY <5>1, <1>2 DEF RightSpan
        <5>3. S = RightSpan(p)
          BY <1>0, <5>2
        <5> QED BY <5>1, <5>3, <1>7
      <4> QED BY <3>4, <4>2, <4>3 DEF Inside
    <3>5. span[p] \cap span[m] # {}
      BY <1>1
    <3> QED BY <3>1, <3>2, <3>3, <3>4, <3>5, <1>1 DEF TreeInv, Inside
  <2>5. g \in span[p] => /\ g < tag[p] => left'[p] # NULL
                         /\ g > tag[p] => right'[p] # NULL
    BY <1>1, <1>2, <1>4
  <2>6. \A m \in Linked : g \in span'[m] => /\ g < tag'[m] => left'[m] # NULL
                                            /\ g > tag'[m] => right'[m] # NULL
    BY <2>4, <2>5, <1>3, <1>6
  <2> SUFFICES ASSUME NEW l \in Linked', NEW m \in Linked', tag'[l] \in span'[m]
               PROVE  /\ tag'[l] < tag'[m] => left'[m] # NULL
                      /\ tag'[l] > tag'[m] => right'[m] # NULL
    OBVIOUS
  <2>7. CASE m = n
    <3>1. l = n
      BY <2>2, <2>7, <1>3
    <3> QED BY <3>1, <2>3, <2>7, <1>0, <1>3
  <2>8. CASE m # n /\ l = n
    <3>1. m \in Linked /\ tag'[l] = g
      BY <2>8, <1>0, <1>3, <1>5
    <3>2. g \in span'[m]
      BY <3>1
    <3>3. /\ g < tag'[m] => left'[m] # NULL
          /\ g > tag'[m] => right'[m] # NULL
      BY <3>1, <3>2, <2>6
    <3> QED BY <3>1, <3>3
  <2>9. CASE m # n /\ l # n
    <3>1. l \in Linked /\ m \in Linked
      BY <2>9, <1>5
    <3>2. tag[l] \in span[m] /\ tag'[l] = tag[l] /\ tag'[m] = tag[m]
      BY <3>1, <1>3, <1>6
    <3>3. /\ tag[l] < tag[m] => left'[m] # NULL
          /\ tag[l] > tag[m] => right'[m] # NULL
      BY <3>1, <3>2, <2>1
    <3> QED BY <3>2, <3>3
  <2> QED BY <2>7, <2>8, <2>9
<1>16. TreeInv'
  <2>1. root \in reserved' /\ Linked' \subseteq reserved' /\ (span[root] = Tags)'
    BY <1>13
  <2>2. (\A m \in Linked : /\ tag[m] \in span[m]
                           /\ left[m] # NULL => span[left[m]] = LeftSpan(m)
                           /\ right[m] # NULL => span[right[m]] = RightSpan(m))'
    BY <1>14
  <2>3. (\A m, l \in Linked : m # l => Inside(m, l) \/ Inside(l, m) \/ span[m] \cap span[l] = {})'
    BY <1>12
  <2>4. (\A m, l \in Linked : tag[m] \in span[l] => /\ tag[m] < tag[l] => left[l] # NULL
                                                    /\ tag[m] > tag[l] => right[l] # NULL)'
    BY <1>15
  <2> QED BY <2>1, <2>2, <2>3, <2>4, Zenon DEF TreeInv
<1>17. LinkedKept
  BY <1>1, <1>3, <1>4, <1>5, <1>6 DEF LinkedKept, TreeInv
<1> QED BY <1>0, <1>5, <1>16, <1>17

(* Only Create, CasWins and CasLoses touch the tree. *)
LEMMA TreeStep ==
  ASSUME TypeOK, TreeInv, SearchInv, [Next]_vars
  PROVE  TreeInv' /\ LinkedKept
<1>1. CASE UNCHANGED tree
  BY <1>1, QuietTree
<1>2. ASSUME NEW t \in Threads, NEW n \in Nodes, Create(t, n) PROVE TreeInv' /\ LinkedKept
  BY <1>2, CreateTree
<1>3. ASSUME NEW t \in Threads, CasWins(t) PROVE TreeInv' /\ LinkedKept
  BY <1>3, WinTree
<1>4. ASSUME NEW t \in Threads, CasLoses(t) PROVE TreeInv' /\ LinkedKept
  BY <1>4, LoseTree
<1>5. ASSUME NEW t \in Threads, Begin(t) \/ LockKeys(t) PROVE UNCHANGED tree
  BY <1>5 DEF Begin, KeyCall, MatchCall, WalkCall, Call, LockKeys, fields, tree
<1>6. ASSUME NEW t \in Threads,
             \/ Reach(t) \/ Descend(t) \/ CreateFails(t) \/ RemoveMisses(t) \/ MatchMisses(t)
             \/ Search(t) \/ Link(t) \/ Unlink(t) \/ Count(t) \/ UnlockKeys(t)
             \/ CopyKeys(t) \/ CopyFails(t) \/ UnlockAndMerge(t)
             \/ PushLeft(t) \/ PushFails(t) \/ Pop(t) \/ Report(t) \/ GoRight(t) \/ WalkEnds(t)
             \/ Return(t)
      PROVE UNCHANGED tree
  BY <1>6 DEF Reach, Descend, CreateFails, RemoveMisses, MatchMisses, Search, Link, Unlink, Count,
              UnlockKeys, CopyKeys, CopyFails, UnlockAndMerge, PushLeft, PushFails, Pop, Report,
              GoRight, WalkEnds, Return, fields, lists, tree
<1>7. CASE UNCHANGED vars
  BY <1>1, <1>7 DEF vars, tree
<1> QED BY <1>1, <1>2, <1>3, <1>4, <1>5, <1>6, <1>7 DEF Next, Free

(***************************************************************************)
(* The threads in the tree.                                                *)
(***************************************************************************)

Moves(t) == Begin(t) \/ LockKeys(t) \/ Free(t)

(* What the step of thread t does to the variables of the others: nothing. *)
OthersLeft(t) ==
  \A u \in Threads \ {t} :
    /\ pc'[u] = pc[u] /\ op'[u] = op[u] /\ want'[u] = want[u] /\ pos'[u] = pos[u]
    /\ key'[u] = key[u] /\ node'[u] = node[u] /\ new'[u] = new[u] /\ stack'[u] = stack[u]

LEMMA OthersStay ==
  ASSUME TypeOK, NEW t \in Threads, Moves(t)
  PROVE  OthersLeft(t)
<1>1. CASE Begin(t) \/ LockKeys(t)
  <2>1. CASE LockKeys(t)
    BY <2>1 DEF LockKeys, call, match, walk, history, Goto, TypeOK, OthersLeft
  <2>2. CASE Begin(t)
    <3>1. PICK f, gs, k, l : Call(t, f, gs, k, l)
      BY <2>2 DEF Begin, KeyCall, MatchCall, WalkCall
    <3> QED BY <3>1 DEF Call, match, walk, Goto, TypeOK, OthersLeft
  <2> QED BY <1>1, <2>1, <2>2
<1>2. CASE Reach(t) \/ Descend(t) \/ CreateFails(t) \/ CasWins(t) \/ CasLoses(t)
           \/ \E n \in Nodes : Create(t, n)
  BY <1>2 DEF Reach, Descend, CreateFails, CasWins, CasLoses, Create, call, match, walk, history,
              Goto, TypeOK, OthersLeft
<1>3. CASE RemoveMisses(t) \/ UnlockKeys(t) \/ Return(t)
  BY <1>3 DEF RemoveMisses, UnlockKeys, Return, Leave, Goto, TypeOK, OthersLeft
<1>4. CASE MatchMisses(t) \/ UnlockAndMerge(t)
  <2>1. PICK list : Merge(t, list)
    BY <1>4 DEF MatchMisses, UnlockAndMerge
  <2> QED BY <2>1 DEF Merge, walk, Goto, TypeOK, OthersLeft
<1>5. CASE Search(t) \/ Link(t) \/ Unlink(t) \/ Count(t) \/ CopyKeys(t) \/ CopyFails(t)
  <2>1. UNCHANGED <<op, want, pos, key, node, new, stack>>
    BY <1>5 DEF Search, Link, Unlink, Count, CopyKeys, CopyFails, call, walk
  <2>2. \/ \E label : Goto(t, label)
        \/ UNCHANGED pc
    BY <1>5 DEF Search, Link, Unlink, Count, CopyKeys, CopyFails
  <2> QED BY <2>1, <2>2 DEF Goto, TypeOK, OthersLeft
<1>6. CASE PushLeft(t) \/ PushFails(t) \/ Pop(t) \/ Report(t) \/ GoRight(t) \/ WalkEnds(t)
  BY <1>6 DEF PushLeft, PushFails, Pop, Report, GoRight, WalkEnds, call, match, walk, history,
              Goto, TypeOK, OthersLeft
<1> QED BY <1>1, <1>2, <1>3, <1>4, <1>5, <1>6 DEF Moves, Free

(* A node that thread u is about to link belongs to u alone. *)
LEMMA NewKept ==
  ASSUME TypeOK, TreeInv, SearchInv, NEW t \in Threads, Moves(t),
         NEW u \in Threads \ {t}, pc[u] = "cas"
  PROVE  /\ new[u] \in reserved' \ Linked'
         /\ tag'[new[u]] = tag[new[u]] /\ left'[new[u]] = NULL /\ right'[new[u]] = NULL
         /\ \A v \in Threads \ {u} : new'[v] # new[u]
<1>1. /\ new[u] \in Nodes /\ new[u] # NULL /\ new[u] \in reserved /\ new[u] \notin Linked
      /\ left[new[u]] = NULL /\ right[new[u]] = NULL
      /\ \A v \in Threads \ {u} : new[v] # new[u]
  BY TagAssumption DEF SearchInv, Placed, TypeOK
<1>2. \A v \in Threads \ {t} : new'[v] = new[v]
  BY OthersStay DEF OthersLeft
<1>3. CASE UNCHANGED tree /\ new'[t] \in {new[t], NULL}
  <2>1. Linked' = Linked
    BY <1>3, QuietTree
  <2> QED BY <1>1, <1>2, <1>3, <2>1 DEF tree
<1>4. CASE \E n \in Nodes : Create(t, n)
  <2>1. PICK n \in Nodes : Create(t, n)
    BY <1>4
  <2>2. Linked' = Linked
    BY <2>1, CreateTree
  <2>3. n # new[u] /\ new'[t] = n
    BY <1>1, <2>1 DEF Create, TypeOK
  <2> QED BY <1>1, <1>2, <2>1, <2>2, <2>3 DEF Create, TypeOK
<1>5. CASE CasWins(t)
  <2>1. Linked' = Linked \cup {new[t]} /\ new[t] # new[u]
    BY <1>1, <1>5, WinTree
  <2>2. node[t] # new[u]
    BY <1>1, <1>5 DEF CasWins, At, SearchInv, Placed
  <2> QED BY <1>1, <1>2, <1>5, <2>1, <2>2 DEF CasWins, TypeOK
<1>6. CASE CasLoses(t)
  <2>1. Linked' = Linked /\ new[t] # new[u]
    BY <1>1, <1>6, LoseTree
  <2> QED BY <1>1, <1>2, <1>6, <2>1 DEF CasLoses, TypeOK
<1>7. CASE Begin(t) \/ LockKeys(t)
  BY <1>3, <1>7 DEF Begin, KeyCall, MatchCall, WalkCall, Call, LockKeys, fields, tree
<1>8. CASE \/ Reach(t) \/ Descend(t) \/ CreateFails(t) \/ MatchMisses(t)
           \/ Search(t) \/ Link(t) \/ Unlink(t) \/ Count(t)
           \/ CopyKeys(t) \/ CopyFails(t) \/ UnlockAndMerge(t)
           \/ PushLeft(t) \/ PushFails(t) \/ Pop(t) \/ Report(t) \/ GoRight(t) \/ WalkEnds(t)
  <2>1. UNCHANGED tree
    BY <1>8 DEF Reach, Descend, CreateFails, MatchMisses, Search, Link, Unlink, Count,
                CopyKeys, CopyFails, UnlockAndMerge, PushLeft, PushFails, Pop, Report,
                GoRight, WalkEnds, fields, lists, tree
  <2>2. UNCHANGED new
    BY <1>8 DEF Reach, Descend, CreateFails, MatchMisses, Search, Link, Unlink, Count, Merge,
                CopyKeys, CopyFails, UnlockAndMerge, PushLeft, PushFails, Pop, Report,
                GoRight, WalkEnds
  <2> QED BY <1>3, <2>1, <2>2
<1>9. CASE RemoveMisses(t) \/ UnlockKeys(t) \/ Return(t)
  <2>1. UNCHANGED tree
    BY <1>9 DEF RemoveMisses, UnlockKeys, Return, fields, tree
  <2>2. new' = [new EXCEPT ![t] = NULL]
    BY <1>9 DEF RemoveMisses, UnlockKeys, Return, Leave
  <2> QED BY <1>3, <2>1, <2>2 DEF TypeOK
<1> QED BY <1>4, <1>5, <1>6, <1>7, <1>8, <1>9 DEF Moves, Free

LEMMA OthersPlaced ==
  ASSUME TypeOK, TreeInv, SearchInv, LinkedKept, NEW t \in Threads, Moves(t),
         NEW u \in Threads \ {t}
  PROVE  Placed(u)'
<1>1. /\ pc'[u] = pc[u] /\ op'[u] = op[u] /\ want'[u] = want[u] /\ pos'[u] = pos[u]
      /\ node'[u] = node[u] /\ new'[u] = new[u] /\ stack'[u] = stack[u]
  BY OthersStay DEF OthersLeft
<1>2. Placed(u) /\ Wanted(u)' = Wanted(u)
  BY <1>1 DEF SearchInv, Wanted
<1>3. Locked(u)' <=> Locked(u)
  BY <1>1 DEF Locked
<1>4. \A n \in Linked : n \in Linked' /\ tag'[n] = tag[n] /\ span'[n] = span[n]
  BY DEF LinkedKept
<1>5. pc[u] = "cas" =>
        /\ new[u] \in reserved' \ Linked'
        /\ tag'[new[u]] = tag[new[u]] /\ left'[new[u]] = NULL /\ right'[new[u]] = NULL
        /\ \A v \in Threads \ {u} : new'[v] # new[u]
  BY NewKept
<1> QED BY <1>1, <1>2, <1>3, <1>4, <1>5 DEF Placed

(* The child on the side of the wanted tag is the one it belongs below. *)
LEMMA ChildSpan ==
  ASSUME TypeOK, TreeInv, SearchInv, NEW t \in Threads, pc[t] \in {"descend", "cas"},
         tag[node[t]] # Wanted(t), Child(t) # NULL
  PROVE  Child(t) \in Linked /\ Wanted(t) \in span[Child(t)]
<1>1. node[t] \in Linked /\ Wanted(t) \in span[node[t]]
  BY DEF SearchInv, Placed
<1>2. Wanted(t) \in Int /\ tag[node[t]] \in Int
  BY <1>1, ChildrenLinked, TagAssumption
<1>3. CASE Wanted(t) < tag[node[t]]
  BY <1>1, <1>3, ChildrenLinked DEF Child, TreeInv, LeftSpan
<1>4. CASE ~(Wanted(t) < tag[node[t]])
  <2>1. Wanted(t) > tag[node[t]]
    BY <1>2, <1>4
  <2> QED BY <1>1, <1>4, <2>1, ChildrenLinked DEF Child, TreeInv, RightSpan
<1> QED BY <1>3, <1>4

LEMMA LeavePlaced ==
  ASSUME TypeOK, SearchInv, LinkedKept, NEW t \in Threads, Leave(t)
  PROVE  Placed(t)'
<1>1. /\ pc'[t] = "idle" /\ pos'[t] = 1 /\ new'[t] = NULL /\ stack'[t] = <<>>
  BY DEF Leave, Goto, TypeOK
<1> QED BY <1>1 DEF Placed, Locked

LEMMA MergePlaced ==
  ASSUME TypeOK, TreeInv, SearchInv, UNCHANGED tree, NEW t \in Threads, Matching(t),
         pc[t] \in {"descend", "unlock"}, NEW list, Merge(t, list)
  PROVE  Placed(t)'
<1>1. /\ op'[t] = op[t] /\ op[t] # "walk" /\ want'[t] = want[t] /\ stack'[t] = stack[t]
      /\ new'[t] = NULL /\ want[t] \in Seq(Tags)
  BY DEF Merge, walk, Matching, SearchInv, Placed, TypeOK
<1>2. Linked' = Linked /\ root \in Linked' /\ span'[root] = Tags
  BY QuietTree DEF Linked, TreeInv
<1>3. CASE pos[t] < Len(want[t])
  <2>1. pc'[t] = "descend" /\ node'[t] = root /\ pos'[t] = pos[t] + 1 /\ pos[t] \in Nat
    BY <1>3 DEF Merge, Goto, TypeOK
  <2>2. pos'[t] \in DOMAIN want[t]
    BY <1>1, <1>3, <2>1
  <2>3. Wanted(t)' \in Tags
    BY <1>1, <2>2 DEF Wanted
  <2> QED BY <1>1, <1>2, <2>1, <2>2, <2>3 DEF Placed, Locked, SearchInv
<1>4. CASE ~(pos[t] < Len(want[t]))
  <2>1. pc'[t] = "return" /\ node'[t] = NULL
    BY <1>4 DEF Merge, Goto, TypeOK
  <2> QED BY <1>1, <1>2, <2>1 DEF Placed, Locked, SearchInv
<1> QED BY <1>3, <1>4

LEMMA OwnPlaced ==
  ASSUME TypeOK, TypeOK', TreeInv, SearchInv, LinkedKept, TreeInv', NEW t \in Threads, Moves(t)
  PROVE  Placed(t)'
<1> USE DEF At
<1>1. Placed(t) /\ \A n \in Linked : n \in Linked' /\ tag'[n] = tag[n] /\ span'[n] = span[n]
  BY DEF SearchInv, LinkedKept
<1>2. ASSUME NEW f, NEW gs \in Seq(Tags), NEW k, NEW label, Call(t, f, gs, k, label),
             \/ f \in {"add", "remove", "any", "all"} /\ gs # <<>> /\ label = "descend"
             \/ f \in {"any", "all"} /\ label = "return"
             \/ f = "walk" /\ label = "push"
      PROVE Placed(t)'
  <2>1. /\ pos'[t] = 1 /\ op'[t] = f /\ want'[t] = gs /\ node'[t] = root /\ new'[t] = NULL
        /\ stack'[t] = stack[t] /\ pc'[t] = label
    BY <1>1, <1>2 DEF Call, Goto, match, walk, Placed, TypeOK
  <2>2. root \in Linked' /\ span'[root] = Tags
    BY DEF TreeInv, Linked
  <2>3. gs # <<>> => 1 \in DOMAIN gs /\ Wanted(t)' \in Tags
    BY <2>1 DEF Wanted
  <2> QED BY <1>1, <1>2, <2>1, <2>2, <2>3 DEF Placed, Locked
<1>3. CASE Begin(t)
  <2>1. ASSUME NEW f \in {"add", "remove"}, NEW g \in Tags, NEW k \in Keys, KeyCall(t, f, g, k)
        PROVE Placed(t)'
    <3>1. <<g>> \in Seq(Tags) /\ <<g>> # <<>>
      OBVIOUS
    <3>2. Call(t, f, <<g>>, k, "descend")
      BY <2>1 DEF KeyCall
    <3> QED BY <3>1, <3>2, <1>2
  <2>2. ASSUME NEW f \in {"any", "all"}, NEW gs \in TagLists, MatchCall(t, f, gs)
        PROVE Placed(t)'
    <3>1. gs \in Seq(Tags)
      BY TagAssumption
    <3>2. CASE gs = <<>>
      <4>1. Call(t, f, gs, NULL, "return")
        BY <2>2, <3>2 DEF MatchCall
      <4> QED BY <3>1, <4>1, <1>2
    <3>3. CASE gs # <<>>
      <4>1. Call(t, f, gs, NULL, "descend")
        BY <2>2, <3>3 DEF MatchCall
      <4> QED BY <3>1, <3>3, <4>1, <1>2
    <3> QED BY <3>2, <3>3
  <2>3. ASSUME WalkCall(t) PROVE Placed(t)'
    <3>1. <<>> \in Seq(Tags) /\ Call(t, "walk", <<>>, NULL, "push")
      BY <2>3 DEF WalkCall
    <3> QED BY <3>1, <1>2
  <2> QED BY <1>3, <2>1, <2>2, <2>3 DEF Begin
<1>4. CASE LockKeys(t) \/ Reach(t)
  <2>1. /\ op'[t] = op[t] /\ want'[t] = want[t] /\ pos'[t] = pos[t] /\ node'[t] = node[t]
        /\ new'[t] = new[t] /\ stack'[t] = stack[t] /\ pc'[t] \in {"lock", "locked"}
        /\ pc[t] \in {"lock", "descend"}
    BY <1>4 DEF LockKeys, Reach, call, walk, Goto, TypeOK
  <2> QED BY <1>1, <2>1 DEF Placed, Locked
<1>5. CASE Descend(t)
  <2>1. Child(t) \in Linked /\ Wanted(t) \in span[Child(t)]
    BY <1>5, ChildSpan DEF Descend
  <2>2. /\ op'[t] = op[t] /\ want'[t] = want[t] /\ pos'[t] = pos[t] /\ node'[t] = Child(t)
        /\ new'[t] = new[t] /\ stack'[t] = stack[t] /\ pc'[t] = "descend" /\ pc[t] = "descend"
        /\ Wanted(t)' = Wanted(t)
    BY <1>5 DEF Descend, call, walk, Goto, TypeOK, Wanted
  <2> QED BY <1>1, <2>1, <2>2 DEF Placed, Locked
<1>6. ASSUME NEW n \in Nodes, Create(t, n) PROVE Placed(t)'
  <2>1. /\ op'[t] = op[t] /\ want'[t] = want[t] /\ pos'[t] = pos[t] /\ node'[t] = node[t]
        /\ new'[t] = n /\ stack'[t] = stack[t] /\ pc'[t] = "cas" /\ pc[t] = "descend"
        /\ op[t] = "add" /\ Wanted(t) # tag[node[t]] /\ n \notin reserved
        /\ Wanted(t)' = Wanted(t)
    BY <1>6 DEF Create, AtLeaf, call, walk, Goto, TypeOK, Wanted
  <2>2. /\ n \in reserved' \ Linked' /\ tag'[n] = Wanted(t) /\ left'[n] = NULL /\ right'[n] = NULL
        /\ tag'[node[t]] = tag[node[t]]
    <3>1. Linked' = Linked /\ n \notin Linked
      BY <1>6, CreateTree
    <3>2. n \in reserved' /\ tag'[n] = Wanted(t) /\ left'[n] = NULL /\ right'[n] = NULL
      BY <1>6 DEF Create, TypeOK
    <3>3. node[t] \in Linked
      BY <1>1, <2>1 DEF Placed
    <3> QED BY <1>1, <3>1, <3>2, <3>3
  <2>3. \A u \in Threads \ {t} : new'[u] # n
    BY <1>6, <2>1, TagAssumption DEF Create, TypeOK, SearchInv, Placed
  <2> QED BY <1>1, <2>1, <2>2, <2>3 DEF Placed, Locked
<1>7. CASE CasWins(t)
  <2>1. /\ op'[t] = op[t] /\ want'[t] = want[t] /\ pos'[t] = pos[t] /\ node'[t] = new[t]
        /\ new'[t] = NULL /\ stack'[t] = stack[t] /\ pc'[t] = "descend" /\ pc[t] = "cas"
        /\ Wanted(t)' = Wanted(t)
    BY <1>7 DEF CasWins, call, walk, Goto, TypeOK, Wanted
  <2>2. new[t] \in Linked' /\ tag'[new[t]] = Wanted(t)
    BY <1>1, <1>7, <2>1, WinTree DEF CasWins, Placed
  <2>3. Wanted(t) \in span'[new[t]]
    BY <2>2 DEF TreeInv
  <2> QED BY <1>1, <2>1, <2>2, <2>3 DEF Placed, Locked
<1>8. CASE CasLoses(t)
  <2>1. Child(t) \in Linked /\ Wanted(t) \in span[Child(t)]
    BY <1>1, <1>8, ChildSpan DEF CasLoses, Placed
  <2>2. /\ op'[t] = op[t] /\ want'[t] = want[t] /\ pos'[t] = pos[t] /\ node'[t] = Child(t)
        /\ new'[t] = NULL /\ stack'[t] = stack[t] /\ pc'[t] = "descend" /\ pc[t] = "cas"
        /\ Wanted(t)' = Wanted(t)
    BY <1>8 DEF CasLoses, call, walk, Goto, TypeOK, Wanted
  <2> QED BY <1>1, <2>1, <2>2 DEF Placed, Locked
<1>9. CASE RemoveMisses(t) \/ UnlockKeys(t) \/ Return(t)
  BY <1>9, LeavePlaced DEF RemoveMisses, UnlockKeys, Return
<1>10. CASE MatchMisses(t)
  BY <1>10, MergePlaced DEF MatchMisses, AtLeaf, fields, tree
<1>11. CASE UnlockAndMerge(t)
  BY <1>11, MergePlaced DEF UnlockAndMerge, tree
<1>12. CASE CreateFails(t) \/ PushFails(t)
  <2>1. UNCHANGED tree /\ UNCHANGED <<pc, op, want, pos, node, new, stack>>
    BY <1>12 DEF CreateFails, PushFails, fields, tree, call, walk
  <2>2. Linked' = Linked
    BY <2>1, QuietTree
  <2> QED BY <1>1, <2>1, <2>2 DEF Placed, Locked, tree, Wanted
<1>13. CASE Search(t) \/ Link(t) \/ Unlink(t) \/ Count(t) \/ CopyKeys(t) \/ CopyFails(t)
  <2>1. UNCHANGED <<op, want, pos, node, new, stack>>
    BY <1>13 DEF Search, Link, Unlink, Count, CopyKeys, CopyFails, call, walk
  <2>2. Locked(t) /\ Locked(t)'
    BY <1>13 DEF Search, Link, Unlink, Count, CopyKeys, CopyFails, Goto, TypeOK, Locked
  <2> QED BY <1>1, <2>1, <2>2 DEF Placed, Locked
<1>14. CASE PushLeft(t)
  <2>1. /\ op'[t] = op[t] /\ node'[t] = left[node[t]] /\ pc'[t] = "push" /\ pc[t] = "push"
        /\ new'[t] = new[t] /\ stack'[t] = <<node[t]>> \o stack[t]
        /\ node[t] \in Linked /\ op[t] = "walk"
    BY <1>1, <1>14 DEF PushLeft, call, match, TypeOK, Placed
  <2>2. left[node[t]] \in Linked \cup {NULL}
    BY <2>1, ChildrenLinked
  <2>3. stack[t] \in Seq(Linked)
    BY <1>1 DEF TypeOK, Placed
  <2>4. \A i \in DOMAIN stack'[t] : stack'[t][i] \in Linked
    BY <2>1, <2>3
  <2> QED BY <1>1, <2>1, <2>2, <2>4 DEF Placed, Locked
<1>15. CASE Pop(t)
  <2>1. /\ op'[t] = op[t] /\ node'[t] = Head(stack[t]) /\ pc'[t] = "lock" /\ pc[t] = "push"
        /\ new'[t] = new[t] /\ stack'[t] = Tail(stack[t]) /\ op[t] = "walk"
    BY <1>1, <1>15 DEF Pop, call, match, Goto, TypeOK, Placed
  <2>2. stack[t] \in Seq(Linked) /\ stack[t] # <<>>
    BY <1>1, <1>15 DEF TypeOK, Placed, Pop
  <2>3. Head(stack[t]) \in Linked /\ \A i \in DOMAIN stack'[t] : stack'[t][i] \in Linked
    BY <2>1, <2>2
  <2> QED BY <1>1, <2>1, <2>3 DEF Placed, Locked
<1>16. CASE Report(t)
  <2>1. /\ op'[t] = op[t] /\ node'[t] = node[t] /\ pc'[t] = "report" /\ pc[t] = "locked"
        /\ new'[t] = new[t] /\ stack'[t] = stack[t] /\ op[t] = "walk"
    BY <1>16 DEF Report, call, match, Goto, TypeOK
  <2> QED BY <1>1, <2>1 DEF Placed, Locked
<1>17. CASE GoRight(t)
  <2>1. /\ op'[t] = op[t] /\ node'[t] = right[node[t]] /\ pc'[t] = "push" /\ pc[t] = "report"
        /\ new'[t] = new[t] /\ stack'[t] = stack[t]
    BY <1>17 DEF GoRight, call, match, walk, Goto, TypeOK
  <2>2. op[t] = "walk" /\ right[node[t]] \in Linked \cup {NULL}
    BY <1>1, <2>1, ChildrenLinked DEF Placed
  <2> QED BY <1>1, <2>1, <2>2 DEF Placed, Locked
<1>18. CASE WalkEnds(t)
  <2>1. /\ op'[t] = op[t] /\ pc'[t] = "return" /\ pc[t] = "push"
        /\ new'[t] = new[t] /\ stack'[t] = stack[t]
    BY <1>18 DEF WalkEnds, call, match, walk, Goto, TypeOK
  <2> QED BY <1>1, <2>1 DEF Placed, Locked
<1> QED BY <1>3, <1>4, <1>5, <1>6, <1>7, <1>8, <1>9, <1>10, <1>11, <1>12, <1>13, <1>14, <1>15,
           <1>16, <1>17, <1>18 DEF Moves, Free

LEMMA SearchStep ==
  ASSUME TypeOK, TreeInv, SearchInv, ListInv, [Next]_vars
  PROVE  SearchInv'
<1>1. TypeOK' /\ TreeInv' /\ LinkedKept
  BY TypeStep, TreeStep
<1>2. ASSUME NEW t \in Threads, Moves(t) PROVE SearchInv'
  BY <1>1, <1>2, OwnPlaced, OthersPlaced DEF SearchInv
<1>3. CASE UNCHANGED vars
  <2>1. Linked' = Linked
    BY <1>3 DEF vars, Linked
  <2> QED BY <1>3, <2>1 DEF vars, SearchInv, Placed, Locked, Wanted
<1> QED BY <1>2, <1>3 DEF Next, Moves

(***************************************************************************)
(* The locks and the lists.                                                *)
(***************************************************************************)

(* The steps in which a thread neither takes nor leaves a list. *)
LEMMA LocksKept ==
  ASSUME TypeOK, LockInv, NEW t \in Threads, Moves(t), keys_lock' = keys_lock,
         Locked(t)' <=> Locked(t), Locked(t) => node'[t] = node[t]
  PROVE  LockInv'
<1>1. \A u \in Threads \ {t} : pc'[u] = pc[u] /\ node'[u] = node[u]
  BY OthersStay DEF OthersLeft
<1> QED BY <1>1 DEF LockInv, Locked

LEMMA LocksLeft ==
  ASSUME TypeOK, LockInv, NEW t \in Threads, Moves(t), Locked(t), ~Locked(t)', Unlock(t)
  PROVE  LockInv'
<1>1. \A u \in Threads \ {t} : pc'[u] = pc[u] /\ node'[u] = node[u]
  BY OthersStay DEF OthersLeft
<1>2. keys_lock' = [keys_lock EXCEPT ![node[t]] = NULL]
  BY DEF Unlock
<1>3. NULL \notin Threads
  BY TagAssumption
<1>4. \A u \in Threads \ {t} : Locked(u)' <=> Locked(u)
  BY <1>1 DEF Locked
<1>5. \A u \in Threads \ {t} : Locked(u) => node[u] # node[t] \/ node[t] \notin Nodes
  BY DEF LockInv
<1>6. \A n \in Nodes : keys_lock'[n] = IF n = node[t] THEN NULL ELSE keys_lock[n]
  BY <1>2 DEF TypeOK
<1> QED BY <1>1, <1>3, <1>4, <1>5, <1>6 DEF LockInv

LEMMA LockStep ==
  ASSUME TypeOK, TreeInv, SearchInv, LockInv, [Next]_vars
  PROVE  LockInv'
<1> USE DEF At
<1>1. ASSUME NEW t \in Threads, Begin(t) PROVE LockInv'
  <2>1. keys_lock' = keys_lock /\ pc[t] = "idle" /\ pc'[t] \in {"descend", "return", "push"}
    BY <1>1 DEF Begin, KeyCall, MatchCall, WalkCall, Call, Goto, fields, TypeOK
  <2> QED BY <1>1, <2>1, LocksKept DEF Moves, Locked
<1>2. ASSUME NEW t \in Threads, LockKeys(t) PROVE LockInv'
  <2>1. \A u \in Threads \ {t} : pc'[u] = pc[u] /\ node'[u] = node[u]
    BY <1>2, OthersStay DEF OthersLeft, Moves
  <2>2. /\ pc[t] = "lock" /\ pc'[t] = "locked" /\ node'[t] = node[t] /\ node[t] \in Nodes
        /\ keys_lock[node[t]] = NULL /\ keys_lock' = [keys_lock EXCEPT ![node[t]] = t]
    BY <1>2, Places DEF LockKeys, Goto, TypeOK
  <2>3. NULL \notin Threads
    BY TagAssumption
  <2>4. ~Locked(t) /\ Locked(t)' /\ \A u \in Threads \ {t} : Locked(u)' <=> Locked(u)
    BY <2>1, <2>2 DEF Locked
  <2>5. \A n \in Nodes : keys_lock'[n] = IF n = node[t] THEN t ELSE keys_lock[n]
    BY <2>2 DEF TypeOK
  <2>6. \A u \in Threads : Locked(u) => node[u] # node[t]
    BY <2>2, <2>3 DEF LockInv
  <2> QED BY <2>1, <2>2, <2>4, <2>5, <2>6 DEF LockInv
<1>3. ASSUME NEW t \in Threads, Reach(t) \/ Descend(t) \/ CreateFails(t) \/ CasWins(t) \/ CasLoses(t)
      PROVE LockInv'
  <2>1. keys_lock' = keys_lock /\ pc[t] \in {"descend", "cas"} /\ pc'[t] \in {"descend", "lock"}
    BY <1>3 DEF Reach, Descend, CreateFails, AtLeaf, CasWins, CasLoses, Goto, fields, TypeOK
  <2> QED BY <1>3, <2>1, LocksKept DEF Moves, Free, Locked
<1>4. ASSUME NEW t \in Threads, NEW n \in Nodes, Create(t, n) PROVE LockInv'
  <2>1. \A u \in Threads \ {t} : pc'[u] = pc[u] /\ node'[u] = node[u]
    BY <1>4, OthersStay DEF OthersLeft, Moves, Free
  <2>2. /\ keys_lock' = [keys_lock EXCEPT ![n] = NULL] /\ n \notin Linked
        /\ pc[t] = "descend" /\ pc'[t] = "cas"
    BY <1>4, CreateTree DEF Create, AtLeaf, Goto, TypeOK
  <2>3. \A u \in Threads : Locked(u) => node[u] # n
    BY <2>2, Places
  <2>4. NULL \notin Threads
    BY TagAssumption
  <2>5. ~Locked(t) /\ ~Locked(t)' /\ \A u \in Threads \ {t} : Locked(u)' <=> Locked(u)
    BY <2>1, <2>2 DEF Locked
  <2>6. \A m \in Nodes : keys_lock'[m] = IF m = n THEN NULL ELSE keys_lock[m]
    BY <2>2 DEF TypeOK
  <2> QED BY <2>1, <2>3, <2>4, <2>5, <2>6 DEF LockInv
<1>5. ASSUME NEW t \in Threads, RemoveMisses(t) \/ MatchMisses(t) \/ Return(t) PROVE LockInv'
  <2>1. keys_lock' = keys_lock /\ pc[t] \in {"descend", "return"}
    BY <1>5 DEF RemoveMisses, MatchMisses, AtLeaf, Return, fields
  <2>2. pc'[t] \in {"idle", "descend", "return"}
    BY <1>5 DEF RemoveMisses, MatchMisses, Return, Leave, Merge, Goto, TypeOK
  <2> QED BY <1>5, <2>1, <2>2, LocksKept DEF Moves, Free, Locked
<1>6. ASSUME NEW t \in Threads, Search(t) \/ Link(t) \/ Unlink(t) \/ Count(t) \/ CopyKeys(t) \/ CopyFails(t)
      PROVE LockInv'
  <2>1. keys_lock' = keys_lock /\ node'[t] = node[t] /\ Locked(t) /\ Locked(t)'
    BY <1>6 DEF Search, Link, Unlink, Count, CopyKeys, CopyFails, Goto, fields, TypeOK, Locked
  <2> QED BY <1>6, <2>1, LocksKept DEF Moves, Free
<1>7. ASSUME NEW t \in Threads, UnlockKeys(t) \/ UnlockAndMerge(t) \/ Report(t) PROVE LockInv'
  <2>1. Locked(t) /\ Unlock(t)
    BY <1>7 DEF UnlockKeys, UnlockAndMerge, Report, Locked
  <2>2. pc'[t] \in {"idle", "descend", "return", "report"}
    BY <1>7 DEF UnlockKeys, UnlockAndMerge, Report, Leave, Merge, Goto, TypeOK
  <2> QED BY <1>7, <2>1, <2>2, LocksLeft DEF Moves, Free, Locked
<1>8. ASSUME NEW t \in Threads, PushLeft(t) \/ PushFails(t) \/ Pop(t) \/ GoRight(t) \/ WalkEnds(t)
      PROVE LockInv'
  <2>1. keys_lock' = keys_lock /\ pc[t] \in {"push", "report"} /\ pc'[t] \in {"push", "lock", "return"}
    BY <1>8 DEF PushLeft, PushFails, Pop, GoRight, WalkEnds, Goto, fields, TypeOK
  <2> QED BY <1>8, <2>1, LocksKept DEF Moves, Free, Locked
<1>9. CASE UNCHANGED vars
  BY <1>9 DEF vars, LockInv, Locked
<1> QED BY <1>1, <1>2, <1>3, <1>4, <1>5, <1>6, <1>7, <1>8, <1>9 DEF Next, Free

(* Two threads that work on lists work on different lists. *)
LEMMA ListsApart ==
  ASSUME TypeOK, TreeInv, SearchInv, LockInv,
         NEW t \in Threads, NEW u \in Threads, Locked(t), Locked(u), node[t] = node[u]
  PROVE  t = u
BY Places DEF LockInv

(* What ListInv says of thread t. *)
Working(t) ==
  /\ op[t] \in {"add", "remove"} /\ pc[t] # "idle" => key[t] \in Keys
  /\ pc[t] \in {"link", "unlink", "count", "uncount"} => op[t] \in {"add", "remove"}
  /\ pc[t] = "link" => keys[node[t]][key[t]] = 0
  /\ pc[t] = "unlink" => keys[node[t]][key[t]] = 1

LEMMA OthersWorking ==
  ASSUME TypeOK, TreeInv, SearchInv, LockInv, ListInv, NEW t \in Threads, Moves(t),
         NEW u \in Threads \ {t}
  PROVE  Working(u)'
<1>1. /\ pc'[u] = pc[u] /\ op'[u] = op[u] /\ key'[u] = key[u] /\ node'[u] = node[u]
  BY OthersStay DEF OthersLeft
<1>2. pc[u] \in {"link", "unlink"} => keys'[node[u]] = keys[node[u]]
  <2> SUFFICES ASSUME pc[u] \in {"link", "unlink"} PROVE keys'[node[u]] = keys[node[u]]
    OBVIOUS
  <2>1. Locked(u) /\ node[u] \in Linked /\ node[u] \in Nodes
    BY Places DEF Locked
  <2>2. CASE keys' = keys
    BY <2>2
  <2>3. CASE Link(t) \/ Unlink(t)
    <3>1. Locked(t)
      BY <2>3 DEF Link, Unlink, At, Locked
    <3>2. node[t] # node[u]
      BY <2>1, <3>1, ListsApart
    <3> QED BY <2>1, <2>3, <3>2 DEF Link, Unlink, TypeOK
  <2>4. ASSUME NEW n \in Nodes, Create(t, n) PROVE keys'[node[u]] = keys[node[u]]
    <3>1. n # node[u]
      BY <2>1, <2>4, CreateTree
    <3> QED BY <2>1, <2>4, <3>1 DEF Create, TypeOK
  <2>5. CASE Begin(t) \/ LockKeys(t)
    BY <2>2, <2>5 DEF Begin, KeyCall, MatchCall, WalkCall, Call, LockKeys, fields, lists
  <2>6. CASE \/ Reach(t) \/ Descend(t) \/ CreateFails(t) \/ CasWins(t) \/ CasLoses(t)
             \/ RemoveMisses(t) \/ MatchMisses(t)
             \/ Search(t) \/ Count(t) \/ UnlockKeys(t)
             \/ CopyKeys(t) \/ CopyFails(t) \/ UnlockAndMerge(t)
             \/ PushLeft(t) \/ PushFails(t) \/ Pop(t) \/ Report(t) \/ GoRight(t) \/ WalkEnds(t)
             \/ Return(t)
    BY <2>2, <2>6 DEF Reach, Descend, CreateFails, CasWins, CasLoses, RemoveMisses, MatchMisses,
       Search, Count, UnlockKeys, CopyKeys, CopyFails, UnlockAndMerge, PushLeft, PushFails, Pop,
       Report, GoRight, WalkEnds, Return, fields, lists
  <2> QED BY <2>3, <2>4, <2>5, <2>6 DEF Moves, Free
<1> QED BY <1>1, <1>2 DEF ListInv, Working

LEMMA OwnWorking ==
  ASSUME TypeOK, TreeInv, SearchInv, LockInv, ListInv, NEW t \in Threads, Moves(t)
  PROVE  Working(t)'
<1> USE DEF At
<1>1. Working(t)
  BY DEF ListInv, Working
<1>2. CASE Begin(t)
  <2>1. pc'[t] \in {"descend", "return", "push"} /\ (op'[t] \in {"add", "remove"} => key'[t] \in Keys)
    BY <1>2 DEF Begin, KeyCall, MatchCall, WalkCall, Call, Goto, TypeOK
  <2> QED BY <2>1 DEF Working
<1>3. CASE \/ LockKeys(t) \/ Reach(t) \/ Descend(t) \/ CreateFails(t) \/ CasWins(t) \/ CasLoses(t)
           \/ \E n \in Nodes : Create(t, n)
  <2>1. /\ op'[t] = op[t] /\ key'[t] = key[t] /\ pc[t] # "idle"
        /\ pc'[t] \in {"locked", "descend", "cas", "lock"}
    BY <1>3 DEF LockKeys, Reach, Descend, CreateFails, CasWins, CasLoses, Create, AtLeaf, Goto,
                call, TypeOK
  <2> QED BY <1>1, <2>1 DEF Working
<1>4. CASE RemoveMisses(t) \/ UnlockKeys(t) \/ Return(t)
  <2>1. pc'[t] = "idle"
    BY <1>4 DEF RemoveMisses, UnlockKeys, Return, Leave, Goto, TypeOK
  <2> QED BY <2>1 DEF Working
<1>5. CASE MatchMisses(t) \/ UnlockAndMerge(t)
  <2>1. op'[t] = op[t] /\ op[t] \notin {"add", "remove"} /\ pc'[t] \in {"descend", "return"}
    BY <1>5 DEF MatchMisses, UnlockAndMerge, Matching, Merge, Goto, TypeOK
  <2> QED BY <2>1 DEF Working
<1>6. CASE Search(t)
  <2>1. /\ op'[t] = op[t] /\ key'[t] = key[t] /\ node'[t] = node[t] /\ keys' = keys
        /\ op[t] \in {"add", "remove"} /\ pc[t] = "locked"
    BY <1>6 DEF Search, call, fields
  <2>2. node[t] \in Nodes /\ key[t] \in Keys
    BY <1>1, <2>1, Places DEF Working, Locked
  <2>3. keys[node[t]][key[t]] \in Nat /\ keys[node[t]][key[t]] <= 1
    BY <2>2 DEF TypeOK, Bags, ListInv
  <2>4. \/ pc'[t] = "unlock"
        \/ pc'[t] = "link" /\ ~(keys[node[t]][key[t]] > 0)
        \/ pc'[t] = "unlink" /\ keys[node[t]][key[t]] > 0
    BY <1>6 DEF Search, Goto, TypeOK
  <2> QED BY <1>1, <2>1, <2>2, <2>3, <2>4 DEF Working
<1>7. CASE Link(t) \/ Unlink(t) \/ Count(t)
  <2>1. /\ op'[t] = op[t] /\ key'[t] = key[t] /\ pc[t] \in {"link", "unlink", "count", "uncount"}
        /\ pc'[t] \in {"count", "uncount", "unlock"}
    BY <1>7 DEF Link, Unlink, Count, Goto, call, TypeOK
  <2> QED BY <1>1, <2>1 DEF Working
<1>8. CASE CopyKeys(t) \/ CopyFails(t)
  <2>1. /\ op'[t] = op[t] /\ key'[t] = key[t] /\ pc[t] = "locked" /\ pc'[t] \in {"locked", "unlock"}
    BY <1>8 DEF CopyKeys, CopyFails, Goto, call, TypeOK
  <2> QED BY <1>1, <2>1 DEF Working
<1>9. CASE \/ PushLeft(t) \/ PushFails(t) \/ Pop(t) \/ Report(t) \/ GoRight(t) \/ WalkEnds(t)
  <2>1. /\ op'[t] = op[t] /\ key'[t] = key[t] /\ pc[t] # "idle"
        /\ pc'[t] \in {"push", "lock", "report", "return"}
    BY <1>9 DEF PushLeft, PushFails, Pop, Report, GoRight, WalkEnds, Goto, call, TypeOK
  <2> QED BY <1>1, <2>1 DEF Working
<1> QED BY <1>2, <1>3, <1>4, <1>5, <1>6, <1>7, <1>8, <1>9 DEF Moves, Free

(* A key is linked only where it is not in the list. *)
LEMMA UniqueStep ==
  ASSUME TypeOK, TreeInv, SearchInv, ListInv, NEW t \in Threads, Moves(t)
  PROVE  \A n \in Nodes, k \in Keys : keys'[n][k] <= 1
<1>1. CASE keys' = keys
  BY <1>1 DEF ListInv
<1>2. CASE Link(t) \/ Unlink(t)
  <2>1. /\ node[t] \in Nodes /\ key[t] \in Keys
        /\ pc[t] = "link" => keys[node[t]][key[t]] = 0
        /\ pc[t] = "unlink" => keys[node[t]][key[t]] = 1
    BY <1>2, Places DEF Link, Unlink, At, Locked, ListInv
  <2>2. \/ pc[t] = "link" /\ keys' = [keys EXCEPT ![node[t]][key[t]] = @ + 1]
        \/ pc[t] = "unlink" /\ keys' = [keys EXCEPT ![node[t]][key[t]] = @ - 1]
    BY <1>2 DEF Link, Unlink, At
  <2>3. \A n \in Nodes, k \in Keys : keys'[n][k] = keys[n][k] \/ keys'[n][k] \in {0, 1}
    <3>1. keys \in [Nodes -> [Keys -> Nat]]
      BY DEF TypeOK, Bags
    <3>2. CASE pc[t] = "link"
      BY <2>1, <2>2, <3>1, <3>2
    <3>3. CASE pc[t] = "unlink"
      BY <2>1, <2>2, <3>1, <3>3
    <3> QED BY <2>2, <3>2, <3>3
  <2> QED BY <2>3 DEF ListInv
<1>3. ASSUME NEW m \in Nodes, Create(t, m) PROVE \A n \in Nodes, k \in Keys : keys'[n][k] <= 1
  <2>1. \A n \in Nodes : keys'[n] = IF n = m THEN EmptyBag ELSE keys[n]
    BY <1>3 DEF Create, TypeOK
  <2> QED BY <2>1 DEF EmptyBag, ListInv
<1>4. CASE Begin(t) \/ LockKeys(t)
  BY <1>1, <1>4 DEF Begin, KeyCall, MatchCall, WalkCall, Call, LockKeys, fields, lists
<1>5. CASE \/ Reach(t) \/ Descend(t) \/ CreateFails(t) \/ CasWins(t) \/ CasLoses(t)
           \/ RemoveMisses(t) \/ MatchMisses(t)
           \/ Search(t) \/ Count(t) \/ UnlockKeys(t)
           \/ CopyKeys(t) \/ CopyFails(t) \/ UnlockAndMerge(t)
           \/ PushLeft(t) \/ PushFails(t) \/ Pop(t) \/ Report(t) \/ GoRight(t) \/ WalkEnds(t)
           \/ Return(t)
  BY <1>1, <1>5 DEF Reach, Descend, CreateFails, CasWins, CasLoses, RemoveMisses, MatchMisses,
     Search, Count, UnlockKeys, CopyKeys, CopyFails, UnlockAndMerge, PushLeft, PushFails, Pop,
     Report, GoRight, WalkEnds, Return, fields, lists
<1> QED BY <1>2, <1>3, <1>4, <1>5 DEF Moves, Free

LEMMA ListStep ==
  ASSUME TypeOK, TreeInv, SearchInv, LockInv, ListInv, [Next]_vars
  PROVE  ListInv'
<1>1. ASSUME NEW t \in Threads, Moves(t) PROVE ListInv'
  <2>1. \A u \in Threads : Working(u)'
    BY <1>1, OwnWorking, OthersWorking
  <2> QED BY <1>1, <2>1, UniqueStep DEF ListInv, Working
<1>2. CASE UNCHANGED vars
  BY <1>2 DEF vars, ListInv
<1> QED BY <1>1, <1>2 DEF Next, Moves

(***************************************************************************)
(* The theorems.                                                           *)
(***************************************************************************)

LEMMA InitInv == Init => IInv
<1> SUFFICES ASSUME Init PROVE IInv
  OBVIOUS
<1>1. TypeOK
  BY InitType
<1>2. Linked = {root} /\ root \in Nodes /\ NULL \notin Nodes
  BY TagAssumption DEF Init, Linked
<1>3. TreeInv
  BY <1>2, TagAssumption DEF Init, TreeInv
<1>4. SearchInv
  BY <1>2 DEF Init, SearchInv, Placed, Locked
<1>5. LockInv
  BY TagAssumption DEF Init, LockInv, Locked
<1>6. ListInv
  BY DEF Init, ListInv, EmptyBag
<1> QED BY <1>1, <1>3, <1>4, <1>5, <1>6 DEF IInv

LEMMA NextInv == IInv /\ [Next]_vars => IInv'
BY TypeStep, TreeStep, SearchStep, LockStep, ListStep DEF IInv

(* The invariant holds throughout every execution of the index, whatever   *)
(* the threads, tags, keys, nodes and calls.                               *)
THEOREM Invariance == Spec => []IInv
BY InitInv, NextInv, PTL DEF Spec

(* Every variable keeps to its type: what a thread follows as a pointer is *)
(* a node or NULL, and a label is one of the labels.                       *)
THEOREM TypeCorrect == Spec => []TypeOK
<1>1. IInv => TypeOK
  BY DEF IInv
<1> QED BY <1>1, Invariance, PTL

(* However many threads miss the same tag at once, the tree holds one node *)
(* for it, where every search for it leads.                                *)
THEOREM NodesUnique == Spec => []OneNodePerTag
<1>1. IInv => OneNodePerTag
  <2> SUFFICES ASSUME IInv PROVE OneNodePerTag
    OBVIOUS
  <2>1. ASSUME NEW m \in Linked, NEW n \in Linked, tag[m] = tag[n] PROVE m = n
    <3>1. tag[m] \in span[m] /\ tag[n] \in span[n] /\ tag[m] \in Int
      BY ChildrenLinked, TagAssumption DEF IInv, TreeInv
    <3>2. ~Inside(m, n) /\ ~Inside(n, m) /\ span[m] \cap span[n] # {}
      BY <2>1, <3>1 DEF Inside, LeftSpan, RightSpan
    <3> QED BY <3>2 DEF IInv, TreeInv
  <2>2. \A n \in Linked : /\ tag[n] \in span[n]
                          /\ left[n] # NULL => left[n] \in Linked /\ span[left[n]] = LeftSpan(n)
                          /\ right[n] # NULL => right[n] \in Linked /\ span[right[n]] = RightSpan(n)
    BY ChildrenLinked DEF IInv, TreeInv
  <2> QED BY <2>1, <2>2 DEF OneNodePerTag
<1> QED BY <1>1, Invariance, PTL

(* remove_key_from_tag may stop at the first match: a list holds a key at  *)
(* most once.                                                              *)
THEOREM NoDuplicateKeys == Spec => []KeysUnique
<1>1. IInv => KeysUnique
  BY ChildrenLinked DEF IInv, ListInv, KeysUnique
<1> QED BY <1>1, Invariance, PTL

(* The pointers that threads keep without any lock stay good: a linked     *)
(* node keeps its tag and its children for ever.                           *)
THEOREM NodesStay == Spec => TreeOnlyGrows
<1>1. IInv /\ [Next]_vars =>
        [\A n \in Linked : /\ n \in reserved' /\ tag'[n] = tag[n]
                           /\ left[n] # NULL => left'[n] = left[n]
                           /\ right[n] # NULL => right'[n] = right[n]]_vars
  BY TreeStep DEF IInv, LinkedKept
<1> QED BY <1>1, Invariance, PTL DEF Spec, TreeOnlyGrows

(* The tree says that a tag has no node only when it has none, though      *)
(* others were linking nodes all the way down.                             *)
THEOREM MissesReal == Spec => MissesAreReal
<1>1. IInv /\ [Next]_vars =>
        [\A t \in Threads :
           AtLeaf(t) /\ (pc'[t] # "descend" \/ pos'[t] # pos[t]) => \A n \in Linked : tag[n] # Wanted(t)]_vars
  <2> SUFFICES ASSUME IInv, NEW t \in Threads, AtLeaf(t), NEW n \in Linked PROVE tag[n] # Wanted(t)
    OBVIOUS
  <2>1. /\ node[t] \in Linked /\ Wanted(t) \in span[node[t]]
        /\ tag[node[t]] # Wanted(t) /\ Child(t) = NULL
    BY DEF IInv, SearchInv, Placed, AtLeaf, At
  <2>2. Wanted(t) \in Int /\ tag[node[t]] \in Int
    BY <2>1, ChildrenLinked, TagAssumption DEF IInv
  <2>3. CASE Wanted(t) < tag[node[t]]
    BY <2>1, <2>3 DEF IInv, TreeInv, Child
  <2>4. CASE ~(Wanted(t) < tag[node[t]])
    <3>1. Wanted(t) > tag[node[t]]
      BY <2>1, <2>2, <2>4
    <3> QED BY <2>1, <2>4, <3>1 DEF IInv, TreeInv, Child
  <2> QED BY <2>3, <2>4
<1> QED BY <1>1, Invariance, PTL DEF Spec, MissesAreReal

(* The child on a thread's side has a part of the span that does not hold  *)
(* the tag of the node.                                                    *)
LEMMA NarrowerChild ==
  ASSUME TypeOK, TreeInv, SearchInv, NEW t \in Threads, pc[t] \in {"descend", "cas"}, Child(t) # NULL
  PROVE  span[Child(t)] \subseteq span[node[t]] \ {tag[node[t]]}
<1>1. node[t] \in Linked
  BY DEF SearchInv, Placed
<1>2. tag[node[t]] \in Int
  BY <1>1, ChildrenLinked, TagAssumption
<1>3. span[node[t]] \subseteq Int
  BY <1>1, ChildrenLinked, TagAssumption
<1>4. span[Child(t)] = LeftSpan(node[t]) \/ span[Child(t)] = RightSpan(node[t])
  BY <1>1 DEF Child, TreeInv
<1> QED BY <1>2, <1>3, <1>4 DEF LeftSpan, RightSpan

LEMMA StepAdvances ==
  ASSUME TypeOK, TreeInv, SearchInv, NEW t \in Threads, Moves(t)
  PROVE  Advances(t)
<1>1. CASE Begin(t)
  <2>1. PICK f, gs, k, l : Call(t, f, gs, k, l)
    BY <1>1 DEF Begin, KeyCall, MatchCall, WalkCall
  <2> QED BY <2>1 DEF Call, At, Advances
<1>2. CASE LockKeys(t) \/ Search(t) \/ Link(t) \/ Unlink(t) \/ Count(t) \/ UnlockKeys(t)
  BY <1>2 DEF LockKeys, Search, Link, Unlink, Count, UnlockKeys, At, Advances
<1>3. CASE CopyKeys(t) \/ CopyFails(t) \/ UnlockAndMerge(t)
  BY <1>3 DEF CopyKeys, CopyFails, UnlockAndMerge, At, Advances
<1>4. CASE PushLeft(t) \/ PushFails(t) \/ Pop(t) \/ Report(t) \/ GoRight(t) \/ WalkEnds(t) \/ Return(t)
  BY <1>4 DEF PushLeft, PushFails, Pop, Report, GoRight, WalkEnds, Return, At, Advances
<1>5. CASE Reach(t)
  BY <1>5 DEF Reach, Goto, TypeOK, Advances
<1>6. CASE CreateFails(t)
  BY <1>6 DEF CreateFails, Advances
<1>7. CASE RemoveMisses(t)
  BY <1>7 DEF RemoveMisses, Leave, Goto, TypeOK, Advances
<1>8. CASE MatchMisses(t)
  <2>1. PICK list : Merge(t, list)
    BY <1>8 DEF MatchMisses
  <2>2. pos'[t] = pos[t] + 1 \/ pc'[t] = "return"
    BY <2>1 DEF Merge, Goto, TypeOK
  <2>3. pos[t] \in Nat
    BY DEF TypeOK
  <2> QED BY <2>2, <2>3 DEF Advances
<1>9. CASE Descend(t)
  <2>1. pc[t] = "descend" /\ Child(t) # NULL /\ node'[t] = Child(t) /\ span' = span
    BY <1>9 DEF Descend, At, TypeOK
  <2> QED BY <2>1, NarrowerChild DEF Advances
<1>10. CASE \E n \in Nodes : Create(t, n)
  BY <1>10 DEF Create, AtLeaf, At, Goto, TypeOK, Advances
<1>11. CASE CasLoses(t)
  <2>1. pc[t] = "cas" /\ Child(t) # NULL /\ node'[t] = Child(t) /\ span' = span
    BY <1>11 DEF CasLoses, At, TypeOK
  <2> QED BY <2>1, NarrowerChild DEF Advances
<1>12. CASE CasWins(t)
  <2>1. pc[t] = "cas"
    BY <1>12 DEF CasWins, At
  <2>2. node[t] \in Linked /\ new[t] \in Nodes
    BY <2>1 DEF SearchInv, Placed, TypeOK
  <2>3. tag[node[t]] \in Int
    BY <2>2, ChildrenLinked, TagAssumption
  <2>4. node'[t] = new[t]
    BY <1>12 DEF CasWins, TypeOK
  <2>5. span'[new[t]] = LeftSpan(node[t]) \/ span'[new[t]] = RightSpan(node[t])
    BY <1>12, <2>2 DEF CasWins, TypeOK
  <2>6. LeftSpan(node[t]) \subseteq span[node[t]] \ {tag[node[t]]}
    BY <2>3 DEF LeftSpan
  <2>7. RightSpan(node[t]) \subseteq span[node[t]] \ {tag[node[t]]}
    BY <2>3 DEF RightSpan
  <2> QED BY <2>4, <2>5, <2>6, <2>7 DEF Advances
<1> QED BY <1>1, <1>2, <1>3, <1>4, <1>5, <1>6, <1>7, <1>8, <1>9, <1>10, <1>11, <1>12 DEF Moves, Free

(* No search goes round in circles, whatever races it loses: the tags that *)
(* are left for it get fewer with each step (tag.c:134, 208).              *)
THEOREM SearchesAdvance == Spec => SearchesProgress
<1>1. IInv /\ [Next]_vars => [\A t \in Threads : Advances(t)]_vars
  <2> SUFFICES ASSUME IInv, Next, NEW u \in Threads PROVE Advances(u)
    OBVIOUS
  <2>1. PICK t \in Threads : Moves(t)
    BY DEF Next, Moves
  <2>2. CASE u = t
    BY <2>1, <2>2, StepAdvances DEF IInv
  <2>3. CASE u # t
    BY <2>1, <2>3, OthersStay DEF IInv, OthersLeft, Advances
  <2> QED BY <2>2, <2>3
<1> QED BY <1>1, Invariance, PTL DEF Spec, SearchesProgress

(***************************************************************************)
(* The counts.                                                             *)
(***************************************************************************)

Present(n) == {k \in Keys : keys[n][k] > 0}

(* The steps that change neither a list nor a count. *)
LEMMA QuietCount ==
  ASSUME CountInv, UNCHANGED <<keys, num_keys>>, NEW t \in Threads,
         \A u \in Threads \ {t} : pc'[u] = pc[u],
         pc[t] \notin {"count", "uncount"}, pc'[t] \notin {"count", "uncount"},
         \A n \in Nodes : \/ keys_lock'[n] = keys_lock[n]
                          \/ keys_lock[n] \in {t, NULL} /\ keys_lock'[n] \in {t, NULL}
  PROVE  CountInv'
<1>1. NULL \notin Threads
  BY TagAssumption
<1>2. ASSUME NEW n \in Nodes PROVE Lag(n)' = Lag(n)
  <2>1. \A u \in Threads : /\ (keys_lock'[n] = u /\ pc'[u] = "count") <=> (keys_lock[n] = u /\ pc[u] = "count")
                           /\ (keys_lock'[n] = u /\ pc'[u] = "uncount") <=> (keys_lock[n] = u /\ pc[u] = "uncount")
    BY <1>1
  <2> QED BY <2>1 DEF Lag
<1> QED BY <1>2 DEF CountInv

(* A step of thread t on its own list leaves the other lists. *)
LEMMA OtherLag ==
  ASSUME LockInv, NEW t \in Threads, Locked(t), UNCHANGED keys_lock,
         \A u \in Threads \ {t} : pc'[u] = pc[u], NEW n \in Nodes, n # node[t]
  PROVE  Lag(n)' = Lag(n)
<1>1. \A u \in Threads : keys_lock[n] = u => u # t
  BY DEF LockInv
<1> QED BY <1>1 DEF Lag

LEMMA CountStep ==
  ASSUME TypeOK, TreeInv, SearchInv, LockInv, ListInv, CountInv, [Next]_vars
  PROVE  CountInv'
<1> USE DEF At
<1>0. TypeOK' /\ LockInv' /\ IsFiniteSet(Keys)
  BY TypeStep, LockStep, TagAssumption
<1>1. ASSUME NEW t \in Threads, Link(t) \/ Unlink(t) \/ Count(t) PROVE CountInv'
  <2>1. /\ Locked(t) /\ Locked(t)' /\ node'[t] = node[t] /\ UNCHANGED keys_lock
        /\ node[t] \in Nodes /\ (pc[t] \in {"link", "unlink"} => key[t] \in Keys)
        /\ pc[t] = "link" => keys[node[t]][key[t]] = 0
        /\ pc[t] = "unlink" => keys[node[t]][key[t]] = 1
        /\ num_keys[node[t]] \in Int
    <3>1. Locked(t) /\ Locked(t)' /\ node'[t] = node[t] /\ UNCHANGED keys_lock
      BY <1>1 DEF Link, Unlink, Count, Goto, TypeOK, Locked
    <3>2. node[t] \in Nodes
      BY <3>1, Places
    <3> QED BY <3>1, <3>2 DEF ListInv, TypeOK
  <2>2. \A u \in Threads \ {t} : pc'[u] = pc[u]
    BY <1>1, OthersStay DEF OthersLeft, Moves, Free
  <2>0. PICK m, P, Q : m = node[t] /\ P = Present(m) /\ Q = {k \in Keys : keys'[m][k] > 0}
    OBVIOUS
  <2>3. /\ Lag(m) = IF pc[t] = "count" THEN 1 ELSE IF pc[t] = "uncount" THEN -1 ELSE 0
        /\ Lag(m)' = IF pc'[t] = "count" THEN 1 ELSE IF pc'[t] = "uncount" THEN -1 ELSE 0
    <3>1. \A u \in Threads : (keys_lock[m] = u <=> u = t) /\ (keys_lock'[m] = u <=> u = t)
      BY <1>0, <2>0, <2>1 DEF LockInv
    <3> QED BY <3>1 DEF Lag
  <2>4. num_keys[m] + Lag(m) = Cardinality(P) /\ IsFiniteSet(P)
    BY <1>0, <2>0, <2>1, FS_Subset DEF CountInv, Present
  <2>5. num_keys'[m] + Lag(m)' = Cardinality(Q)
    <3>1. CASE Link(t)
      <4>1. /\ Q = P \cup {key[t]} /\ key[t] \notin P
            /\ pc[t] = "link" /\ pc'[t] = "count" /\ num_keys' = num_keys
        BY <2>0, <2>1, <3>1 DEF Link, Goto, TypeOK, Bags, Present
      <4>2. Cardinality(Q) = Cardinality(P) + 1
        BY <2>4, <4>1, FS_AddElement
      <4>3. Lag(m) = 0 /\ Lag(m)' = 1 /\ num_keys[m] \in Int
        BY <2>0, <2>1, <2>3, <4>1
      <4> QED BY <2>4, <4>1, <4>2, <4>3
    <3>2. CASE Unlink(t)
      <4>1. /\ Q = P \ {key[t]} /\ key[t] \in P
            /\ pc[t] = "unlink" /\ pc'[t] = "uncount" /\ num_keys' = num_keys
        BY <2>0, <2>1, <3>2 DEF Unlink, Goto, TypeOK, Bags, Present
      <4>2. Cardinality(Q) = Cardinality(P) - 1
        BY <2>4, <4>1, FS_RemoveElement
      <4>3. Lag(m) = 0 /\ Lag(m)' = -1 /\ num_keys[m] \in Int
        BY <2>0, <2>1, <2>3, <4>1
      <4> QED BY <2>4, <4>1, <4>2, <4>3
    <3>3. CASE Count(t)
      <4>1. /\ Q = P /\ pc'[t] = "unlock"
            /\ \/ pc[t] = "count" /\ num_keys'[m] = num_keys[m] + 1
               \/ pc[t] = "uncount" /\ num_keys'[m] = num_keys[m] - 1
        BY <2>0, <2>1, <3>3 DEF Count, Goto, TypeOK, Present
      <4>2. Lag(m)' = 0 /\ num_keys[m] \in Int
        BY <2>0, <2>1, <2>3, <4>1
      <4>3. CASE pc[t] = "count" /\ num_keys'[m] = num_keys[m] + 1
        <5>1. Lag(m) = 1
          BY <2>3, <4>3
        <5> QED BY <2>4, <4>1, <4>2, <4>3, <5>1
      <4>4. CASE pc[t] = "uncount" /\ num_keys'[m] = num_keys[m] - 1
        <5>1. Lag(m) = -1
          BY <2>3, <4>4
        <5> QED BY <2>4, <4>1, <4>2, <4>4, <5>1
      <4> QED BY <4>1, <4>3, <4>4
    <3> QED BY <1>1, <3>1, <3>2, <3>3
  <2>6. ASSUME NEW n \in Nodes, n # node[t]
        PROVE num_keys'[n] + Lag(n)' = Cardinality({k \in Keys : keys'[n][k] > 0})
    <3>1. Lag(n)' = Lag(n)
      BY <2>1, <2>2, <2>6, OtherLag
    <3>2. num_keys'[n] = num_keys[n] /\ keys'[n] = keys[n]
      BY <1>1, <2>6 DEF Link, Unlink, Count, TypeOK
    <3> QED BY <3>1, <3>2 DEF CountInv
  <2>7. \A n \in Nodes : num_keys'[n] + Lag(n)' = Cardinality({k \in Keys : keys'[n][k] > 0})
    BY <2>0, <2>5, <2>6
  <2> QED BY <2>7 DEF CountInv
<1>2. ASSUME NEW t \in Threads, NEW m \in Nodes, Create(t, m) PROVE CountInv'
  <2>1. \A u \in Threads : keys_lock[m] # u
    BY <1>2, Places, CreateTree DEF LockInv
  <2>2. /\ \A n \in Nodes \ {m} : keys'[n] = keys[n] /\ num_keys'[n] = num_keys[n] /\ keys_lock'[n] = keys_lock[n]
        /\ keys'[m] = EmptyBag /\ num_keys'[m] = 0 /\ keys_lock'[m] = NULL
        /\ pc[t] = "descend" /\ pc'[t] = "cas"
    BY <1>2 DEF Create, AtLeaf, Goto, TypeOK
  <2>3. \A u \in Threads \ {t} : pc'[u] = pc[u]
    BY <1>2, OthersStay DEF OthersLeft, Moves, Free
  <2>4. ASSUME NEW n \in Nodes PROVE n # m => Lag(n)' = Lag(n)
    BY <2>2, <2>3 DEF Lag
  <2>5. Lag(m)' = 0
    BY <2>2, TagAssumption DEF Lag
  <2>6. {k \in Keys : keys'[m][k] > 0} = {} /\ Cardinality({}) = 0
    BY <2>2, FS_EmptySet DEF EmptyBag
  <2>7. num_keys'[m] + Lag(m)' = Cardinality({k \in Keys : keys'[m][k] > 0})
    BY <2>2, <2>5, <2>6
  <2> QED BY <2>2, <2>4, <2>7 DEF CountInv
<1>3. ASSUME NEW t \in Threads, Begin(t) \/ Free(t) \/ LockKeys(t),
             UNCHANGED <<keys, num_keys>>,
             pc[t] \notin {"count", "uncount"}, pc'[t] \notin {"count", "uncount"},
             keys_lock' \in {keys_lock, [keys_lock EXCEPT ![node[t]] = NULL], [keys_lock EXCEPT ![node[t]] = t]},
             keys_lock' # keys_lock => keys_lock[node[t]] \in {t, NULL}
      PROVE CountInv'
  <2>1. \A n \in Nodes : \/ keys_lock'[n] = keys_lock[n]
                         \/ keys_lock[n] \in {t, NULL} /\ keys_lock'[n] \in {t, NULL}
    BY <1>3 DEF TypeOK
  <2>2. \A u \in Threads \ {t} : pc'[u] = pc[u]
    BY <1>3, OthersStay DEF OthersLeft, Moves
  <2> QED BY <1>3, <2>1, <2>2, QuietCount
<1>4. ASSUME NEW t \in Threads, Begin(t) \/ LockKeys(t) PROVE CountInv'
  <2>1. CASE LockKeys(t)
    <3>1. UNCHANGED <<keys, num_keys>> /\ pc[t] = "lock" /\ pc'[t] = "locked"
      BY <2>1 DEF LockKeys, At, Goto, fields, lists, TypeOK
    <3>2. keys_lock' = [keys_lock EXCEPT ![node[t]] = t] /\ keys_lock[node[t]] = NULL
      BY <2>1 DEF LockKeys
    <3> QED BY <1>3, <2>1, <3>1, <3>2
  <2>2. CASE Begin(t)
    <3>1. PICK f, gs, k, l : Call(t, f, gs, k, l) /\ l \in {"descend", "push", "return"}
      BY <2>2 DEF Begin, KeyCall, MatchCall, WalkCall
    <3>2. UNCHANGED <<keys, num_keys, keys_lock>> /\ pc[t] = "idle" /\ pc'[t] = l
      BY <3>1 DEF Call, At, Goto, fields, lists, TypeOK
    <3> QED BY <1>3, <2>2, <3>1, <3>2
  <2> QED BY <1>4, <2>1, <2>2
<1>5. ASSUME NEW t \in Threads,
             \/ Reach(t) \/ Descend(t) \/ CreateFails(t) \/ CasWins(t) \/ CasLoses(t)
             \/ Search(t) \/ CopyKeys(t) \/ CopyFails(t)
             \/ PushLeft(t) \/ PushFails(t) \/ Pop(t) \/ GoRight(t) \/ WalkEnds(t)
      PROVE CountInv'
  <2>1. UNCHANGED <<keys, num_keys, keys_lock>>
    BY <1>5 DEF Reach, Descend, CreateFails, CasWins, CasLoses, Search, CopyKeys, CopyFails,
                PushLeft, PushFails, Pop, GoRight, WalkEnds, fields, lists
  <2>2. pc[t] \notin {"count", "uncount"} /\ pc'[t] \notin {"count", "uncount"}
    BY <1>5 DEF Reach, Descend, CreateFails, AtLeaf, CasWins, CasLoses, Search, CopyKeys, CopyFails,
                PushLeft, PushFails, Pop, GoRight, WalkEnds, Goto, TypeOK
  <2> QED BY <1>3, <1>5, <2>1, <2>2 DEF Free
<1>6. ASSUME NEW t \in Threads, RemoveMisses(t) \/ MatchMisses(t) \/ Return(t) PROVE CountInv'
  <2>1. UNCHANGED <<keys, num_keys, keys_lock>> /\ pc[t] \in {"descend", "return"}
    BY <1>6 DEF RemoveMisses, MatchMisses, AtLeaf, Return, fields
  <2>2. pc'[t] \in {"idle", "descend", "return"}
    BY <1>6 DEF RemoveMisses, MatchMisses, Return, Leave, Merge, Goto, TypeOK
  <2> QED BY <1>3, <1>6, <2>1, <2>2 DEF Free
<1>7. ASSUME NEW t \in Threads, UnlockKeys(t) \/ UnlockAndMerge(t) \/ Report(t) PROVE CountInv'
  <2>1. /\ UNCHANGED <<keys, num_keys>> /\ keys_lock' = [keys_lock EXCEPT ![node[t]] = NULL]
        /\ pc[t] \in {"unlock", "locked"}
    BY <1>7 DEF UnlockKeys, UnlockAndMerge, Report, Unlock, lists
  <2>2. pc'[t] \in {"idle", "descend", "return", "report"}
    BY <1>7 DEF UnlockKeys, UnlockAndMerge, Report, Leave, Merge, Goto, TypeOK
  <2>3. keys_lock[node[t]] = t
    BY <2>1, Places DEF Locked, LockInv
  <2> QED BY <1>3, <1>7, <2>1, <2>2, <2>3 DEF Free
<1>8. CASE UNCHANGED vars
  BY <1>8 DEF vars, CountInv, Lag
<1> QED BY <1>1, <1>2, <1>4, <1>5, <1>6, <1>7, <1>8 DEF Next, Free

(* num_keys is the length of the list, though it is not updated with it,   *)
(* whenever no thread is at work on the list.                              *)
THEOREM CountsCorrect == Spec => []CountsAgree
<1>1. Init => CountInv
  <2> SUFFICES ASSUME Init, NEW n \in Nodes
               PROVE num_keys[n] + Lag(n) = Cardinality({k \in Keys : keys[n][k] > 0})
    BY DEF CountInv
  <2>1. num_keys[n] = 0 /\ Lag(n) = 0
    BY TagAssumption DEF Init, Lag
  <2>2. {k \in Keys : keys[n][k] > 0} = {} /\ Cardinality({}) = 0
    BY FS_EmptySet DEF Init, EmptyBag
  <2> QED BY <2>1, <2>2
<1>2. IInv /\ CountInv /\ [Next]_vars => CountInv'
  BY CountStep DEF IInv
<1>3. IInv /\ CountInv => CountsAgree
  <2> SUFFICES ASSUME IInv, CountInv, NEW n \in Linked, keys_lock[n] = NULL
               PROVE num_keys[n] = Cardinality({k \in Keys : keys[n][k] > 0})
    BY DEF CountsAgree
  <2>1. n \in Nodes /\ num_keys[n] \in Int
    BY ChildrenLinked DEF IInv, TypeOK
  <2>2. Lag(n) = 0
    BY TagAssumption DEF Lag
  <2> QED BY <2>1, <2>2 DEF CountInv
<1> QED BY <1>1, <1>2, <1>3, Invariance, PTL DEF Spec

(***************************************************************************)
(* The histories.                                                          *)
(***************************************************************************)

(* No two linked nodes have the same tag. *)
LEMMA UniqueTags ==
  ASSUME TypeOK, TreeInv, NEW m \in Linked, NEW n \in Linked, tag[m] = tag[n]
  PROVE  m = n
<1>1. tag[m] \in span[m] /\ tag[n] \in span[n] /\ tag[m] \in Int
  BY ChildrenLinked, TagAssumption DEF TreeInv
<1>2. ~Inside(m, n) /\ ~Inside(n, m) /\ span[m] \cap span[n] # {}
  BY <1>1 DEF Inside, LeftSpan, RightSpan
<1> QED BY <1>2 DEF TreeInv

(* A search that ends at a missing child looks for a tag without a node. *)
LEMMA NoNode ==
  ASSUME TypeOK, TreeInv, SearchInv, NEW t \in Threads, AtLeaf(t), NEW n \in Linked
  PROVE  tag[n] # Wanted(t)
<1>1. /\ node[t] \in Linked /\ Wanted(t) \in span[node[t]]
      /\ tag[node[t]] # Wanted(t) /\ Child(t) = NULL
  BY DEF SearchInv, Placed, AtLeaf, At
<1>2. Wanted(t) \in Int /\ tag[node[t]] \in Int
  BY <1>1, ChildrenLinked, TagAssumption
<1>3. CASE Wanted(t) < tag[node[t]]
  BY <1>1, <1>3 DEF TreeInv, Child
<1>4. CASE ~(Wanted(t) < tag[node[t]])
  <2>1. Wanted(t) > tag[node[t]]
    BY <1>1, <1>2, <1>4
  <2> QED BY <1>1, <1>4, <2>1 DEF TreeInv, Child
<1> QED BY <1>3, <1>4

(* What the histories of a call do during it: steady only loses pairs, and *)
(* ever only gains some.                                                   *)
Ages(u) ==
  /\ op'[u] = op[u] /\ want'[u] = want[u]
  /\ steady'[u] \subseteq steady[u] /\ ever[u] \subseteq ever'[u]

LEMMA OthersAge ==
  ASSUME TypeOK, NEW t \in Threads, Moves(t), NEW u \in Threads \ {t}
  PROVE  /\ Ages(u) /\ starved'[u] = starved[u]
         /\ copied'[u] = copied[u] /\ found'[u] = found[u] /\ told'[u] = told[u]
<1> USE DEF TypeOK
<1>0. op'[u] = op[u] /\ want'[u] = want[u]
  BY OthersStay DEF OthersLeft
<1>1. CASE Link(t) \/ Unlink(t)
  <2>1. UNCHANGED <<copied, found, told, starved>>
    BY <1>1 DEF Link, Unlink, Appears, Disappears, match, walk, history
  <2>2. steady'[u] \subseteq steady[u] /\ ever[u] \subseteq ever'[u]
    <3>1. CASE Link(t)
      <4>1. steady' = steady /\ ever[u] \subseteq ever'[u]
        BY <3>1 DEF Link, Appears
      <4> QED BY <4>1
    <3>2. CASE Unlink(t)
      <4>1. ever' = ever /\ steady'[u] \subseteq steady[u]
        BY <3>2 DEF Unlink, Disappears, history
      <4> QED BY <4>1
    <3> QED BY <1>1, <3>1, <3>2
  <2> QED BY <1>0, <2>1, <2>2 DEF Ages
<1>2. CASE Begin(t)
  <2>1. PICK f, gs, k, l : Call(t, f, gs, k, l)
    BY <1>2 DEF Begin, KeyCall, MatchCall, WalkCall
  <2> QED BY <1>0, <2>1 DEF Call, match, walk, Ages
<1>3. CASE RemoveMisses(t) \/ UnlockKeys(t) \/ Return(t)
  <2>1. Leave(t)
    BY <1>3 DEF RemoveMisses, UnlockKeys, Return
  <2> QED BY <1>0, <2>1 DEF Leave, Ages
<1>4. CASE MatchMisses(t) \/ UnlockAndMerge(t)
  <2>1. PICK list : Merge(t, list)
    BY <1>4 DEF MatchMisses, UnlockAndMerge
  <2>2. UNCHANGED <<steady, ever, told>> /\ copied'[u] = copied[u]
    BY <2>1 DEF Merge, walk
  <2>3. found'[u] = found[u] /\ starved'[u] = starved[u]
    <3>1. \E m, b : found' = [found EXCEPT ![t] = m] /\ starved' = [starved EXCEPT ![t] = b]
      BY <2>1 DEF Merge
    <3> QED BY <3>1
  <2> QED BY <1>0, <2>2, <2>3 DEF Ages
<1>5. CASE CopyKeys(t) \/ CopyFails(t)
  <2>1. UNCHANGED <<steady, ever, told, found>>
    BY <1>5 DEF CopyKeys, CopyFails, walk, history
  <2>2. /\ copied' = copied \/ \E b : copied' = [copied EXCEPT ![t] = b]
        /\ starved' = starved \/ starved' = [starved EXCEPT ![t] = TRUE]
    BY <1>5 DEF CopyKeys, CopyFails, history
  <2>3. copied'[u] = copied[u] /\ starved'[u] = starved[u]
    BY <2>2
  <2> QED BY <1>0, <2>1, <2>3 DEF Ages
<1>6. CASE Report(t)
  BY <1>0, <1>6 DEF Report, match, history, Ages
<1>7. CASE \/ LockKeys(t) \/ Reach(t) \/ Descend(t) \/ CreateFails(t) \/ CasWins(t) \/ CasLoses(t)
           \/ (\E n \in Nodes : Create(t, n)) \/ Search(t) \/ Count(t)
           \/ PushLeft(t) \/ PushFails(t) \/ Pop(t) \/ GoRight(t) \/ WalkEnds(t)
  <2>1. UNCHANGED <<copied, found, told, steady, ever, starved>>
    BY <1>7 DEF LockKeys, Reach, Descend, CreateFails, CasWins, CasLoses, Create, Search, Count,
                PushLeft, PushFails, Pop, GoRight, WalkEnds, match, walk, history
  <2> QED BY <1>0, <2>1 DEF Ages
<1> QED BY <1>1, <1>2, <1>3, <1>4, <1>5, <1>6, <1>7 DEF Moves, Free

LEMMA SameConcerns ==
  ASSUME NEW u \in Threads, op'[u] = op[u], want'[u] = want[u]
  PROVE  /\ Matching(u)' = Matching(u)
         /\ \A g : Concerns(u, g)' = Concerns(u, g)
<1>1. Matching(u)' = Matching(u)
  BY DEF Matching
<1>2. Range(want[u])' = Range(want[u])
  BY DEF Range
<1> QED BY <1>1, <1>2 DEF Concerns

LEMMA QuietRemembers ==
  ASSUME TypeOK, TreeInv, LinkedKept, NEW u \in Threads, Remembers(u), Ages(u),
         \A n \in Linked, k \in Keys : keys'[n][k] = keys[n][k],
         \A n \in Linked', k \in Keys : n \notin Linked => keys'[n][k] = 0,
         pc'[u] = "cas" => \A k \in Keys : keys'[new'[u]][k] = 0
  PROVE  Remembers(u)'
<1>1. \A g : Concerns(u, g)' = Concerns(u, g)
  BY SameConcerns DEF Ages
<1>2. ASSUME NEW g \in Tags, NEW k \in Keys, <<g, k>> \in steady'[u]
      PROVE  Concerns(u, g)' /\ \E n \in Linked' : tag'[n] = g /\ keys'[n][k] > 0
  <2>1. <<g, k>> \in steady[u]
    BY <1>2 DEF Ages
  <2>2. PICK n \in Linked : tag[n] = g /\ keys[n][k] > 0
    BY <2>1 DEF Remembers
  <2>3. n \in Linked' /\ tag'[n] = g /\ keys'[n][k] > 0
    BY <2>2 DEF LinkedKept
  <2> QED BY <1>1, <2>1, <2>3 DEF Remembers
<1>3. ASSUME NEW n \in Linked', NEW k \in Keys, Concerns(u, tag[n])', keys'[n][k] > 0
      PROVE  <<tag'[n], k>> \in ever'[u]
  <2>1. n \in Linked
    BY <1>3
  <2>2. tag'[n] = tag[n] /\ keys[n][k] > 0
    BY <1>3, <2>1 DEF LinkedKept
  <2>3. Concerns(u, tag[n])
    <3>1. PICK g : g = tag[n]
      OBVIOUS
    <3>2. tag'[n] = g
      BY <2>2, <3>1
    <3>3. Concerns(u, g)'
      BY <1>3, <3>2
    <3> QED BY <1>1, <3>1, <3>3
  <2>4. <<tag[n], k>> \in ever[u]
    BY <2>1, <2>2, <2>3 DEF Remembers
  <2> QED BY <2>2, <2>4 DEF Ages
<1> QED BY <1>2, <1>3 DEF Remembers

(* The steps that leave the keys alone and go on with a call. *)
LEMMA RememberQuiet ==
  ASSUME TypeOK, TreeInv, SearchInv, NEW t \in Threads, Moves(t), NEW u \in Threads, Remembers(u),
         \/ LockKeys(t) \/ Reach(t) \/ Descend(t) \/ CreateFails(t) \/ CasLoses(t) \/ MatchMisses(t)
         \/ Search(t) \/ Count(t) \/ CopyKeys(t) \/ CopyFails(t) \/ UnlockAndMerge(t)
         \/ PushLeft(t) \/ PushFails(t) \/ Pop(t) \/ Report(t) \/ GoRight(t) \/ WalkEnds(t)
  PROVE  Remembers(u)'
<1>1. UNCHANGED <<keys, op, want, steady, ever>>
  BY DEF LockKeys, Reach, Descend, CreateFails, CasLoses, MatchMisses, Search, Count, CopyKeys,
         CopyFails, UnlockAndMerge, PushLeft, PushFails, Pop, Report, GoRight, WalkEnds, Merge,
         fields, lists, call, history
<1>2. LinkedKept /\ Linked' = Linked
  <2>1. CASE CasLoses(t)
    BY <2>1, LoseTree
  <2>2. CASE ~CasLoses(t)
    <3>1. UNCHANGED tree
      BY <2>2 DEF LockKeys, Reach, Descend, CreateFails, MatchMisses, Search, Count, CopyKeys,
         CopyFails, UnlockAndMerge, PushLeft, PushFails, Pop, Report, GoRight, WalkEnds,
         fields, lists, tree
    <3> QED BY <3>1, QuietTree
  <2> QED BY <2>1, <2>2
<1>3. pc'[u] = "cas" => pc[u] = "cas" /\ new'[u] = new[u]
  <2>1. CASE u = t
    <3>1. pc'[t] = "cas" => pc'[t] = pc[t]
      BY DEF LockKeys, Reach, Descend, CreateFails, CasLoses, MatchMisses, Search, Count, CopyKeys,
         CopyFails, UnlockAndMerge, PushLeft, PushFails, Pop, Report, GoRight, WalkEnds, Merge,
         Goto, TypeOK
    <3>2. CASE CasLoses(t)
      BY <2>1, <3>2 DEF CasLoses, Goto, TypeOK
    <3>3. CASE ~CasLoses(t)
      <4>1. UNCHANGED new
        BY <3>3 DEF LockKeys, Reach, Descend, CreateFails, MatchMisses, Search, Count, CopyKeys,
         CopyFails, UnlockAndMerge, PushLeft, PushFails, Pop, Report, GoRight, WalkEnds, Merge
      <4> QED BY <2>1, <3>1, <4>1
    <3> QED BY <3>2, <3>3
  <2>2. CASE u # t
    BY <2>2, OthersStay DEF OthersLeft
  <2> QED BY <2>1, <2>2
<1>4. Ages(u)
  BY <1>1 DEF Ages
<1>5. pc'[u] = "cas" => \A k \in Keys : keys'[new'[u]][k] = 0
  BY <1>1, <1>3 DEF Remembers
<1> QED BY <1>1, <1>2, <1>4, <1>5, QuietRemembers

(* Leave ends a call, and with it its histories. *)
LEMMA RememberLeave ==
  ASSUME TypeOK, NEW t \in Threads, Leave(t)
  PROVE  Remembers(t)'
<1>1. pc'[t] = "idle" /\ op'[t] = "add" /\ steady'[t] = {}
  BY DEF Leave, Goto, TypeOK
<1>2. \A g : ~Concerns(t, g)'
  BY <1>1 DEF Concerns, Matching
<1> QED BY <1>1, <1>2 DEF Remembers

(* A call begins with what is listed. *)
LEMMA RememberCall ==
  ASSUME TypeOK, TreeInv, NEW t \in Threads, NEW f \in Ops, NEW gs \in Seq(Tags), NEW k0, NEW l \in {"descend", "push", "return"},
         Call(t, f, gs, k0, l)
  PROVE  Remembers(t)'
<1>1. /\ op'[t] = f /\ want'[t] = gs /\ pc'[t] = l
      /\ steady'[t] = Listed(f, gs) /\ ever'[t] = Listed(f, gs)
      /\ UNCHANGED tree /\ keys' = keys
  BY DEF Call, Goto, TypeOK, fields, tree
<1>2. Linked' = Linked /\ tag' = tag
  BY <1>1, QuietTree DEF tree
<1>3. \A g : Concerns(t, g)' <=> f = "walk" \/ (f \in {"any", "all"} /\ g \in Range(gs))
  BY <1>1 DEF Concerns, Matching
<1>4. \A g \in Tags, k \in Keys : <<g, k>> \in Listed(f, gs) <=>
        /\ f \notin {"add", "remove"} /\ (f = "walk" \/ g \in Range(gs))
        /\ \E n \in Linked : tag[n] = g /\ keys[n][k] > 0
  BY DEF Listed
<1>5. ASSUME NEW g \in Tags, NEW k \in Keys, <<g, k>> \in steady'[t]
      PROVE  Concerns(t, g)' /\ \E n \in Linked' : tag'[n] = g /\ keys'[n][k] > 0
  BY <1>1, <1>2, <1>3, <1>4, <1>5 DEF Ops
<1>6. ASSUME NEW n \in Linked', NEW k \in Keys, Concerns(t, tag[n])', keys'[n][k] > 0
      PROVE  <<tag'[n], k>> \in ever'[t]
  <2>1. n \in Linked /\ tag[n] \in Tags /\ keys[n][k] > 0
    BY <1>1, <1>2, <1>6, ChildrenLinked
  <2>2. PICK g \in Tags : g = tag[n]
    BY <2>1
  <2>3. Concerns(t, g)'
    BY <1>2, <1>6, <2>2
  <2>4. <<g, k>> \in Listed(f, gs)
    BY <1>3, <1>4, <2>1, <2>2, <2>3
  <2> QED BY <1>1, <1>2, <2>2, <2>4
<1> QED BY <1>1, <1>5, <1>6 DEF Remembers

(* A key that is linked appears to every call that its tag concerns, and   *)
(* one that is unlinked disappears from all.                               *)
LEMMA RememberLists ==
  ASSUME TypeOK, TreeInv, SearchInv, ListInv, NEW t \in Threads, Moves(t), NEW u \in Threads, Remembers(u),
         Link(t) \/ Unlink(t)
  PROVE  Remembers(u)'
<1> DEFINE m == node[t]
           h == key[t]
           g0 == tag[m]
<1>1. /\ m \in Linked /\ m \in Nodes /\ g0 \in Tags /\ h \in Keys
      /\ UNCHANGED tree /\ op' = op /\ want' = want /\ new' = new
      /\ pc[t] \in {"link", "unlink"}
  <2>1. /\ UNCHANGED tree /\ op' = op /\ want' = want /\ new' = new /\ pc[t] \in {"link", "unlink"}
    BY DEF Link, Unlink, call, At
  <2>2. m \in Linked /\ m \in Nodes /\ g0 \in Tags
    BY <2>1, Places DEF Locked
  <2> QED BY <2>1, <2>2 DEF ListInv
<1>2. Linked' = Linked /\ tag' = tag /\ LinkedKept
  BY <1>1, QuietTree DEF tree
<1>3. \A g : Concerns(u, g)' = Concerns(u, g)
  BY <1>1, SameConcerns
<1>4. \A n \in Linked, k \in Keys : (n # m \/ k # h) => keys'[n][k] = keys[n][k]
  <2>1. \E c : keys' = [keys EXCEPT ![m][h] = c]
    BY DEF Link, Unlink
  <2> QED BY <1>1, <2>1, ChildrenLinked DEF TypeOK, Bags
<1>5. pc'[u] = "cas" => \A k \in Keys : keys'[new'[u]][k] = 0
  <2> SUFFICES ASSUME pc'[u] = "cas" PROVE \A k \in Keys : keys'[new'[u]][k] = 0
    OBVIOUS
  <2>1. pc[u] = "cas" /\ u # t
    <3>1. pc'[t] # "cas"
      BY DEF Link, Unlink, Goto, TypeOK
    <3> QED BY <3>1, OthersStay DEF OthersLeft
  <2>2. new[u] \notin Linked /\ new[u] \in Nodes
    BY <2>1 DEF SearchInv, Placed, TypeOK
  <2>3. keys'[new[u]] = keys[new[u]]
    BY <1>1, <2>2 DEF Link, Unlink, TypeOK
  <2> QED BY <1>1, <2>1, <2>3 DEF Remembers
<1>6. CASE Link(t)
  <2>1. keys'[m][h] = keys[m][h] + 1 /\ keys[m][h] \in Nat
    BY <1>1, <1>6 DEF Link, TypeOK, Bags
  <2>2. /\ steady' = steady
        /\ ever'[u] = IF Concerns(u, g0) THEN ever[u] \cup {<<g0, h>>} ELSE ever[u]
    BY <1>6 DEF Link, Appears
  <2>3. ASSUME NEW g \in Tags, NEW k \in Keys, <<g, k>> \in steady'[u]
        PROVE  Concerns(u, g)' /\ \E n \in Linked' : tag'[n] = g /\ keys'[n][k] > 0
    <3>1. Concerns(u, g)
      BY <2>2, <2>3 DEF Remembers
    <3>2. PICK n \in Linked : tag[n] = g /\ keys[n][k] > 0
      BY <2>2, <2>3 DEF Remembers
    <3>3. keys'[n][k] > 0
      BY <1>4, <2>1, <3>2
    <3> QED BY <1>2, <1>3, <3>1, <3>2, <3>3
  <2>4. ASSUME NEW n \in Linked', NEW k \in Keys, Concerns(u, tag[n])', keys'[n][k] > 0
        PROVE  <<tag'[n], k>> \in ever'[u]
    <3>1. PICK g : g = tag[n]
      OBVIOUS
    <3>2. Concerns(u, g)
      BY <1>2, <1>3, <2>4, <3>1
    <3>3. CASE n = m /\ k = h
      BY <1>2, <2>2, <3>1, <3>2, <3>3
    <3>4. CASE n # m \/ k # h
      BY <1>2, <1>4, <2>2, <2>4, <3>1, <3>2, <3>4 DEF Remembers
    <3> QED BY <3>3, <3>4
  <2> QED BY <1>5, <2>3, <2>4 DEF Remembers
<1>7. CASE Unlink(t)
  <2>1. keys'[m][h] = 0 /\ keys[m][h] = 1
    BY <1>1, <1>7 DEF Unlink, At, ListInv, TypeOK, Bags
  <2>2. steady'[u] = steady[u] \ {<<g0, h>>} /\ ever' = ever
    BY <1>7, <2>1 DEF Unlink, Disappears
  <2>3. ASSUME NEW g \in Tags, NEW k \in Keys, <<g, k>> \in steady'[u]
        PROVE  Concerns(u, g)' /\ \E n \in Linked' : tag'[n] = g /\ keys'[n][k] > 0
    <3>1. Concerns(u, g)
      BY <2>2, <2>3 DEF Remembers
    <3>2. PICK n \in Linked : tag[n] = g /\ keys[n][k] > 0
      BY <2>2, <2>3 DEF Remembers
    <3>3. n # m \/ k # h
      BY <2>2, <2>3, <3>2
    <3>4. keys'[n][k] > 0
      BY <1>4, <3>2, <3>3
    <3> QED BY <1>2, <1>3, <3>1, <3>2, <3>4
  <2>4. ASSUME NEW n \in Linked', NEW k \in Keys, Concerns(u, tag[n])', keys'[n][k] > 0
        PROVE  <<tag'[n], k>> \in ever'[u]
    <3>1. PICK g : g = tag[n]
      OBVIOUS
    <3>2. Concerns(u, g)
      BY <1>2, <1>3, <2>4, <3>1
    <3>3. n # m \/ k # h
      BY <2>1, <2>4
    <3> QED BY <1>2, <1>4, <2>2, <2>4, <3>1, <3>2, <3>3 DEF Remembers
  <2> QED BY <1>5, <2>3, <2>4 DEF Remembers
<1> QED BY <1>6, <1>7

LEMMA RememberStep ==
  ASSUME TypeOK, TreeInv, SearchInv, ListInv, NEW t \in Threads, Moves(t), NEW u \in Threads,
         \A v \in Threads : Remembers(v)
  PROVE  Remembers(u)'
<1> USE DEF TypeOK
<1>1. CASE Link(t) \/ Unlink(t)
  BY <1>1, RememberLists
<1>2. CASE RemoveMisses(t) \/ UnlockKeys(t) \/ Return(t)
  <2>1. Leave(t) /\ UNCHANGED tree /\ keys' = keys
    BY <1>2 DEF RemoveMisses, UnlockKeys, Return, fields, tree, lists
  <2>2. CASE u = t
    BY <2>1, <2>2, RememberLeave
  <2>3. CASE u # t
    <3>1. Ages(u) /\ pc'[u] = pc[u] /\ new'[u] = new[u]
      BY <2>3, OthersAge, OthersStay DEF OthersLeft
    <3>2. Linked' = Linked /\ LinkedKept
      BY <2>1, QuietTree
    <3>3. pc'[u] = "cas" => \A k \in Keys : keys'[new'[u]][k] = 0
      BY <2>1, <3>1 DEF Remembers
    <3> QED BY <2>1, <3>1, <3>2, <3>3, QuietRemembers
  <2> QED BY <2>2, <2>3
<1>3. CASE Begin(t)
  <2>0. PICK f \in Ops, gs \in Seq(Tags), l \in {"descend", "push", "return"} : \E k0 : Call(t, f, gs, k0, l)
    <3>1. ASSUME NEW f \in {"add", "remove"}, NEW g \in Tags, NEW k \in Keys, KeyCall(t, f, g, k)
          PROVE  <<g>> \in Seq(Tags) /\ f \in Ops /\ Call(t, f, <<g>>, k, "descend")
      BY <3>1 DEF KeyCall, Ops
    <3>2. ASSUME NEW f \in {"any", "all"}, NEW gs \in TagLists, MatchCall(t, f, gs)
          PROVE  gs \in Seq(Tags) /\ f \in Ops /\ Call(t, f, gs, NULL, IF gs = <<>> THEN "return" ELSE "descend")
      BY <3>2, TagAssumption DEF MatchCall, Ops
    <3>3. WalkCall(t) => <<>> \in Seq(Tags) /\ "walk" \in Ops /\ Call(t, "walk", <<>>, NULL, "push")
      BY DEF WalkCall, Ops
    <3>4. CASE \E f \in {"add", "remove"}, g \in Tags, k \in Keys : KeyCall(t, f, g, k)
      BY <3>1, <3>4
    <3>5. CASE \E f \in {"any", "all"}, gs \in TagLists : MatchCall(t, f, gs)
      BY <3>2, <3>5
    <3>6. CASE WalkCall(t)
      BY <3>3, <3>6
    <3> QED BY <1>3, <3>4, <3>5, <3>6 DEF Begin
  <2>1. PICK k0 : Call(t, f, gs, k0, l)
    BY <2>0
  <2>2. UNCHANGED tree /\ keys' = keys
    BY <2>1 DEF Call, fields, tree
  <2>3. CASE u = t
    BY <2>1, <2>3, RememberCall
  <2>4. CASE u # t
    <3>1. Ages(u) /\ pc'[u] = pc[u] /\ new'[u] = new[u]
      BY <2>4, OthersAge, OthersStay DEF OthersLeft
    <3>2. Linked' = Linked /\ LinkedKept
      BY <2>2, QuietTree
    <3>3. pc'[u] = "cas" => \A k \in Keys : keys'[new'[u]][k] = 0
      BY <2>2, <3>1 DEF Remembers
    <3> QED BY <2>2, <3>1, <3>2, <3>3, QuietRemembers
  <2> QED BY <2>3, <2>4
<1>4. CASE \E n \in Nodes : Create(t, n)
  <2>1. PICK n \in Nodes : Create(t, n)
    BY <1>4
  <2>2. Linked' = Linked /\ LinkedKept /\ n \notin Linked
    BY <2>1, CreateTree
  <2>3. keys' = [keys EXCEPT ![n] = EmptyBag] /\ UNCHANGED <<op, want, steady, ever>> /\ n \notin reserved
    BY <2>1 DEF Create, call, history
  <2>4. pc'[u] = "cas" => \A k \in Keys : keys'[new'[u]][k] = 0
    <3>1. CASE u = t
      BY <2>1, <2>3, <3>1 DEF Create, EmptyBag
    <3>2. CASE u # t
      <4>1. pc'[u] = pc[u] /\ new'[u] = new[u]
        BY <3>2, OthersStay DEF OthersLeft
      <4>2. pc[u] = "cas" => new[u] # n /\ new[u] \in Nodes
        BY <2>3 DEF SearchInv, Placed
      <4> QED BY <2>3, <4>1, <4>2 DEF Remembers
    <3> QED BY <3>1, <3>2
  <2>5. Ages(u)
    BY <2>3 DEF Ages
  <2>6. \A m \in Linked, k \in Keys : keys'[m][k] = keys[m][k]
    BY <2>2, <2>3, ChildrenLinked
  <2> QED BY <2>2, <2>4, <2>5, <2>6, QuietRemembers
<1>5. CASE CasWins(t)
  <2>1. Linked' = Linked \cup {new[t]} /\ LinkedKept
    BY <1>5, WinTree
  <2>2. pc[t] = "cas" /\ UNCHANGED <<keys, op, want, steady, ever>>
    BY <1>5 DEF CasWins, At, lists, call, history
  <2>3. \A k \in Keys : keys'[new[t]][k] = 0
    BY <2>2 DEF Remembers
  <2>4. pc'[u] = "cas" => \A k \in Keys : keys'[new'[u]][k] = 0
    <3>1. pc'[t] # "cas"
      BY <1>5 DEF CasWins, Goto
    <3>2. u # t => pc'[u] = pc[u] /\ new'[u] = new[u]
      BY OthersStay DEF OthersLeft
    <3> QED BY <2>2, <3>1, <3>2 DEF Remembers
  <2>5. Ages(u)
    BY <2>2 DEF Ages
  <2> QED BY <2>1, <2>2, <2>3, <2>4, <2>5, QuietRemembers
<1>6. CASE \/ LockKeys(t) \/ Reach(t) \/ Descend(t) \/ CreateFails(t) \/ CasLoses(t) \/ MatchMisses(t)
           \/ Search(t) \/ Count(t) \/ CopyKeys(t) \/ CopyFails(t) \/ UnlockAndMerge(t)
           \/ PushLeft(t) \/ PushFails(t) \/ Pop(t) \/ Report(t) \/ GoRight(t) \/ WalkEnds(t)
  BY <1>6, RememberQuiet
<1> QED BY <1>1, <1>2, <1>3, <1>4, <1>5, <1>6 DEF Moves, Free

(***************************************************************************)
(* Matches.                                                                *)
(***************************************************************************)

LEMMA TagsWanted ==
  ASSUME TypeOK, NEW t \in Threads
  PROVE  /\ want[t] \in Seq(Tags) /\ Len(want[t]) \in Nat /\ DOMAIN want[t] = 1 .. Len(want[t])
         /\ pos[t] \in Nat \ {0}
         /\ Range(want[t]) = {want[t][i] : i \in 1 .. Len(want[t])}
         /\ pos[t] \in DOMAIN want[t] => Wanted(t) \in Range(want[t]) /\ Wanted(t) \in Tags
BY DEF TypeOK, Range, Wanted

(* Soundness is not lost as a call goes on. *)
LEMMA StaysSound ==
  ASSUME NEW t \in Threads, NEW gs, NEW list, Sound(t, gs, list), Ages(t), starved[t] => starved'[t]
  PROVE  Sound(t, gs, list)'
<1> SUFFICES ASSUME NEW k \in Keys
             PROVE  /\ list[k] <= 1
                    /\ Matches(t, gs, steady[t], k)' /\ ~starved'[t] => list[k] = 1
                    /\ list[k] = 1 => Matches(t, gs, ever[t], k)'
  BY DEF Sound
<1>1. Matches(t, gs, steady[t], k)' => Matches(t, gs, steady[t], k)
  BY DEF Matches, Ages
<1>2. Matches(t, gs, ever[t], k) => Matches(t, gs, ever[t], k)'
  BY DEF Matches, Ages
<1> QED BY <1>1, <1>2 DEF Sound

(* One turn of the loop: the list is merged into what has been found. *)
LEMMA MergeSound ==
  ASSUME TypeOK, NEW t \in Threads, Matching(t), pc[t] \in {"descend", "unlock"}, pos[t] \in DOMAIN want[t],
         NEW list \in Bags, Merge(t, list), Sound(t, Done(t), found[t]), Sound(t, {Wanted(t)}, list)
  PROVE  Collects(t)'
<1>1. PICK lost \in SUBSET Keys :
        /\ found' = [found EXCEPT ![t] = Merged(t, list, lost)]
        /\ starved' = [starved EXCEPT ![t] = @ \/ lost # {}]
        /\ \A k \in lost : found[t][k] = 0 /\ list[k] > 0
  BY DEF Merge
<1>2. PICK D, w, F, F2, p : /\ D = Done(t) /\ w = Wanted(t) /\ F = found[t] /\ p = pos[t]
                            /\ F2 = Merged(t, list, lost)
  OBVIOUS
<1>3. /\ UNCHANGED <<op, want, steady, ever>> /\ found'[t] = F2
      /\ starved'[t] <=> (starved[t] \/ lost # {})
      /\ p \in Nat \ {0} /\ p \in 1 .. Len(want[t]) /\ Len(want[t]) \in Nat
      /\ F \in Bags /\ op[t] \in {"any", "all"}
  <2>1. UNCHANGED <<op, want, steady, ever>> /\ found'[t] = F2 /\ (starved'[t] <=> (starved[t] \/ lost # {}))
    BY <1>1, <1>2 DEF Merge, TypeOK
  <2>2. p \in Nat \ {0} /\ p \in 1 .. Len(want[t]) /\ Len(want[t]) \in Nat
    BY <1>2, TagsWanted
  <2> QED BY <1>2, <2>1, <2>2 DEF TypeOK, Matching
<1>4. D = {want[t][i] : i \in 1 .. p - 1}
  BY <1>2 DEF Done
<1>5. Done(t)' = D \cup {w} /\ pc'[t] \in {"descend", "return"}
  <2>1. 1 .. p = (1 .. p - 1) \cup {p}
    BY <1>3
  <2>2. D \cup {w} = {want[t][i] : i \in 1 .. p}
    BY <1>2, <1>4, <2>1 DEF Wanted
  <2>3. CASE p < Len(want[t])
    <3>1. pc'[t] = "descend" /\ pos'[t] = p + 1
      BY <1>2, <2>3 DEF Merge, Goto, TypeOK
    <3>2. 1 .. (p + 1) - 1 = 1 .. p
      BY <1>3
    <3> QED BY <1>3, <2>2, <3>1, <3>2 DEF Done
  <2>4. CASE ~(p < Len(want[t]))
    <3>1. pc'[t] = "return"
      BY <1>2, <2>4 DEF Merge, Goto, TypeOK
    <3>2. p = Len(want[t])
      BY <1>3, <2>4
    <3> QED BY <1>3, <2>2, <3>1, <3>2 DEF Done
  <2> QED BY <2>3, <2>4
<1>6. ASSUME NEW k \in Keys
      PROVE  /\ F2[k] <= 1
             /\ Matches(t, D \cup {w}, steady[t], k) /\ ~starved'[t] => F2[k] = 1
             /\ F2[k] = 1 => Matches(t, D \cup {w}, ever[t], k)
  <2>1. /\ F[k] \in Nat /\ F[k] <= 1
        /\ Matches(t, D, steady[t], k) /\ ~starved[t] => F[k] = 1
        /\ F[k] = 1 => Matches(t, D, ever[t], k)
    BY <1>2, <1>3 DEF Sound, Bags
  <2>2. /\ list[k] \in Nat /\ list[k] <= 1
        /\ <<w, k>> \in steady[t] /\ ~starved[t] => list[k] = 1
        /\ list[k] = 1 => <<w, k>> \in ever[t]
    BY <1>2 DEF Sound, Bags, Matches
  <2>3. CASE p = 1
    <3>1. D = {} /\ F2 = list
      BY <1>2, <1>3, <1>4, <2>3 DEF Merged
    <3>2. \A P : Matches(t, D \cup {w}, P, k) <=> <<w, k>> \in P
      BY <3>1 DEF Matches
    <3> QED BY <1>3, <2>2, <3>1, <3>2
  <2>4. CASE p # 1 /\ op[t] = "any"
    <3>1. F2[k] = IF F[k] = 0 /\ list[k] > 0 /\ k \notin lost THEN 1 ELSE F[k]
      BY <1>2, <2>4 DEF Merged
    <3>2. \A P : Matches(t, D \cup {w}, P, k) <=> Matches(t, D, P, k) \/ <<w, k>> \in P
      BY <2>4 DEF Matches
    <3>3. ASSUME Matches(t, D \cup {w}, steady[t], k), ~starved'[t] PROVE F2[k] = 1
      <4>1. ~starved[t] /\ k \notin lost
        BY <1>3, <3>3
      <4>2. F[k] = 1 \/ list[k] = 1
        BY <2>1, <2>2, <3>2, <3>3, <4>1
      <4> QED BY <2>1, <3>1, <4>1, <4>2
    <3>4. ASSUME F2[k] = 1 PROVE Matches(t, D \cup {w}, ever[t], k)
      <4>1. F[k] = 1 \/ list[k] = 1
        BY <2>1, <2>2, <3>1, <3>4
      <4> QED BY <2>1, <2>2, <3>2, <4>1
    <3>5. F2[k] <= 1
      BY <2>1, <3>1
    <3> QED BY <3>3, <3>4, <3>5
  <2>5. CASE p # 1 /\ op[t] = "all"
    <3>1. F2[k] = IF list[k] > 0 THEN F[k] ELSE 0
      BY <1>2, <2>5 DEF Merged
    <3>2. 1 \in 1 .. p - 1
      BY <1>3, <2>5
    <3>3. D # {}
      BY <1>4, <3>2
    <3>4. \A P : Matches(t, D \cup {w}, P, k) <=> Matches(t, D, P, k) /\ <<w, k>> \in P
      BY <2>5, <3>3 DEF Matches
    <3>5. ASSUME Matches(t, D \cup {w}, steady[t], k), ~starved'[t] PROVE F2[k] = 1
      <4>1. ~starved[t]
        BY <1>3, <3>5
      <4>2. F[k] = 1 /\ list[k] = 1
        BY <2>1, <2>2, <3>4, <3>5, <4>1
      <4> QED BY <3>1, <4>2
    <3>6. ASSUME F2[k] = 1 PROVE Matches(t, D \cup {w}, ever[t], k)
      <4>1. F[k] = 1 /\ list[k] = 1
        BY <2>1, <2>2, <3>1, <3>6
      <4> QED BY <2>1, <2>2, <3>4, <4>1
    <3>7. F2[k] <= 1
      BY <2>1, <3>1
    <3> QED BY <3>5, <3>6, <3>7
  <2> QED BY <1>3, <2>3, <2>4, <2>5
<1>7. Sound(t, Done(t), found[t])'
  <2>1. ASSUME NEW k \in Keys
        PROVE  /\ found'[t][k] <= 1
               /\ Matches(t, Done(t), steady[t], k)' /\ ~starved'[t] => found'[t][k] = 1
               /\ found'[t][k] = 1 => Matches(t, Done(t), ever[t], k)'
    <3>1. /\ Matches(t, Done(t), steady[t], k)' <=> Matches(t, D \cup {w}, steady[t], k)
          /\ Matches(t, Done(t), ever[t], k)' <=> Matches(t, D \cup {w}, ever[t], k)
      BY <1>3, <1>5 DEF Matches
    <3> QED BY <1>3, <1>6, <3>1
  <2> QED BY <2>1 DEF Sound
<1> QED BY <1>3, <1>5, <1>7 DEF Collects, Locked, Matching

LEMMA OthersCollect ==
  ASSUME TypeOK, TreeInv, SearchInv, LinkedKept, NEW t \in Threads, Moves(t),
         NEW u \in Threads \ {t}, Collects(u)
  PROVE  Collects(u)'
<1>1. /\ pc'[u] = pc[u] /\ op'[u] = op[u] /\ want'[u] = want[u] /\ pos'[u] = pos[u] /\ node'[u] = node[u]
  BY OthersStay DEF OthersLeft
<1>2. Ages(u) /\ starved'[u] = starved[u] /\ copied'[u] = copied[u] /\ found'[u] = found[u]
  BY OthersAge
<1>3. PICK D, w, F, C : D = Done(u) /\ w = Wanted(u) /\ F = found[u] /\ C = copied[u]
  OBVIOUS
<1>4. Done(u)' = D /\ Wanted(u)' = w /\ Matching(u)' = Matching(u) /\ Locked(u)' = Locked(u)
  BY <1>1, <1>3 DEF Done, Wanted, Matching, Locked
<1>5. \A gs, list : Sound(u, gs, list) => Sound(u, gs, list)'
  BY <1>2, StaysSound
<1>6. Matching(u) => Sound(u, D, F) /\ Sound(u, D, F)'
  BY <1>3, <1>5 DEF Collects
<1>7. Matching(u) /\ pc[u] = "unlock" => Sound(u, {w}, C)'
  BY <1>3, <1>5 DEF Collects
<1>8. Sound(u, D, F)' <=> Sound(u, Done(u), found[u])'
  BY <1>2, <1>3, <1>4 DEF Sound, Matches
<1>9. Sound(u, {w}, C)' <=> Sound(u, {Wanted(u)}, copied[u])'
  BY <1>2, <1>3, <1>4 DEF Sound, Matches
<1>10. op[u] # "walk" /\ (pc[u] = "lock" \/ Locked(u)) => tag'[node[u]] = tag[node[u]]
  BY DEF SearchInv, Placed, LinkedKept
<1> QED BY <1>1, <1>2, <1>3, <1>4, <1>6, <1>7, <1>8, <1>9, <1>10 DEF Collects

(* The steps of t that leave what it has found as it is. *)
LEMMA FoundKept ==
  ASSUME TypeOK, NEW t \in Threads, Collects(t), Ages(t),
         UNCHANGED <<pos, found, starved>>, pc[t] # "return", pc'[t] # "return", pc[t] # "idle", pc'[t] # "idle",
         op[t] # "walk" /\ (pc'[t] = "lock" \/ Locked(t)') => tag'[node'[t]] = Wanted(t),
         Matching(t) /\ pc'[t] = "unlock" => Sound(t, {Wanted(t)}, copied'[t])
  PROVE  Collects(t)'
<1>1. op'[t] = op[t] /\ want'[t] = want[t]
  BY DEF Ages
<1>2. PICK D, w, F, C : D = Done(t) /\ w = Wanted(t) /\ F = found[t] /\ C = copied'[t]
  OBVIOUS
<1>3. Done(t)' = D /\ Wanted(t)' = w /\ Matching(t)' = Matching(t)
  BY <1>1, <1>2 DEF Done, Wanted, Matching
<1>4. \A gs, list : Sound(t, gs, list) => Sound(t, gs, list)'
  BY StaysSound
<1>5. Matching(t) => Sound(t, D, F)'
  BY <1>2, <1>4 DEF Collects
<1>6. Matching(t) /\ pc'[t] = "unlock" => Sound(t, {w}, C)'
  BY <1>2, <1>4
<1>7. Sound(t, D, F)' <=> Sound(t, Done(t), found[t])'
  BY <1>2, <1>3 DEF Sound, Matches
<1>8. Sound(t, {w}, C)' <=> Sound(t, {Wanted(t)}, copied[t])'
  BY <1>2, <1>3 DEF Sound, Matches
<1> QED BY <1>1, <1>2, <1>3, <1>5, <1>6, <1>7, <1>8 DEF Collects

LEMMA OwnCollect ==
  ASSUME TypeOK, TreeInv, SearchInv, LockInv, ListInv, LinkedKept, NEW t \in Threads, Moves(t),
         Remembers(t), Collects(t)
  PROVE  Collects(t)'
<1> USE DEF At
<1>0. t \in Threads /\ Placed(t)
  BY DEF SearchInv
<1>1. CASE Begin(t)
  <2>0. pos[t] = 1 /\ found[t] = EmptyBag
    BY <1>0, <1>1 DEF Begin, KeyCall, MatchCall, WalkCall, Call, Placed, Collects
  <2>1. ASSUME NEW f \in {"add", "remove", "walk"}, NEW gs, NEW k, NEW l \in {"descend", "push"}, Call(t, f, gs, k, l)
        PROVE Collects(t)'
    <3>1. op'[t] = f /\ pc'[t] = l
      BY <2>1 DEF Call, Goto, TypeOK
    <3> QED BY <3>1 DEF Collects, Locked, Matching
  <2>2. ASSUME NEW f \in {"any", "all"}, NEW gs \in TagLists, MatchCall(t, f, gs) PROVE Collects(t)'
    <3>1. /\ op'[t] = f /\ want'[t] = gs /\ pos'[t] = 1 /\ found'[t] = EmptyBag
          /\ pc'[t] = IF gs = <<>> THEN "return" ELSE "descend"
      BY <2>0, <2>2 DEF MatchCall, Call, Goto, TypeOK, match
    <3>2. Done(t)' = {}
      BY <3>1 DEF Done
    <3>3. ASSUME NEW k \in Keys
          PROVE  /\ found'[t][k] = 0
                 /\ ~Matches(t, Done(t), steady[t], k)'
      BY <3>1, <3>2 DEF Matches, EmptyBag
    <3>4. Sound(t, Done(t), found[t])'
      BY <3>3 DEF Sound
    <3> QED BY <3>1, <3>4 DEF Collects, Locked
  <2> QED BY <1>1, <2>1, <2>2 DEF Begin, KeyCall, WalkCall
<1>2. CASE RemoveMisses(t) \/ UnlockKeys(t) \/ Return(t)
  <2>1. pc'[t] = "idle" /\ op'[t] = "add" /\ found'[t] = EmptyBag
    BY <1>2 DEF RemoveMisses, UnlockKeys, Return, Leave, Goto, TypeOK
  <2> QED BY <2>1 DEF Collects, Locked, Matching
<1>3. CASE MatchMisses(t) \/ UnlockAndMerge(t)
  <2>1. Matching(t) /\ pc[t] \in {"descend", "unlock"} /\ pos[t] \in DOMAIN want[t]
    BY <1>0, <1>3 DEF MatchMisses, AtLeaf, UnlockAndMerge, Placed, Matching
  <2>2. Sound(t, Done(t), found[t])
    BY <2>1 DEF Collects
  <2>3. CASE UnlockAndMerge(t)
    <3>1. copied[t] \in Bags /\ Sound(t, {Wanted(t)}, copied[t]) /\ Merge(t, copied[t])
      BY <2>1, <2>3 DEF UnlockAndMerge, Collects, TypeOK
    <3>2. PICK list \in Bags : list = copied[t]
      BY <3>1
    <3> QED BY <2>1, <2>2, <3>1, <3>2, MergeSound
  <2>4. CASE MatchMisses(t)
    <3>1. EmptyBag \in Bags /\ Merge(t, EmptyBag) /\ AtLeaf(t)
      BY <2>4 DEF MatchMisses, EmptyBag, Bags
    <3>2. PICK list \in Bags : list = EmptyBag
      BY <3>1
    <3>3. Wanted(t) \in Tags
      BY <2>1, TagsWanted
    <3>4. \A k \in Keys : <<Wanted(t), k>> \notin steady[t]
      BY <3>1, <3>3, NoNode DEF Remembers
    <3>5. Sound(t, {Wanted(t)}, list)
      BY <3>2, <3>4 DEF Sound, Matches, EmptyBag
    <3> QED BY <2>1, <2>2, <3>1, <3>2, <3>5, MergeSound
  <2> QED BY <1>3, <2>3, <2>4
<1>4. CASE CopyKeys(t) \/ CopyFails(t)
  <2>1. /\ Matching(t) /\ pc[t] = "locked" /\ UNCHANGED <<op, want, pos, steady, ever, found, tag, node, keys>>
    BY <1>4 DEF CopyKeys, CopyFails, call, history, fields
  <2>2. PICK m, w, L : m = node[t] /\ w = Wanted(t) /\ L = keys[m]
    OBVIOUS
  <2>3. /\ m \in Linked /\ m \in Nodes /\ tag[m] = w /\ w \in Tags /\ w \in Range(want[t]) /\ L \in Bags
        /\ \A k \in Keys : L[k] \in {0, 1}
    <3>1. m \in Linked /\ m \in Nodes /\ pos[t] \in DOMAIN want[t]
      BY <1>0, <2>1, <2>2, Places DEF Placed, Locked, Matching
    <3>2. tag[m] = w
      BY <2>1, <2>2 DEF Collects, Locked, Matching
    <3>3. L \in Bags /\ \A k \in Keys : L[k] \in {0, 1}
      BY <2>2, <3>1 DEF TypeOK, Bags, ListInv
    <3> QED BY <2>2, <3>1, <3>2, <3>3, TagsWanted
  <2>4. \A k \in Keys : <<w, k>> \in steady[t] => L[k] = 1
    <3> SUFFICES ASSUME NEW k \in Keys, <<w, k>> \in steady[t] PROVE L[k] = 1
      OBVIOUS
    <3>1. PICK n \in Linked : tag[n] = w /\ keys[n][k] > 0
      BY <2>3 DEF Remembers
    <3>2. n = m
      BY <2>3, <3>1, UniqueTags
    <3> QED BY <2>2, <2>3, <3>1, <3>2
  <2>5. \A k \in Keys : L[k] = 1 => <<w, k>> \in ever[t]
    BY <2>1, <2>2, <2>3 DEF Remembers, Concerns
  <2>6. Ages(t)
    BY <2>1 DEF Ages
  <2>7. CASE CopyKeys(t)
    <3>1. copied'[t] = L /\ pc'[t] = "unlock" /\ starved' = starved
      BY <2>2, <2>7 DEF CopyKeys, Goto, TypeOK, history
    <3>2. Sound(t, {w}, L)
      BY <2>3, <2>4, <2>5 DEF Sound, Matches
    <3> QED BY <2>1, <2>2, <2>3, <2>6, <3>1, <3>2, FoundKept
  <2>8. CASE CopyFails(t)
    <3>1. PICK k0 \in Keys :
            /\ L[k0] > 0
            /\ \/ /\ copied' = [copied EXCEPT ![t] = [L EXCEPT ![k0] = @ - 1]]
                  /\ starved' = [starved EXCEPT ![t] = TRUE]
                  /\ Goto(t, "unlock")
               \/ UNCHANGED <<copied, starved, pc>>
      BY <2>2, <2>8 DEF CopyFails
    <3>0. PICK rest : rest = [L EXCEPT ![k0] = @ - 1]
      OBVIOUS
    <3>2. CASE UNCHANGED <<copied, starved, pc>>
      BY <2>1, <2>2, <2>3, <2>6, <3>2, FoundKept
    <3>3. CASE copied' = [copied EXCEPT ![t] = rest] /\ starved' = [starved EXCEPT ![t] = TRUE] /\ Goto(t, "unlock")
      <4>1. copied'[t] = rest /\ starved'[t] /\ pc'[t] = "unlock"
        BY <3>3 DEF Goto, TypeOK
      <4>2. \A k \in Keys : rest[k] \in {0, 1} /\ (rest[k] = 1 => L[k] = 1)
        BY <2>3, <3>0, <3>1 DEF Bags
      <4>3. ASSUME NEW k \in Keys PROVE rest[k] <= 1 /\ (rest[k] = 1 => <<w, k>> \in ever[t])
        BY <2>5, <4>2
      <4>4. Collects(t)'
        <5>1. PICK D, F : D = Done(t) /\ F = found[t]
          OBVIOUS
        <5>2. /\ Done(t)' = D /\ Wanted(t)' = w /\ Matching(t)' /\ found'[t] = F
          BY <2>1, <2>2, <4>1, <5>1 DEF Done, Wanted, Matching
        <5>3. Sound(t, D, F)'
          BY <2>1, <2>6, <4>1, <5>1, StaysSound DEF Collects
        <5>4. Sound(t, Done(t), found[t])'
          BY <5>2, <5>3 DEF Sound, Matches
        <5>5. ASSUME NEW k \in Keys
              PROVE  /\ copied'[t][k] <= 1 /\ (copied'[t][k] = 1 => Matches(t, {Wanted(t)}, ever[t], k)')
          BY <2>1, <4>1, <4>3, <5>2 DEF Matches
        <5>6. Sound(t, {Wanted(t)}, copied[t])'
          BY <4>1, <5>5 DEF Sound
        <5>7. tag'[node'[t]] = w
          BY <2>1, <2>2, <2>3
        <5> QED BY <4>1, <5>2, <5>4, <5>6, <5>7 DEF Collects
      <4> QED BY <4>4
    <3> QED BY <3>0, <3>1, <3>2, <3>3
  <2> QED BY <1>4, <2>7, <2>8
<1>5. CASE \/ LockKeys(t) \/ Reach(t) \/ Search(t) \/ Link(t) \/ Unlink(t) \/ Count(t)
  <2>1. UNCHANGED <<op, want, pos, node, tag, found, copied, starved>>
    BY <1>5 DEF LockKeys, Reach, Search, Link, Unlink, Count, Appears, Disappears, call, match, history, fields, tree
  <2>2. Ages(t)
    <3>1. CASE Link(t)
      BY <2>1, <3>1 DEF Link, Appears, Ages, TypeOK
    <3>2. CASE Unlink(t)
      BY <2>1, <3>2 DEF Unlink, Disappears, history, Ages, TypeOK
    <3>3. CASE LockKeys(t) \/ Reach(t) \/ Search(t) \/ Count(t)
      BY <2>1, <3>3 DEF LockKeys, Reach, Search, Count, history, Ages
    <3> QED BY <1>5, <3>1, <3>2, <3>3
  <2>3. op[t] # "walk" => tag[node[t]] = Wanted(t)
    BY <1>5 DEF LockKeys, Reach, Search, Link, Unlink, Count, Collects, Locked
  <2>4. /\ pc[t] \notin {"idle", "return"} /\ pc'[t] \notin {"idle", "return"}
        /\ Matching(t) => pc'[t] # "unlock"
    BY <1>5 DEF LockKeys, Reach, Search, Link, Unlink, Count, Goto, TypeOK, ListInv, Matching
  <2> QED BY <2>1, <2>2, <2>3, <2>4, FoundKept
<1>6. CASE \/ Descend(t) \/ CreateFails(t) \/ CasWins(t) \/ CasLoses(t) \/ \E n \in Nodes : Create(t, n)
  <2>1. UNCHANGED <<op, want, pos, found, copied, starved, steady, ever>>
    BY <1>6 DEF Descend, CreateFails, CasWins, CasLoses, Create, call, match, history
  <2>2. pc[t] \in {"descend", "cas"} /\ pc'[t] \in {"descend", "cas"}
    BY <1>6 DEF Descend, CreateFails, AtLeaf, CasWins, CasLoses, Create, Goto, TypeOK
  <2>3. Ages(t)
    BY <2>1 DEF Ages
  <2> QED BY <2>1, <2>2, <2>3, FoundKept DEF Locked
<1>7. CASE \/ PushLeft(t) \/ PushFails(t) \/ Pop(t) \/ Report(t) \/ GoRight(t) \/ WalkEnds(t)
  <2>1. op' = op /\ op[t] = "walk" /\ pc'[t] # "idle"
    BY <1>0, <1>7 DEF PushLeft, PushFails, Pop, Report, GoRight, WalkEnds, call, Goto, TypeOK, Placed
  <2> QED BY <2>1 DEF Collects, Matching
<1> QED BY <1>1, <1>2, <1>3, <1>4, <1>5, <1>6, <1>7 DEF Moves, Free

LEMMA MatchStep == IInv /\ MatchInv /\ [Next]_vars => MatchInv'
<1> SUFFICES ASSUME IInv, MatchInv, [Next]_vars PROVE MatchInv'
  OBVIOUS
<1> USE DEF IInv
<1>1. ASSUME NEW t \in Threads, Moves(t), NEW u \in Threads PROVE Remembers(u)' /\ Collects(u)'
  <2>1. LinkedKept
    BY TreeStep
  <2>2. Remembers(u)'
    BY <1>1, RememberStep DEF MatchInv
  <2>3. CASE u = t
    BY <1>1, <2>1, <2>2, <2>3, OwnCollect DEF MatchInv
  <2>4. CASE u # t
    BY <1>1, <2>1, <2>2, <2>4, OthersCollect DEF MatchInv
  <2> QED BY <2>2, <2>3, <2>4
<1>2. CASE UNCHANGED vars
  <2>1. ASSUME NEW t \in Threads PROVE Remembers(t)' /\ Collects(t)'
    <3>1. Remembers(t) /\ Collects(t)
      BY DEF MatchInv
    <3>2. Remembers(t)'
      BY <1>2, <3>1 DEF vars, Remembers, Linked, Concerns, Matching, Range
    <3>3. Collects(t)'
      BY <1>2, <3>1 DEF vars, Collects, Locked, Matching, Wanted, Sound, Matches, Done
    <3> QED BY <3>2, <3>3
  <2> QED BY <2>1 DEF MatchInv
<1> QED BY <1>1, <1>2 DEF Next, Moves, MatchInv

LEMMA InitMatch == Init => MatchInv
<1> SUFFICES ASSUME Init, NEW t \in Threads PROVE Remembers(t) /\ Collects(t)
  BY DEF MatchInv
<1>1. op[t] = "add" /\ pc[t] = "idle" /\ steady[t] = {} /\ found[t] = EmptyBag
  BY DEF Init
<1>2. \A g : ~Concerns(t, g)
  BY <1>1 DEF Concerns, Matching
<1> QED BY <1>1, <1>2 DEF Remembers, Collects, Locked, Matching

(* The lists are copied one after the other while others change them, and  *)
(* reservations fail; what get_keys_matching_any_tag and                   *)
(* get_keys_matching_all_tags return is sound nevertheless.                *)
THEOREM SoundMatches == Spec => []MatchesAreSound
<1>1. Init => MatchInv
  BY InitMatch
<1>2. IInv /\ MatchInv => MatchesAreSound
  <2> SUFFICES ASSUME IInv, MatchInv, NEW t \in Threads, pc[t] = "return", Matching(t)
               PROVE  Sound(t, Range(want[t]), found[t])
    BY DEF MatchesAreSound, At
  <2>1. Done(t) = Range(want[t])
    BY TagsWanted DEF Done, IInv
  <2> QED BY <2>1 DEF MatchInv, Collects
<1> QED BY <1>1, <1>2, MatchStep, Invariance, PTL DEF Spec
(***************************************************************************)
(* What walks tell.                                                        *)
(***************************************************************************)

(* The spans of a linked node stay as they are. *)
LEMMA SpansKept ==
  ASSUME LinkedKept, NEW n \in Linked
  PROVE  /\ tag'[n] = tag[n] /\ span'[n] = span[n]
         /\ LeftSpan(n)' = LeftSpan(n) /\ RightSpan(n)' = RightSpan(n)
BY DEF LinkedKept, LeftSpan, RightSpan

(* A pair that has been listed all the time has a node that is in the tree *)
(* at the place where its tag belongs.                                     *)
LEMMA SteadyNode ==
  ASSUME TypeOK, TreeInv, NEW t \in Threads, Remembers(t), NEW m \in Linked,
         NEW p \in steady[t], p[1] \in span[m]
  PROVE  /\ p[1] \in Int /\ tag[m] \in Int
         /\ p[1] < tag[m] => left[m] # NULL
         /\ p[1] > tag[m] => right[m] # NULL
         /\ p[1] = tag[m] => \E k \in Keys : keys[m][k] > 0
<1>1. p[1] \in Tags /\ p[2] \in Keys /\ p = <<p[1], p[2]>>
  BY DEF TypeOK
<1>2. PICK n \in Linked : tag[n] = p[1] /\ keys[n][p[2]] > 0
  BY <1>1 DEF Remembers
<1>3. p[1] \in Int /\ tag[m] \in Int
  BY <1>1, ChildrenLinked, TagAssumption
<1>4. tag[n] \in span[m]
  BY <1>2
<1>5. (p[1] < tag[m] => left[m] # NULL) /\ (p[1] > tag[m] => right[m] # NULL)
  BY <1>2, <1>4 DEF TreeInv
<1>6. p[1] = tag[m] => n = m
  BY <1>2, UniqueTags
<1> QED BY <1>1, <1>2, <1>3, <1>5, <1>6

(* A step that tells nothing may only leave tags behind that no pair has   *)
(* had all the time.                                                       *)
LEMMA NothingTold ==
  ASSUME NEW t \in Threads, Tells(t), told'[t] = told[t], Ages(t),
         NEW A, NEW B, A = Below(t) \cup Above(t), B = (Below(t) \cup Above(t))',
         B \subseteq A, \A p \in steady[t] : p[1] \in A => p[1] \in B
  PROVE  Tells(t)'
<1>1. PICK T : T = told[t]
  OBVIOUS
<1>2. told'[t] = T
  BY <1>1
<1>3. \A i, j \in DOMAIN T : i < j => T[i] < T[j]
  BY <1>1 DEF Tells
<1>4. \A g \in Range(T) : (\A x \in B : g < x) /\ \E k \in Keys : <<g, k>> \in ever'[t]
  BY <1>1 DEF Tells, Ages
<1>5. \A p \in steady'[t] : p[1] \in Range(T) \cup B
  BY <1>1 DEF Tells, Ages
<1>6. Range(told[t])' = Range(T)
  BY <1>2
<1>7. \A x : x \in Below(t)' \cup Above(t)' <=> x \in B
  OBVIOUS
<1> QED BY <1>2, <1>3, <1>4, <1>5, <1>6, <1>7 DEF Tells

(* A walk that stays where it is. *)
LEMMA WalkStays ==
  ASSUME TypeOK, SearchInv, LinkedKept, NEW u \in Threads, Ages(u), Walks(u),
         stack'[u] = stack[u], told'[u] = told[u], node'[u] = node[u],
         pc'[u] = pc[u] \/ (pc[u] = "lock" /\ pc'[u] = "locked")
  PROVE  Walks(u)'
<1>0. op'[u] = op[u] /\ Placed(u)
  BY DEF Ages, SearchInv
<1>1. PICK S, m : S = stack[u] /\ m = node[u]
  OBVIOUS
<1>2. stack'[u] = S /\ node'[u] = m
  BY <1>1
<1>3. CASE op[u] # "walk"
  BY <1>0, <1>3 DEF Walks
<1>4. CASE op[u] = "walk"
  <2>1. /\ pc[u] \in {"push", "lock", "locked", "report", "return"}
        /\ pc[u] = "return" => S = <<>>
        /\ Nested(u) /\ Tells(u)
    BY <1>1, <1>4 DEF Walks
  <2>2. \A i \in DOMAIN S : S[i] \in Linked
    BY <1>0, <1>1 DEF Placed
  <2>3. pc[u] # "return" => m \in Linked \cup {NULL}
    BY <1>0, <1>1, <2>1 DEF Placed, Locked
  <2>4. pc[u] \in {"lock", "locked", "report"} => m \in Linked
    BY <1>0, <1>1 DEF Placed, Locked
  <2>5. Nested(u)'
    <3>1. \A i, j \in DOMAIN S : i < j => span'[S[i]] \subseteq LeftSpan(S[j])'
      BY <1>1, <2>1, <2>2, SpansKept DEF Nested
    <3>2. m # NULL => \A i \in DOMAIN S : span'[m] \subseteq LeftSpan(S[i])'
      <4>1. CASE pc[u] = "return"
        BY <2>1, <4>1
      <4>2. CASE pc[u] # "return"
        BY <1>1, <2>1, <2>2, <2>3, <4>2, SpansKept DEF Nested
      <4> QED BY <4>1, <4>2
    <3>3. \A i : S[i] = stack'[u][i]
      BY <1>2
    <3> QED BY <1>2, <3>1, <3>2, <3>3 DEF Nested, LeftSpan
  <2>6. Below(u)' = Below(u)
    <3>1. CASE pc[u] = "push"
      <4>1. pc'[u] = "push"
        BY <3>1
      <4>2. m # NULL => span'[m] = span[m]
        BY <2>3, <3>1, SpansKept
      <4> QED BY <1>1, <1>2, <3>1, <4>1, <4>2 DEF Below
    <3>2. CASE pc[u] \in {"lock", "locked", "report"}
      <4>1. /\ pc[u] \in {"lock", "locked"} => pc'[u] \in {"lock", "locked"}
            /\ pc[u] = "report" => pc'[u] = "report"
        BY <3>2
      <4>2. tag'[m] = tag[m] /\ RightSpan(m)' = RightSpan(m)
        BY <2>4, <3>2, SpansKept
      <4>3. RightSpan(node[u])' = RightSpan(node[u])
        BY <1>1, <1>2, <4>2 DEF RightSpan
      <4> QED BY <1>1, <1>2, <3>2, <4>1, <4>2, <4>3 DEF Below
    <3>3. CASE pc[u] = "return"
      BY <3>3 DEF Below
    <3> QED BY <2>1, <3>1, <3>2, <3>3
  <2>7. Above(u)' = Above(u)
    <3>1. \A i \in DOMAIN S : ({tag[S[i]]} \cup RightSpan(S[i]))' = {tag[S[i]]} \cup RightSpan(S[i])
      BY <2>2, SpansKept
    <3>2. Above(u)' = UNION {({tag[S[i]]} \cup RightSpan(S[i]))' : i \in DOMAIN S}
      BY <1>2 DEF Above, RightSpan
    <3>3. Above(u) = UNION {{tag[S[i]]} \cup RightSpan(S[i]) : i \in DOMAIN S}
      BY <1>1 DEF Above
    <3> QED BY <3>1, <3>2, <3>3
  <2>8. Tells(u)'
    BY <2>1, <2>6, <2>7, NothingTold
  <2>9. /\ pc'[u] \in {"push", "lock", "locked", "report", "return"}
        /\ pc'[u] = "return" => stack'[u] = <<>>
    BY <1>2, <2>1
  <2> QED BY <2>1, <2>5, <2>8, <2>9 DEF Walks
<1> QED BY <1>3, <1>4
LEMMA OthersWalk ==
  ASSUME TypeOK, TreeInv, SearchInv, LinkedKept, NEW t \in Threads, Moves(t),
         NEW u \in Threads \ {t}, Walks(u)
  PROVE  Walks(u)'
<1>1. pc'[u] = pc[u] /\ node'[u] = node[u] /\ stack'[u] = stack[u]
  BY OthersStay DEF OthersLeft
<1>2. Ages(u) /\ told'[u] = told[u]
  BY OthersAge
<1> QED BY <1>1, <1>2, WalkStays

(* The steps of a walk leave the tree alone. *)
LEMMA WalkTree ==
  ASSUME TypeOK, TreeInv, SearchInv, UNCHANGED tree, NEW t \in Threads, op[t] = "walk", Walks(t)
  PROVE  /\ \A n : LeftSpan(n)' = LeftSpan(n) /\ RightSpan(n)' = RightSpan(n)
         /\ stack[t] \in Seq(Nodes) /\ \A i \in DOMAIN stack[t] : stack[t][i] \in Linked
         /\ \A n \in Linked : LeftSpan(n) \subseteq span[n] /\ RightSpan(n) \subseteq span[n] /\ tag[n] \in span[n]
BY DEF tree, LeftSpan, RightSpan, SearchInv, Placed, TypeOK, TreeInv

LEMMA PushWalks ==
  ASSUME TypeOK, TreeInv, SearchInv, NEW t \in Threads, Remembers(t), Walks(t), PushLeft(t)
  PROVE  Walks(t)'
<1>0. /\ op[t] = "walk" /\ op'[t] = "walk" /\ pc[t] = "push" /\ pc'[t] = "push"
      /\ UNCHANGED tree /\ UNCHANGED <<tag, span, left>> /\ Ages(t) /\ told'[t] = told[t] /\ steady'[t] = steady[t]
  BY DEF PushLeft, At, SearchInv, Placed, fields, call, history, tree, Ages
<1>1. PICK S, m : S = stack[t] /\ m = node[t]
  OBVIOUS
<1>2. /\ m \in Linked /\ stack'[t] = <<m>> \o S /\ node'[t] = left[m]
      /\ S \in Seq(Nodes) /\ \A i \in DOMAIN S : S[i] \in Linked
      /\ left[m] # NULL => left[m] \in Linked /\ span[left[m]] = LeftSpan(m)
  <2>1. m \in Linked
    BY <1>0, <1>1 DEF PushLeft, SearchInv, Placed
  <2>2. stack'[t] = <<m>> \o S /\ node'[t] = left[m]
    BY <1>1 DEF PushLeft, TypeOK
  <2> QED BY <1>0, <1>1, <2>1, <2>2, WalkTree, ChildrenLinked DEF TreeInv
<1>3. PICK S2 : S2 = <<m>> \o S
  OBVIOUS
<1>4. /\ DOMAIN S2 = 1 .. Len(S) + 1 /\ DOMAIN S = 1 .. Len(S) /\ Len(S) \in Nat
      /\ S2[1] = m /\ \A i \in 1 .. Len(S) : S2[i + 1] = S[i]
      /\ \A i \in DOMAIN S2 : i = 1 \/ (i - 1 \in 1 .. Len(S) /\ S2[i] = S[i - 1])
  <2>1. m \in Nodes
    BY <1>2, ChildrenLinked
  <2> QED BY <1>2, <1>3, <2>1
<1>5. /\ \A n : LeftSpan(n)' = LeftSpan(n) /\ RightSpan(n)' = RightSpan(n)
      /\ \A n \in Linked : LeftSpan(n) \subseteq span[n] /\ RightSpan(n) \subseteq span[n] /\ tag[n] \in span[n]
  BY <1>0, WalkTree
<1>6. Nested(t) /\ Tells(t)
  BY <1>0 DEF Walks
<1>7. /\ \A i, j \in DOMAIN S : i < j => span[S[i]] \subseteq LeftSpan(S[j])
      /\ \A i \in DOMAIN S : span[m] \subseteq LeftSpan(S[i])
  <2>1. m # NULL
    BY <1>2, ChildrenLinked, TagAssumption
  <2> QED BY <1>1, <1>6, <2>1 DEF Nested
<1>8. Nested(t)'
  <2>1. ASSUME NEW i \in DOMAIN S2, NEW j \in DOMAIN S2, i < j
        PROVE  span[S2[i]] \subseteq LeftSpan(S2[j])
    <3>1. j - 1 \in DOMAIN S /\ S2[j] = S[j - 1]
      BY <1>4, <2>1
    <3>2. CASE i = 1
      BY <1>4, <1>7, <3>1, <3>2
    <3>3. CASE i # 1
      <4>1. i - 1 \in DOMAIN S /\ S2[i] = S[i - 1] /\ i - 1 < j - 1
        BY <1>4, <2>1, <3>3
      <4> QED BY <1>7, <3>1, <4>1
    <3> QED BY <3>2, <3>3
  <2>2. ASSUME left[m] # NULL, NEW i \in DOMAIN S2 PROVE span[left[m]] \subseteq LeftSpan(S2[i])
    <3>1. CASE i = 1
      BY <1>2, <1>4, <2>2, <3>1
    <3>2. CASE i # 1
      <4>1. i - 1 \in DOMAIN S /\ S2[i] = S[i - 1]
        BY <1>4, <3>2
      <4> QED BY <1>2, <1>5, <1>7, <2>2, <4>1
    <3> QED BY <3>1, <3>2
  <2>3. stack'[t] = S2 /\ node'[t] = left[m] /\ span' = span
    BY <1>0, <1>2, <1>3
  <2>4. \A i, j \in DOMAIN S2 : i < j => span'[S2[i]] \subseteq LeftSpan(S2[j])'
    BY <1>5, <2>1, <2>3
  <2>5. left[m] # NULL => \A i \in DOMAIN S2 : span'[left[m]] \subseteq LeftSpan(S2[i])'
    BY <1>5, <2>2, <2>3
  <2>6. PICK l : l = left[m]
    OBVIOUS
  <2> QED BY <2>3, <2>4, <2>5, <2>6 DEF Nested, LeftSpan
<1>9. PICK A, L, R : /\ A = Above(t) /\ L = (IF left[m] = NULL THEN {} ELSE LeftSpan(m)) /\ R = {tag[m]} \cup RightSpan(m)
  OBVIOUS
<1>10. Below(t) = span[m] /\ Below(t)' = L
  <2>1. m # NULL
    BY <1>2, ChildrenLinked, TagAssumption
  <2> QED BY <1>0, <1>1, <1>2, <1>9, <2>1 DEF Below
<1>11. Above(t)' = A \cup R
  <2>1. Above(t)' = UNION {{tag[S2[i]]} \cup RightSpan(S2[i]) : i \in DOMAIN S2}
    BY <1>0, <1>2, <1>3 DEF Above, RightSpan
  <2>2. A = UNION {{tag[S[i]]} \cup RightSpan(S[i]) : i \in DOMAIN S}
    BY <1>1, <1>9 DEF Above
  <2>3. ASSUME NEW x PROVE x \in Above(t)' <=> x \in A \cup R
    <3>1. ASSUME x \in Above(t)' PROVE x \in A \cup R
      <4>1. PICK i \in DOMAIN S2 : x \in {tag[S2[i]]} \cup RightSpan(S2[i])
        BY <2>1, <3>1
      <4>2. i = 1 \/ (i - 1 \in DOMAIN S /\ S2[i] = S[i - 1])
        BY <1>4
      <4> QED BY <1>4, <1>9, <2>2, <4>1, <4>2
    <3>2. ASSUME x \in R PROVE x \in Above(t)'
      <4>1. 1 \in DOMAIN S2 /\ S2[1] = m
        BY <1>4
      <4> QED BY <1>9, <2>1, <3>2, <4>1
    <3>3. ASSUME x \in A PROVE x \in Above(t)'
      <4>1. PICK i \in DOMAIN S : x \in {tag[S[i]]} \cup RightSpan(S[i])
        BY <2>2, <3>3
      <4>2. i + 1 \in DOMAIN S2 /\ S2[i + 1] = S[i]
        BY <1>4
      <4> QED BY <2>1, <4>1, <4>2
    <3> QED BY <3>1, <3>2, <3>3
  <2> QED BY <2>3
<1>12. ASSUME NEW p \in steady[t], p[1] \in span[m] PROVE p[1] \in L \cup R
  <2>1. /\ p[1] \in Int /\ tag[m] \in Int /\ (p[1] < tag[m] => left[m] # NULL)
    BY <1>2, <1>12, SteadyNode
  <2>2. p[1] < tag[m] \/ p[1] = tag[m] \/ p[1] > tag[m]
    BY <2>1
  <2> QED BY <1>9, <1>12, <2>1, <2>2 DEF LeftSpan, RightSpan
<1>13. L \subseteq span[m] /\ R \subseteq span[m]
  BY <1>2, <1>5, <1>9
<1>14. Tells(t)'
  <2>1. PICK B, C : B = Below(t) \cup Above(t) /\ C = (Below(t) \cup Above(t))'
    OBVIOUS
  <2>2. B = span[m] \cup A /\ C = L \cup (A \cup R)
    BY <1>9, <1>10, <1>11, <2>1
  <2>3. C \subseteq B /\ \A p \in steady[t] : p[1] \in B => p[1] \in C
    BY <1>12, <1>13, <2>2
  <2> QED BY <1>0, <1>6, <2>1, <2>3, NothingTold
<1> QED BY <1>0, <1>8, <1>14 DEF Walks

LEMMA PopWalks ==
  ASSUME TypeOK, TreeInv, SearchInv, NEW t \in Threads, Walks(t), Pop(t)
  PROVE  Walks(t)'
<1>0. /\ op[t] = "walk" /\ op'[t] = "walk" /\ pc[t] = "push" /\ pc'[t] = "lock" /\ node[t] = NULL
      /\ UNCHANGED tree /\ UNCHANGED <<tag, span>> /\ Ages(t) /\ told'[t] = told[t]
  BY DEF Pop, At, Goto, TypeOK, SearchInv, Placed, fields, call, history, tree, Ages
<1>1. PICK S, S2 : S = stack[t] /\ S2 = Tail(S)
  OBVIOUS
<1>2. /\ S \in Seq(Nodes) /\ S # <<>> /\ stack'[t] = S2 /\ node'[t] = S[1]
  BY <1>1 DEF Pop, TypeOK
<1>4. /\ DOMAIN S2 = 1 .. Len(S) - 1 /\ DOMAIN S = 1 .. Len(S) /\ Len(S) \in Nat /\ Len(S) >= 1
      /\ \A i \in DOMAIN S2 : i + 1 \in DOMAIN S /\ S2[i] = S[i + 1]
  BY <1>1, <1>2
<1>5. /\ \A n : LeftSpan(n)' = LeftSpan(n) /\ RightSpan(n)' = RightSpan(n)
  BY <1>0, WalkTree
<1>6. Nested(t) /\ Tells(t)
  BY <1>0 DEF Walks
<1>7. \A i, j \in DOMAIN S : i < j => span[S[i]] \subseteq LeftSpan(S[j])
  BY <1>1, <1>6 DEF Nested
<1>8. Nested(t)'
  <2>1. ASSUME NEW i \in DOMAIN S2, NEW j \in DOMAIN S2, i < j
        PROVE  span'[S2[i]] \subseteq LeftSpan(S2[j])'
    <3>1. i + 1 \in DOMAIN S /\ j + 1 \in DOMAIN S /\ i + 1 < j + 1
      BY <1>4, <2>1
    <3> QED BY <1>0, <1>4, <1>5, <1>7, <3>1
  <2>2. ASSUME NEW i \in DOMAIN S2 PROVE span'[S[1]] \subseteq LeftSpan(S2[i])'
    <3>1. 1 \in DOMAIN S /\ i + 1 \in DOMAIN S /\ 1 < i + 1
      BY <1>4
    <3> QED BY <1>0, <1>4, <1>5, <1>7, <3>1
  <2> QED BY <1>2, <2>1, <2>2 DEF Nested, LeftSpan
<1>9. PICK A, A2, R : /\ A = Above(t) /\ A2 = Above(t)' /\ R = {tag[S[1]]} \cup RightSpan(S[1])
  OBVIOUS
<1>10. Below(t) = {} /\ Below(t)' = R
  BY <1>0, <1>2, <1>9 DEF Below, RightSpan
<1>11. R \cup A2 = A
  <2>1. A2 = UNION {{tag[S2[i]]} \cup RightSpan(S2[i]) : i \in DOMAIN S2}
    BY <1>0, <1>2, <1>9 DEF Above, RightSpan
  <2>2. A = UNION {{tag[S[i]]} \cup RightSpan(S[i]) : i \in DOMAIN S}
    BY <1>1, <1>9 DEF Above
  <2>3. ASSUME NEW x PROVE x \in A <=> x \in R \cup A2
    <3>1. ASSUME x \in A PROVE x \in R \cup A2
      <4>1. PICK i \in DOMAIN S : x \in {tag[S[i]]} \cup RightSpan(S[i])
        BY <2>2, <3>1
      <4>2. i = 1 \/ (i - 1 \in DOMAIN S2 /\ S2[i - 1] = S[i])
        BY <1>4
      <4> QED BY <1>9, <2>1, <4>1, <4>2
    <3>2. ASSUME x \in R PROVE x \in A
      <4>1. 1 \in DOMAIN S
        BY <1>4
      <4> QED BY <1>9, <2>2, <3>2, <4>1
    <3>3. ASSUME x \in A2 PROVE x \in A
      <4>1. PICK i \in DOMAIN S2 : x \in {tag[S2[i]]} \cup RightSpan(S2[i])
        BY <2>1, <3>3
      <4> QED BY <1>4, <2>2, <4>1
    <3> QED BY <3>1, <3>2, <3>3
  <2> QED BY <2>3
<1>12. Tells(t)'
  <2>1. PICK B : B = Below(t) \cup Above(t)
    OBVIOUS
  <2>2. B = (Below(t) \cup Above(t))'
    BY <1>9, <1>10, <1>11, <2>1
  <2> QED BY <1>0, <1>6, <2>1, <2>2, NothingTold
<1> QED BY <1>0, <1>8, <1>12 DEF Walks
(* A node that is reported comes before everything that lies ahead.        *)
LEMMA NodeFirst ==
  ASSUME TypeOK, TreeInv, SearchInv, NEW t \in Threads, op[t] = "walk", pc[t] = "locked", Walks(t)
  PROVE  /\ node[t] \in Linked /\ tag[node[t]] \in Tags
         /\ \A x \in RightSpan(node[t]) \cup Above(t) : tag[node[t]] < x
<1>1. PICK m : m = node[t]
  OBVIOUS
<1>2. m \in Linked /\ m \in Nodes /\ tag[m] \in Tags /\ tag[m] \in Int
  BY <1>1, Places, TagAssumption DEF Locked
<1>3. \A x \in RightSpan(m) : tag[m] < x
  BY <1>2, ChildrenLinked, TagAssumption DEF RightSpan
<1>4. ASSUME NEW x \in Above(t) PROVE tag[m] < x
  <2>1. PICK i \in DOMAIN stack[t] : x \in {tag[stack[t][i]]} \cup RightSpan(stack[t][i])
    BY <1>4 DEF Above
  <2>2. PICK n : n = stack[t][i]
    OBVIOUS
  <2>3. n \in Linked /\ m # NULL
    BY <1>2, <2>2, TagAssumption DEF SearchInv, Placed
  <2>4. tag[n] \in Int /\ span[n] \subseteq Int
    BY <2>3, ChildrenLinked, TagAssumption
  <2>5. span[m] \subseteq LeftSpan(n)
    BY <1>1, <2>2, <2>3 DEF Walks, Nested
  <2>6. tag[m] < tag[n]
    BY <1>2, <2>5 DEF TreeInv, LeftSpan
  <2>7. x = tag[n] \/ (x \in Int /\ tag[n] < x)
    BY <2>1, <2>2, <2>4 DEF RightSpan
  <2>8. CASE x = tag[n]
    BY <2>6, <2>8
  <2>9. CASE x \in Int /\ tag[n] < x
    BY <1>2, <2>4, <2>6, <2>9
  <2> QED BY <2>7, <2>8, <2>9
<1> QED BY <1>1, <1>2, <1>3, <1>4

LEMMA ReportWalks ==
  ASSUME TypeOK, TreeInv, SearchInv, NEW t \in Threads, Remembers(t), Walks(t), Report(t)
  PROVE  Walks(t)'
<1>0. /\ op[t] = "walk" /\ op'[t] = "walk" /\ pc[t] = "locked" /\ pc'[t] = "report"
      /\ UNCHANGED tree /\ UNCHANGED <<tag, span, steady, ever>>
      /\ node'[t] = node[t] /\ stack'[t] = stack[t]
  BY DEF Report, At, Goto, TypeOK, call, history, tree
<1>1. PICK S, m, g0, T : S = stack[t] /\ m = node[t] /\ g0 = tag[m] /\ T = told[t]
  OBVIOUS
<1>2. /\ m \in Linked /\ m \in Nodes /\ g0 \in Tags /\ T \in Seq(Tags)
      /\ \A x \in RightSpan(m) \cup Above(t) : g0 < x
  BY <1>0, <1>1, NodeFirst, ChildrenLinked DEF TypeOK
<1>3. PICK T2 : T2 = IF keys[m] = EmptyBag THEN T ELSE Append(T, g0)
  OBVIOUS
<1>4. told'[t] = T2
  BY <1>1, <1>3 DEF Report, TypeOK
<1>5. Nested(t) /\ Tells(t)
  BY <1>0 DEF Walks
<1>6. Nested(t)'
  BY <1>0, <1>1, <1>5, WalkTree DEF Nested, LeftSpan
<1>7. PICK A, R : A = Above(t) /\ R = RightSpan(m)
  OBVIOUS
<1>8. Below(t) = {g0} \cup R /\ Below(t)' = R /\ Above(t)' = A
  BY <1>0, <1>1, <1>7 DEF Below, Above, RightSpan
<1>9. /\ \A i, j \in DOMAIN T : i < j => T[i] < T[j]
      /\ \A g \in Range(T) : (\A x \in {g0} \cup R \cup A : g < x) /\ \E k \in Keys : <<g, k>> \in ever[t]
      /\ \A p \in steady[t] : p[1] \in Range(T) \cup {g0} \cup R \cup A
  <2>1. Below(t) \cup Above(t) = {g0} \cup R \cup A
    BY <1>7, <1>8
  <2> QED BY <1>1, <1>5, <2>1 DEF Tells
<1>10. /\ \A i, j \in DOMAIN T2 : i < j => T2[i] < T2[j]
       /\ \A g \in Range(T2) : (\A x \in R \cup A : g < x) /\ \E k \in Keys : <<g, k>> \in ever[t]
       /\ \A p \in steady[t] : p[1] \in Range(T2) \cup R \cup A
  <2>1. CASE keys[m] = EmptyBag
    <3>1. T2 = T
      BY <1>3, <2>1
    <3>2. \A k \in Keys : keys[m][k] = 0
      BY <2>1 DEF EmptyBag
    <3>3. ASSUME NEW p \in steady[t], p[1] = g0 PROVE FALSE
      <4>1. p[1] \in span[m]
        BY <1>1, <1>2, <3>3 DEF TreeInv
      <4>2. \E k \in Keys : keys[m][k] > 0
        BY <1>1, <1>2, <3>3, <4>1, SteadyNode
      <4> QED BY <3>2, <4>2
    <3> QED BY <1>9, <3>1, <3>3
  <2>2. CASE keys[m] # EmptyBag
    <3>1. T2 = Append(T, g0)
      BY <1>3, <2>2
    <3>2. /\ DOMAIN T2 = 1 .. Len(T) + 1 /\ DOMAIN T = 1 .. Len(T) /\ Len(T) \in Nat
          /\ T2[Len(T) + 1] = g0 /\ \A i \in DOMAIN T : T2[i] = T[i]
      BY <1>2, <3>1
    <3>3. Range(T2) = Range(T) \cup {g0}
      BY <3>2 DEF Range
    <3>4. \A i \in DOMAIN T : T[i] < g0
      BY <1>9 DEF Range
    <3>5. ASSUME NEW i \in DOMAIN T2, NEW j \in DOMAIN T2, i < j PROVE T2[i] < T2[j]
      <4>1. i \in DOMAIN T
        BY <3>2, <3>5
      <4>2. CASE j = Len(T) + 1
        BY <3>2, <3>4, <4>1, <4>2
      <4>3. CASE j # Len(T) + 1
        <5>1. j \in DOMAIN T
          BY <3>2, <4>3
        <5> QED BY <1>9, <3>2, <3>5, <4>1, <5>1
      <4> QED BY <4>2, <4>3
    <3>6. \E k \in Keys : <<g0, k>> \in ever[t]
      <4>1. keys[m] \in [Keys -> Nat]
        BY <1>2 DEF TypeOK, Bags
      <4>2. PICK k \in Keys : keys[m][k] # 0
        BY <2>2, <4>1 DEF EmptyBag
      <4>3. keys[m][k] > 0 /\ Concerns(t, g0)
        BY <1>0, <4>1, <4>2 DEF Concerns
      <4> QED BY <1>1, <1>2, <4>3 DEF Remembers
    <3>7. \A x \in R \cup A : g0 < x
      BY <1>2, <1>7
    <3> QED BY <1>9, <3>3, <3>5, <3>6, <3>7
  <2> QED BY <2>1, <2>2
<1>11. Tells(t)'
  <2>1. (Below(t) \cup Above(t))' = R \cup A
    BY <1>8
  <2>2. Range(told[t])' = Range(T2)
    BY <1>4
  <2> QED BY <1>0, <1>4, <1>10, <2>1, <2>2 DEF Tells
<1> QED BY <1>0, <1>6, <1>11 DEF Walks

LEMMA RightWalks ==
  ASSUME TypeOK, TreeInv, SearchInv, NEW t \in Threads, Remembers(t), Walks(t), GoRight(t)
  PROVE  Walks(t)'
<1>0. /\ op[t] = "walk" /\ op'[t] = "walk" /\ pc[t] = "report" /\ pc'[t] = "push"
      /\ UNCHANGED tree /\ UNCHANGED <<tag, span>> /\ Ages(t)
      /\ stack'[t] = stack[t] /\ told'[t] = told[t]
  BY DEF GoRight, At, Goto, TypeOK, fields, call, walk, history, tree, SearchInv, Placed, Ages
<1>1. PICK S, m, r : S = stack[t] /\ m = node[t] /\ r = right[m]
  OBVIOUS
<1>2. /\ m \in Linked /\ m # NULL /\ node'[t] = r /\ stack'[t] = S /\ \A i \in DOMAIN S : S[i] \in Linked
      /\ r # NULL => span[r] = RightSpan(m)
  <2>1. m \in Linked /\ m # NULL
    BY <1>0, <1>1, Places, TagAssumption
  <2> QED BY <1>0, <1>1, <2>1 DEF GoRight, TypeOK, TreeInv, SearchInv, Placed
<1>3. Nested(t) /\ Tells(t)
  BY <1>0 DEF Walks
<1>4. RightSpan(m) \subseteq span[m] /\ \A n : LeftSpan(n)' = LeftSpan(n) /\ RightSpan(n)' = RightSpan(n)
  BY <1>0, <1>2, WalkTree
<1>5. Nested(t)'
  <2>1. ASSUME NEW i \in DOMAIN S, NEW j \in DOMAIN S, i < j PROVE span'[S[i]] \subseteq LeftSpan(S[j])'
    BY <1>0, <1>1, <1>3, <1>4, <2>1 DEF Nested
  <2>2. ASSUME r # NULL, NEW i \in DOMAIN S PROVE span'[r] \subseteq LeftSpan(S[i])'
    <3>1. span[m] \subseteq LeftSpan(S[i])
      BY <1>1, <1>2, <1>3 DEF Nested
    <3> QED BY <1>0, <1>2, <1>4, <2>2, <3>1
  <2> QED BY <1>2, <2>1, <2>2 DEF Nested, LeftSpan
<1>6. PICK A, R, L : A = Above(t) /\ R = RightSpan(m) /\ L = IF r = NULL THEN {} ELSE R
  OBVIOUS
<1>7. Below(t) = R /\ Below(t)' = L /\ Above(t)' = A
  <2>1. Below(t) = R
    BY <1>0, <1>1, <1>6 DEF Below
  <2>2. Below(t)' = L
    BY <1>0, <1>2, <1>6 DEF Below
  <2>3. Above(t)' = A
    BY <1>0, <1>6 DEF Above, RightSpan
  <2> QED BY <2>1, <2>2, <2>3
<1>8. ASSUME NEW p \in steady[t], p[1] \in R PROVE p[1] \in L
  <2>1. p[1] \in span[m] /\ p[1] > tag[m]
    BY <1>4, <1>6, <1>8 DEF RightSpan
  <2>2. right[m] # NULL
    BY <1>2, <2>1, SteadyNode
  <2> QED BY <1>1, <1>6, <1>8, <2>2
<1>9. Tells(t)'
  <2>1. PICK B, C : B = Below(t) \cup Above(t) /\ C = (Below(t) \cup Above(t))'
    OBVIOUS
  <2>2. B = R \cup A /\ C = L \cup A
    BY <1>6, <1>7, <2>1
  <2>3. C \subseteq B /\ \A p \in steady[t] : p[1] \in B => p[1] \in C
    BY <1>6, <1>8, <2>2
  <2> QED BY <1>0, <1>3, <2>1, <2>3, NothingTold
<1> QED BY <1>0, <1>5, <1>9 DEF Walks
LEMMA OwnWalk ==
  ASSUME TypeOK, TreeInv, SearchInv, ListInv, LinkedKept, NEW t \in Threads, Moves(t), Remembers(t), Walks(t)
  PROVE  Walks(t)'
<1> USE DEF At
<1>0. Placed(t) /\ (op[t] = "walk" => pc[t] \in {"push", "lock", "locked", "report", "return"})
  BY DEF SearchInv, Walks
<1>1. CASE Begin(t)
  <2>0. pc[t] = "idle" /\ stack[t] = <<>> /\ told[t] = <<>>
    BY <1>1 DEF Begin, KeyCall, MatchCall, WalkCall, Call, Walks
  <2>1. ASSUME NEW f \in {"add", "remove", "any", "all"}, NEW gs, NEW k, NEW l \in {"descend", "return"}, Call(t, f, gs, k, l)
        PROVE  Walks(t)'
    <3>1. op'[t] = f /\ pc'[t] = l
      BY <2>1 DEF Call, Goto, TypeOK
    <3> QED BY <3>1 DEF Walks
  <2>2. CASE WalkCall(t)
    <3>1. /\ op'[t] = "walk" /\ pc'[t] = "push" /\ node'[t] = root /\ stack'[t] = <<>> /\ told'[t] = <<>>
          /\ steady'[t] = Listed("walk", <<>>) /\ span' = span
      BY <2>0, <2>2 DEF WalkCall, Call, Goto, TypeOK, walk
    <3>2. root # NULL /\ span'[root] = Tags
      BY <3>1, TagAssumption DEF TreeInv
    <3>3. Below(t)' = Tags
      BY <3>1, <3>2 DEF Below
    <3>4. \A p \in steady'[t] : p[1] \in Tags
      BY <3>1 DEF Listed
    <3>5. Nested(t)'
      BY <3>1 DEF Nested
    <3>6. Range(told[t])' = {}
      BY <3>1 DEF Range
    <3>7. Tells(t)'
      BY <3>1, <3>3, <3>4, <3>6 DEF Tells
    <3> QED BY <3>1, <3>5, <3>7 DEF Walks
  <2> QED BY <1>1, <2>1, <2>2 DEF Begin, KeyCall, MatchCall
<1>2. CASE RemoveMisses(t) \/ UnlockKeys(t) \/ Return(t)
  <2>1. pc'[t] = "idle" /\ op'[t] = "add" /\ stack'[t] = <<>> /\ told'[t] = <<>>
    BY <1>2 DEF RemoveMisses, UnlockKeys, Return, Leave, Goto, TypeOK
  <2> QED BY <2>1 DEF Walks
<1>3. CASE MatchMisses(t) \/ UnlockAndMerge(t)
  <2>1. op'[t] = op[t] /\ op[t] \in {"any", "all"} /\ pc'[t] \in {"descend", "return"}
    BY <1>3 DEF MatchMisses, UnlockAndMerge, Merge, Goto, Matching, TypeOK
  <2> QED BY <2>1 DEF Walks
<1>4. CASE \/ Reach(t) \/ Descend(t) \/ CasWins(t) \/ CasLoses(t) \/ CreateFails(t) \/ (\E n \in Nodes : Create(t, n))
           \/ Search(t) \/ Link(t) \/ Unlink(t) \/ Count(t) \/ CopyKeys(t) \/ CopyFails(t)
  <2>1. op' = op /\ op[t] # "walk"
    BY <1>0, <1>4 DEF Reach, Descend, CasWins, CasLoses, CreateFails, Create, AtLeaf, Search, Link, Unlink,
                      Count, CopyKeys, CopyFails, call, Matching
  <2>2. pc'[t] # "idle"
    <3>1. pc[t] # "idle"
      BY <1>4 DEF Reach, Descend, CasWins, CasLoses, CreateFails, Create, AtLeaf, Search, Link, Unlink,
                  Count, CopyKeys, CopyFails
    <3>2. pc'[t] = pc[t] \/ \E l \in Labels \ {"idle"} : Goto(t, l)
      BY <1>4 DEF Reach, Descend, CasWins, CasLoses, CreateFails, Create, Search, Link, Unlink,
                  Count, CopyKeys, CopyFails, Labels
    <3> QED BY <3>1, <3>2 DEF Goto, TypeOK
  <2> QED BY <2>1, <2>2 DEF Walks
<1>5. CASE LockKeys(t) \/ PushFails(t)
  <2>1. /\ Ages(t) /\ UNCHANGED <<stack, told, node>>
        /\ pc'[t] = pc[t] \/ (pc[t] = "lock" /\ pc'[t] = "locked")
    BY <1>5 DEF LockKeys, PushFails, call, walk, history, Goto, TypeOK, Ages
  <2> QED BY <2>1, WalkStays
<1>6. CASE PushLeft(t)
  BY <1>6, PushWalks
<1>7. CASE Pop(t)
  BY <1>7, PopWalks
<1>8. CASE Report(t)
  BY <1>8, ReportWalks
<1>9. CASE GoRight(t)
  BY <1>9, RightWalks
<1>10. CASE WalkEnds(t)
  <2>1. /\ op[t] = "walk" /\ op'[t] = "walk" /\ pc[t] = "push" /\ pc'[t] = "return"
        /\ node[t] = NULL /\ node'[t] = NULL /\ stack[t] = <<>> /\ stack'[t] = <<>>
        /\ told'[t] = told[t] /\ Ages(t)
    BY <1>0, <1>10 DEF WalkEnds, Placed, Goto, TypeOK, call, walk, history, Ages
  <2>2. Below(t) = {} /\ Above(t) = {} /\ Below(t)' = {} /\ Above(t)' = {}
    BY <2>1 DEF Below, Above
  <2>3. Tells(t)
    BY <2>1 DEF Walks
  <2>4. Tells(t)'
    BY <2>1, <2>2, <2>3, NothingTold
  <2>5. Nested(t)'
    BY <2>1 DEF Nested
  <2> QED BY <2>1, <2>4, <2>5 DEF Walks
<1> QED BY <1>1, <1>2, <1>3, <1>4, <1>5, <1>6, <1>7, <1>8, <1>9, <1>10 DEF Moves, Free

LEMMA WalkStep == IInv /\ MatchInv /\ WalkInv /\ [Next]_vars => WalkInv'
<1> SUFFICES ASSUME IInv, MatchInv, WalkInv, [Next]_vars PROVE WalkInv'
  OBVIOUS
<1> USE DEF IInv
<1>1. ASSUME NEW t \in Threads, Moves(t), NEW u \in Threads PROVE Walks(u)'
  <2>1. LinkedKept
    BY TreeStep
  <2>2. CASE u = t
    BY <1>1, <2>1, <2>2, OwnWalk DEF MatchInv, WalkInv
  <2>3. CASE u # t
    BY <1>1, <2>1, <2>3, OthersWalk DEF WalkInv
  <2> QED BY <2>2, <2>3
<1>2. CASE UNCHANGED vars
  <2>1. LinkedKept
    BY TreeStep
  <2>2. ASSUME NEW t \in Threads PROVE Walks(t)'
    <3>1. Ages(t) /\ UNCHANGED <<stack, told, node, pc>>
      BY <1>2 DEF vars, Ages
    <3> QED BY <2>1, <3>1, WalkStays DEF WalkInv
  <2> QED BY <2>2 DEF WalkInv
<1> QED BY <1>1, <1>2 DEF Next, Moves, WalkInv

(* walk_all_tags goes through a tree that other threads extend under it;   *)
(* it reports in ascending order, misses no tag that had a key the whole   *)
(* time and reports none that never had one during the walk.               *)
THEOREM CompleteWalks == Spec => []WalkIsComplete
<1>1. Init => MatchInv
  BY InitMatch
<1>2. Init => WalkInv
  <2> SUFFICES ASSUME Init, NEW t \in Threads PROVE Walks(t)
    BY DEF WalkInv
  <2>1. op[t] = "add" /\ stack[t] = <<>> /\ told[t] = <<>>
    BY DEF Init
  <2> QED BY <2>1 DEF Walks
<1>3. IInv /\ MatchInv /\ WalkInv => WalkIsComplete
  <2> SUFFICES ASSUME WalkInv, NEW t \in Threads, op[t] = "walk"
               PROVE  /\ \A i, j \in DOMAIN told[t] : i < j => told[t][i] < told[t][j]
                      /\ \A g \in Range(told[t]) : \E k \in Keys : <<g, k>> \in ever[t]
                      /\ pc[t] = "return" => \A p \in steady[t] : p[1] \in Range(told[t])
    BY DEF WalkIsComplete, At
  <2>1. Tells(t) /\ (pc[t] = "return" => stack[t] = <<>>)
    BY DEF WalkInv, Walks
  <2>2. pc[t] = "return" => Below(t) = {} /\ Above(t) = {}
    BY <2>1 DEF Below, Above
  <2> QED BY <2>1, <2>2 DEF Tells
<1> QED BY <1>1, <1>2, <1>3, MatchStep, WalkStep, Invariance, PTL DEF Spec
=============================================================================
