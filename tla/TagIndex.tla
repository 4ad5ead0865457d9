------------------------------ MODULE TagIndex ------------------------------
(***************************************************************************)
(* The tag index of src/src/tag.c: a binary search tree of tags that grows *)
(* by compare-and-swap, with a list of keys in each node that is protected *)
(* by the node's keys_lock.  One shared access per step; what a thread     *)
(* does to memory of its own goes with the step before it.                 *)
(*                                                                         *)
(* Tags are integers, ordered as compare_tags orders them.  A list of keys *)
(* is a bag: how many of its elements hold each key.  Its order decides    *)
(* nothing but the order of a response.                                    *)
(***************************************************************************)
EXTENDS Integers, Sequences, FiniteSets, Functions

CONSTANTS
  Threads,    \* the threads that use the index
  Tags,       \* the tags
  RootTag,    \* the tag "ROOT" of the node that is always there
  Keys,       \* the keys
  Nodes,      \* the blocks of memory that nodes are reserved from
  root,       \* the static node
  TagLists,   \* the lists of tags that requests name
  Calls,      \* the functions that are called
  MayFail,    \* whether reserve_memory may return NULL
  NULL

ASSUME TagAssumption ==
  /\ Tags \subseteq Int /\ RootTag \in Tags
  /\ IsFiniteSet(Keys)
  /\ root \in Nodes
  /\ TagLists \subseteq Seq(Tags)
  /\ Calls \subseteq {"add", "remove", "any", "all", "walk"}
  /\ MayFail \in BOOLEAN
  /\ NULL \notin Threads \cup Tags \cup Keys \cup Nodes

VARIABLES
  tag,        \* tag[n] ... num_keys[n]: the fields of node n; keys_lock[n]
  keys,       \* is the thread that set the flag, or NULL
  keys_lock,
  num_keys,
  left,
  right,
  reserved,   \* the nodes not given back to the allocator
  crashed,    \* NULL was written through: the process is gone
  pc,         \* what each thread does next
  op,         \* the function it is in
  want,       \* the tags it looks for
  pos,        \* which of them it is at
  key,        \* the key to add or remove
  node,       \* parent, current: the node it is at
  new,        \* the node it is about to link
  copied,     \* the copy of a list
  found,      \* found_keys
  stack,      \* the stack of walk_all_tags
  told,       \* the tags its callback was called with
  span,       \* history: the tags that belong at or below each node
  steady,     \* history: <<tag, key>> listed ever since the call began
  ever,       \* history: <<tag, key>> listed at some time during the call
  starved     \* history: reserve_memory has failed during the call

fields == <<tag, keys, keys_lock, num_keys, left, right>>
tree == <<tag, left, right, reserved, span>>
lists == <<keys, num_keys>>
call == <<op, want, pos, key>>
match == <<copied, found>>
walk == <<stack, told>>
history == <<steady, ever, starved>>
vars == <<tag, keys, keys_lock, num_keys, left, right, reserved, crashed, pc,
          op, want, pos, key, node, new, copied, found, stack, told, span,
          steady, ever, starved>>

Bags == [Keys -> Nat]
EmptyBag == [k \in Keys |-> 0]
Ops == {"add", "remove", "any", "all", "walk"}
Labels == {"idle", "descend", "cas", "lock", "locked", "link", "unlink",
           "count", "uncount", "unlock", "push", "report", "return"}

TypeOK ==
  /\ tag \in [Nodes -> Tags \cup {NULL}]
  /\ keys \in [Nodes -> Bags]
  /\ keys_lock \in [Nodes -> Threads \cup {NULL}]
  /\ num_keys \in [Nodes -> Int]
  /\ left \in [Nodes -> Nodes \cup {NULL}]
  /\ right \in [Nodes -> Nodes \cup {NULL}]
  /\ reserved \subseteq Nodes
  /\ crashed \in BOOLEAN
  /\ pc \in [Threads -> Labels]
  /\ op \in [Threads -> Ops]
  /\ want \in [Threads -> Seq(Tags)]
  /\ pos \in [Threads -> Nat \ {0}]
  /\ key \in [Threads -> Keys \cup {NULL}]
  /\ node \in [Threads -> Nodes \cup {NULL}]
  /\ new \in [Threads -> Nodes \cup {NULL}]
  /\ copied \in [Threads -> Bags]
  /\ found \in [Threads -> Bags]
  /\ stack \in [Threads -> Seq(Nodes)]
  /\ told \in [Threads -> Seq(Tags)]
  /\ span \in [Nodes -> SUBSET Tags]
  /\ steady \in [Threads -> SUBSET (Tags \X Keys)]
  /\ ever \in [Threads -> SUBSET (Tags \X Keys)]
  /\ starved \in [Threads -> BOOLEAN]

(***************************************************************************)
(* Shared vocabulary.                                                      *)
(***************************************************************************)

Goto(t, label) == pc' = [pc EXCEPT ![t] = label]
At(t, label) == pc[t] = label
Matching(t) == op[t] \in {"any", "all"}

Linked == {root} \cup {n \in Nodes : \E p \in reserved : n \in {left[p], right[p]}}

(* The tag looked for; the child on its side, by compare_tags. *)
Wanted(t) == want[t][pos[t]]
(* Defect: left and right are swapped on the way down. *)
ChildMirrored(t) == IF Wanted(t) < tag[node[t]] THEN right[node[t]] ELSE left[node[t]]

Child(t) == IF Wanted(t) < tag[node[t]] THEN left[node[t]] ELSE right[node[t]]

(* The tags that belong on either side of n. *)
LeftSpan(n) == {x \in span[n] : x < tag[n]}
RightSpan(n) == {x \in span[n] : x > tag[n]}

(* What is listed of the tags a call of f looks at, for the histories. *)
Listed(f, gs) ==
  IF f \in {"add", "remove"} THEN {}
  ELSE {p \in (IF f = "walk" THEN Tags ELSE Range(gs)) \X Keys :
          \E n \in Linked : tag[n] = p[1] /\ keys[n][p[2]] > 0}

(* The call is over and its local variables are gone. *)
Leave(t) ==
  /\ Goto(t, "idle")
  /\ op' = [op EXCEPT ![t] = "add"]
  /\ want' = [want EXCEPT ![t] = <<>>]
  /\ pos' = [pos EXCEPT ![t] = 1]
  /\ key' = [key EXCEPT ![t] = NULL]
  /\ node' = [node EXCEPT ![t] = NULL]
  /\ new' = [new EXCEPT ![t] = NULL]
  /\ copied' = [copied EXCEPT ![t] = EmptyBag]
  /\ found' = [found EXCEPT ![t] = EmptyBag]
  /\ stack' = [stack EXCEPT ![t] = <<>>]
  /\ told' = [told EXCEPT ![t] = <<>>]
  /\ steady' = [steady EXCEPT ![t] = {}]
  /\ ever' = [ever EXCEPT ![t] = {}]
  /\ starved' = [starved EXCEPT ![t] = FALSE]

Concerns(u, g) == \/ op[u] = "walk"
                  \/ Matching(u) /\ g \in Range(want[u])
Appears(g, k) ==
  /\ ever' = [u \in Threads |-> IF Concerns(u, g) THEN ever[u] \cup {<<g, k>>} ELSE ever[u]]
  /\ UNCHANGED <<steady, starved>>
Disappears(g, k) ==
  /\ steady' = [u \in Threads |-> steady[u] \ {<<g, k>>}]
  /\ UNCHANGED <<ever, starved>>

(***************************************************************************)
(* The calls.                                                              *)
(***************************************************************************)

Call(t, f, gs, k, label) ==
  /\ At(t, "idle")
  /\ f \in Calls
  /\ op' = [op EXCEPT ![t] = f]
  /\ want' = [want EXCEPT ![t] = gs]
  /\ key' = [key EXCEPT ![t] = k]
  /\ node' = [node EXCEPT ![t] = root]
  /\ steady' = [steady EXCEPT ![t] = Listed(f, gs)]
  /\ ever' = [ever EXCEPT ![t] = Listed(f, gs)]
  /\ Goto(t, label)
  /\ UNCHANGED <<fields, reserved, crashed, pos, new, match, walk, span, starved>>

(* add_key_to_tag, remove_key_from_tag *)
KeyCall(t, f, g, k) == f \in {"add", "remove"} /\ Call(t, f, <<g>>, k, "descend")

(* get_keys_matching_any_tag, get_keys_matching_all_tags *)
MatchCall(t, f, gs) ==
  f \in {"any", "all"} /\ Call(t, f, gs, NULL, IF gs = <<>> THEN "return" ELSE "descend")

(* walk_all_tags *)
WalkCall(t) == Call(t, "walk", <<>>, NULL, "push")

(***************************************************************************)
(* get_or_create_node, get_tag_if_exists                                   *)
(***************************************************************************)

Reach(t) ==
  /\ At(t, "descend")
  /\ tag[node[t]] = Wanted(t)
  /\ Goto(t, "lock")
  /\ UNCHANGED <<fields, reserved, crashed, call, node, new, match, walk, span, history>>

Descend(t) ==
  /\ At(t, "descend")
  /\ tag[node[t]] # Wanted(t)
  /\ Child(t) # NULL
  /\ node' = [node EXCEPT ![t] = Child(t)]
  /\ UNCHANGED <<fields, reserved, crashed, pc, call, new, match, walk, span, history>>

AtLeaf(t) == At(t, "descend") /\ tag[node[t]] # Wanted(t) /\ Child(t) = NULL

(* create_tag_node *)
Create(t, n) ==
  /\ AtLeaf(t) /\ op[t] = "add"
  /\ n \notin reserved
  /\ reserved' = reserved \cup {n}
  /\ tag' = [tag EXCEPT ![n] = Wanted(t)]
  /\ keys' = [keys EXCEPT ![n] = EmptyBag]
  /\ keys_lock' = [keys_lock EXCEPT ![n] = NULL]
  /\ num_keys' = [num_keys EXCEPT ![n] = 0]
  /\ left' = [left EXCEPT ![n] = NULL]
  /\ right' = [right EXCEPT ![n] = NULL]
  /\ new' = [new EXCEPT ![t] = n]
  /\ Goto(t, "cas")
  /\ UNCHANGED <<crashed, call, node, match, walk, span, history>>

(* *node = (TagNode) {} with node == NULL *)
CreateFails(t) ==
  /\ MayFail
  /\ AtLeaf(t) /\ op[t] = "add"
  /\ crashed' = TRUE
  /\ UNCHANGED <<fields, reserved, pc, call, node, new, match, walk, span, history>>

(* Defect: the child is stored, not compared and swapped. *)
CasStores(t) ==
  /\ At(t, "cas")
  /\ IF Wanted(t) < tag[node[t]]
     THEN left' = [left EXCEPT ![node[t]] = new[t]] /\ UNCHANGED right
     ELSE right' = [right EXCEPT ![node[t]] = new[t]] /\ UNCHANGED left
  /\ span' = [span EXCEPT ![new[t]] =
                IF Wanted(t) < tag[node[t]] THEN LeftSpan(node[t]) ELSE RightSpan(node[t])]
  /\ node' = [node EXCEPT ![t] = new[t]]
  /\ new' = [new EXCEPT ![t] = NULL]
  /\ Goto(t, "descend")
  /\ UNCHANGED <<tag, lists, keys_lock, reserved, crashed, call, match, walk, history>>

CasWins(t) ==
  /\ At(t, "cas")
  /\ Child(t) = NULL
  /\ IF Wanted(t) < tag[node[t]]
     THEN left' = [left EXCEPT ![node[t]] = new[t]] /\ UNCHANGED right
     ELSE right' = [right EXCEPT ![node[t]] = new[t]] /\ UNCHANGED left
  /\ span' = [span EXCEPT ![new[t]] =
                IF Wanted(t) < tag[node[t]] THEN LeftSpan(node[t]) ELSE RightSpan(node[t])]
  /\ node' = [node EXCEPT ![t] = new[t]]
  /\ new' = [new EXCEPT ![t] = NULL]
  /\ Goto(t, "descend")
  /\ UNCHANGED <<tag, lists, keys_lock, reserved, crashed, call, match, walk, history>>

(* Defect: the loser gives its node back and makes another one. *)
CasLosesRetries(t) ==
  /\ At(t, "cas")
  /\ Child(t) # NULL
  /\ reserved' = reserved \ {new[t]}
  /\ tag' = [tag EXCEPT ![new[t]] = NULL]
  /\ new' = [new EXCEPT ![t] = NULL]
  /\ Goto(t, "descend")
  /\ UNCHANGED <<left, right, lists, keys_lock, crashed, call, node, match, walk, span, history>>

(* The loser gives its node back and goes on below the winner's. *)
CasLoses(t) ==
  /\ At(t, "cas")
  /\ Child(t) # NULL
  /\ reserved' = reserved \ {new[t]}
  /\ tag' = [tag EXCEPT ![new[t]] = NULL]
  /\ node' = [node EXCEPT ![t] = Child(t)]
  /\ new' = [new EXCEPT ![t] = NULL]
  /\ Goto(t, "descend")
  /\ UNCHANGED <<left, right, lists, keys_lock, crashed, call, match, walk, span, history>>

(* remove_key_from_tag finds no node. *)
RemoveMisses(t) ==
  /\ AtLeaf(t) /\ op[t] = "remove"
  /\ Leave(t)
  /\ UNCHANGED <<fields, reserved, crashed, span>>

(***************************************************************************)
(* The key list of a node.                                                 *)
(***************************************************************************)

(* Defect: nobody waits for keys_lock. *)
LockKeysAnyway(t) ==
  /\ At(t, "lock")
  /\ keys_lock' = [keys_lock EXCEPT ![node[t]] = t]
  /\ Goto(t, "locked")
  /\ UNCHANGED <<tag, left, right, lists, reserved, crashed, call, node, new, match, walk, span, history>>

(* LOCK_KEYS_AND_LOG_SPIN: spins while the flag is set. *)
LockKeys(t) ==
  /\ At(t, "lock")
  /\ keys_lock[node[t]] = NULL
  /\ keys_lock' = [keys_lock EXCEPT ![node[t]] = t]
  /\ Goto(t, "locked")
  /\ UNCHANGED <<tag, left, right, lists, reserved, crashed, call, node, new, match, walk, span, history>>

Unlock(t) == keys_lock' = [keys_lock EXCEPT ![node[t]] = NULL]

(* insert_if_unique, remove_key_from_tag: the search of the list, and      *)
(* create_key_elem, which may fail.                                        *)
Search(t) ==
  /\ At(t, "locked") /\ op[t] \in {"add", "remove"}
  /\ IF op[t] = "add"
     THEN IF keys[node[t]][key[t]] > 0
          THEN Goto(t, "unlock")
          ELSE \/ Goto(t, "link")
               \/ MayFail /\ Goto(t, "unlock")
     ELSE Goto(t, IF keys[node[t]][key[t]] > 0 THEN "unlink" ELSE "unlock")
  /\ UNCHANGED <<fields, reserved, crashed, call, node, new, match, walk, span, history>>

(* elem->next = *list; *list = elem *)
Link(t) ==
  /\ At(t, "link")
  /\ keys' = [keys EXCEPT ![node[t]][key[t]] = @ + 1]
  /\ Appears(tag[node[t]], key[t])
  /\ Goto(t, "count")
  /\ UNCHANGED <<tree, num_keys, keys_lock, crashed, call, node, new, match, walk>>

(* *elem = found->next; release_memory (found) *)
Unlink(t) ==
  /\ At(t, "unlink")
  /\ keys' = [keys EXCEPT ![node[t]][key[t]] = @ - 1]
  /\ IF keys[node[t]][key[t]] = 1 THEN Disappears(tag[node[t]], key[t])
                                  ELSE UNCHANGED history
  /\ Goto(t, "uncount")
  /\ UNCHANGED <<tree, num_keys, keys_lock, crashed, call, node, new, match, walk>>

Count(t) ==
  /\ At(t, "count") \/ At(t, "uncount")
  /\ num_keys' = [num_keys EXCEPT ![node[t]] = IF At(t, "count") THEN @ + 1 ELSE @ - 1]
  /\ Goto(t, "unlock")
  /\ UNCHANGED <<tree, keys, keys_lock, crashed, call, node, new, match, walk, history>>

UnlockKeys(t) ==
  /\ At(t, "unlock") /\ ~Matching(t)
  /\ Unlock(t)
  /\ Leave(t)
  /\ UNCHANGED <<tree, lists, crashed>>

(***************************************************************************)
(* get_keys_matching_any_tag, get_keys_matching_all_tags                   *)
(***************************************************************************)

(* copy_key_list *)
CopyKeys(t) ==
  /\ At(t, "locked") /\ Matching(t)
  /\ copied' = [copied EXCEPT ![t] = keys[node[t]]]
  /\ Goto(t, "unlock")
  /\ UNCHANGED <<fields, reserved, crashed, call, node, new, found, walk, span, history>>

(* Without memory for the last element the copy ends early; without it for *)
(* one before, the next element is written through NULL.                  *)
CopyFails(t) ==
  /\ MayFail
  /\ At(t, "locked") /\ Matching(t)
  /\ \E k \in Keys :
       LET rest == [keys[node[t]] EXCEPT ![k] = @ - 1]
       IN /\ keys[node[t]][k] > 0
          /\ \/ /\ copied' = [copied EXCEPT ![t] = rest]
                /\ starved' = [starved EXCEPT ![t] = TRUE]
                /\ Goto(t, "unlock")
                /\ UNCHANGED crashed
             \/ /\ rest # EmptyBag
                /\ crashed' = TRUE
                /\ UNCHANGED <<copied, starved, pc>>
  /\ UNCHANGED <<fields, reserved, call, node, new, found, walk, span, steady, ever>>

(* Defect: a tag without a node is passed over. *)
MergedSkipping(t, list, lost) ==
  IF pos[t] = 1 THEN list
  ELSE IF op[t] = "any" THEN [k \in Keys |-> IF found[t][k] = 0 /\ list[k] > 0 THEN 1 ELSE found[t][k]]
  ELSE IF list = EmptyBag THEN found[t]
  ELSE [k \in Keys |-> IF list[k] > 0 THEN found[t][k] ELSE 0]

(* The first list is taken as it is; then insert_if_unique adds what is    *)
(* missing, unless it fails, or what the list lacks is removed.            *)
Merged(t, list, lost) ==
  IF pos[t] = 1 THEN list
  ELSE IF op[t] = "any"
  THEN [k \in Keys |-> IF found[t][k] = 0 /\ list[k] > 0 /\ k \notin lost THEN 1 ELSE found[t][k]]
  ELSE [k \in Keys |-> IF list[k] > 0 THEN found[t][k] ELSE 0]

Merge(t, list) ==
  \E lost \in IF MayFail /\ op[t] = "any" /\ pos[t] > 1 THEN SUBSET Keys ELSE {{}} :
    /\ \A k \in lost : found[t][k] = 0 /\ list[k] > 0
    /\ found' = [found EXCEPT ![t] = Merged(t, list, lost)]
    /\ starved' = [starved EXCEPT ![t] = @ \/ lost # {}]
    /\ copied' = [copied EXCEPT ![t] = EmptyBag]
    /\ IF pos[t] < Len(want[t])
       THEN /\ pos' = [pos EXCEPT ![t] = @ + 1]
            /\ node' = [node EXCEPT ![t] = root]
            /\ Goto(t, "descend")
       ELSE /\ node' = [node EXCEPT ![t] = NULL]
            /\ Goto(t, "return")
            /\ UNCHANGED pos
    /\ UNCHANGED <<crashed, op, want, key, new, walk, steady, ever>>

UnlockAndMerge(t) ==
  /\ At(t, "unlock") /\ Matching(t)
  /\ Unlock(t)
  /\ Merge(t, copied[t])
  /\ UNCHANGED <<tree, lists>>

MatchMisses(t) ==
  /\ AtLeaf(t) /\ Matching(t)
  /\ Merge(t, EmptyBag)
  /\ UNCHANGED <<fields, reserved, span>>

(***************************************************************************)
(* walk_all_tags                                                           *)
(***************************************************************************)

(* while (current != NULL): push it and go left. *)
PushLeft(t) ==
  /\ At(t, "push") /\ node[t] # NULL
  /\ stack' = [stack EXCEPT ![t] = <<node[t]>> \o @]
  /\ node' = [node EXCEPT ![t] = left[node[t]]]
  /\ UNCHANGED <<fields, reserved, crashed, pc, call, new, match, told, span, history>>

(* tmp->node = current with tmp == NULL *)
PushFails(t) ==
  /\ MayFail
  /\ At(t, "push") /\ node[t] # NULL
  /\ crashed' = TRUE
  /\ UNCHANGED <<fields, reserved, pc, call, node, new, match, walk, span, history>>

Pop(t) ==
  /\ At(t, "push") /\ node[t] = NULL /\ stack[t] # <<>>
  /\ node' = [node EXCEPT ![t] = Head(stack[t])]
  /\ stack' = [stack EXCEPT ![t] = Tail(@)]
  /\ Goto(t, "lock")
  /\ UNCHANGED <<fields, reserved, crashed, call, new, match, told, span, history>>

(* has_keys, UNLOCK_KEYS, the callback *)
Report(t) ==
  /\ At(t, "locked") /\ op[t] = "walk"
  /\ told' = [told EXCEPT ![t] = IF keys[node[t]] = EmptyBag THEN @ ELSE Append(@, tag[node[t]])]
  /\ Unlock(t)
  /\ Goto(t, "report")
  /\ UNCHANGED <<tree, lists, crashed, call, node, new, match, stack, history>>

(* Defect: the right subtree is visited only below a node with keys. *)
GoRightIfTold(t) ==
  /\ At(t, "report")
  /\ node' = [node EXCEPT ![t] = IF keys[node[t]] = EmptyBag THEN NULL ELSE right[node[t]]]
  /\ Goto(t, "push")
  /\ UNCHANGED <<fields, reserved, crashed, call, new, match, walk, span, history>>

GoRight(t) ==
  /\ At(t, "report")
  /\ node' = [node EXCEPT ![t] = right[node[t]]]
  /\ Goto(t, "push")
  /\ UNCHANGED <<fields, reserved, crashed, call, new, match, walk, span, history>>

WalkEnds(t) ==
  /\ At(t, "push") /\ node[t] = NULL /\ stack[t] = <<>>
  /\ Goto(t, "return")
  /\ UNCHANGED <<fields, reserved, crashed, call, node, new, match, walk, span, history>>

(* The caller has used the result; release_key_list. *)
Return(t) ==
  /\ At(t, "return")
  /\ Leave(t)
  /\ UNCHANGED <<fields, reserved, crashed, span>>

(***************************************************************************)
(* The specification.                                                      *)
(***************************************************************************)

(* static TagNode root *)
Init ==
  /\ tag = [n \in Nodes |-> IF n = root THEN RootTag ELSE NULL]
  /\ keys = [n \in Nodes |-> EmptyBag]
  /\ keys_lock = [n \in Nodes |-> NULL]
  /\ num_keys = [n \in Nodes |-> 0]
  /\ left = [n \in Nodes |-> NULL]
  /\ right = [n \in Nodes |-> NULL]
  /\ reserved = {root}
  /\ crashed = FALSE
  /\ pc = [t \in Threads |-> "idle"]
  /\ op = [t \in Threads |-> "add"]
  /\ want = [t \in Threads |-> <<>>]
  /\ pos = [t \in Threads |-> 1]
  /\ key = [t \in Threads |-> NULL]
  /\ node = [t \in Threads |-> NULL]
  /\ new = [t \in Threads |-> NULL]
  /\ copied = [t \in Threads |-> EmptyBag]
  /\ found = [t \in Threads |-> EmptyBag]
  /\ stack = [t \in Threads |-> <<>>]
  /\ told = [t \in Threads |-> <<>>]
  /\ span = [n \in Nodes |-> IF n = root THEN Tags ELSE {}]
  /\ steady = [t \in Threads |-> {}]
  /\ ever = [t \in Threads |-> {}]
  /\ starved = [t \in Threads |-> FALSE]

(* The steps that wait for nobody. *)
Free(t) ==
  \/ Reach(t) \/ Descend(t) \/ CreateFails(t) \/ CasWins(t) \/ CasLoses(t)
  \/ \E n \in Nodes : Create(t, n)
  \/ RemoveMisses(t) \/ MatchMisses(t)
  \/ Search(t) \/ Link(t) \/ Unlink(t) \/ Count(t) \/ UnlockKeys(t)
  \/ CopyKeys(t) \/ CopyFails(t) \/ UnlockAndMerge(t)
  \/ PushLeft(t) \/ PushFails(t) \/ Pop(t) \/ Report(t) \/ GoRight(t) \/ WalkEnds(t)
  \/ Return(t)

Begin(t) ==
  \/ \E f \in {"add", "remove"}, g \in Tags, k \in Keys : KeyCall(t, f, g, k)
  \/ \E f \in {"any", "all"}, gs \in TagLists : MatchCall(t, f, gs)
  \/ WalkCall(t)

Next == ~crashed /\ \E t \in Threads : Begin(t) \/ LockKeys(t) \/ Free(t)

Spec == Init /\ [][Next]_vars

(***************************************************************************)
(* Properties.                                                             *)
(***************************************************************************)

(* Two threads that miss the same tag at the same time end up with one     *)
(* node for it, and no search passes it by: each linked node is inside the *)
(* span of every node above it.                                            *)
OneNodePerTag ==
  /\ \A m, n \in Linked : tag[m] = tag[n] => m = n
  /\ \A n \in Linked :
       /\ tag[n] \in span[n]
       /\ left[n] # NULL => left[n] \in Linked /\ span[left[n]] = LeftSpan(n)
       /\ right[n] # NULL => right[n] \in Linked /\ span[right[n]] = RightSpan(n)

(* A search that ends without a node (get_tag_if_exists returns NULL, or   *)
(* get_or_create_node makes one) ends when there is none.                  *)
MissesAreReal ==
  [][\A t \in Threads :
       AtLeaf(t) /\ (pc'[t] # "descend" \/ pos'[t] # pos[t]) => \A n \in Linked : tag[n] # Wanted(t)]_vars

(* A linked node is never moved, unlinked or given back: threads keep      *)
(* pointers to nodes without any lock.                                     *)
TreeOnlyGrows ==
  [][\A n \in Linked :
       /\ n \in reserved' /\ tag'[n] = tag[n]
       /\ left[n] # NULL => left'[n] = left[n]
       /\ right[n] # NULL => right'[n] = right[n]]_vars

(* insert_if_unique: remove_key_from_tag assumes that there are no dupes.  *)
KeysUnique == \A n \in Linked, k \in Keys : keys[n][k] <= 1

(* num_keys is the length of the list whenever the list is unlocked. *)
CountsAgree ==
  \A n \in Linked : keys_lock[n] = NULL => num_keys[n] = Cardinality({k \in Keys : keys[n][k] > 0})

(* Whether t's call, for the tags gs, matches k, of which pairs tells.     *)
Matches(t, gs, pairs, k) ==
  IF op[t] = "any" THEN \E g \in gs : <<g, k>> \in pairs
                   ELSE gs # {} /\ \A g \in gs : <<g, k>> \in pairs

(* What was listed during the whole call is in list, and what is in list   *)
(* was listed at some time during it.                                      *)
Sound(t, gs, list) ==
  \A k \in Keys : /\ list[k] <= 1
                  /\ Matches(t, gs, steady[t], k) /\ ~starved[t] => list[k] = 1
                  /\ list[k] = 1 => Matches(t, gs, ever[t], k)

(* The lists are copied one after the other while others change them, yet  *)
(* what is returned is sound, under any or under all of the tags.          *)
MatchesAreSound ==
  \A t \in Threads : At(t, "return") /\ Matching(t) => Sound(t, Range(want[t]), found[t])

(* A walk of the growing tree reports tags in ascending order, all that    *)
(* had a key the whole time and none that had no key all the time.         *)
WalkIsComplete ==
  \A t \in Threads : op[t] = "walk" =>
    /\ \A i, j \in DOMAIN told[t] : i < j => told[t][i] < told[t][j]
    /\ \A g \in Range(told[t]) : \E k \in Keys : <<g, k>> \in ever[t]
    /\ At(t, "return") => \A p \in steady[t] : p[1] \in Range(told[t])

(* A step of t's search leaves the tag of its node behind. *)
Advances(t) ==
  /\ {pc[t], pc'[t]} \subseteq {"descend", "cas"} /\ pos'[t] = pos[t]
  /\ <<pc'[t], node'[t]>> # <<pc[t], node[t]>>
  => \/ pc[t] = "descend" /\ pc'[t] = "cas" /\ node'[t] = node[t]
     \/ span'[node'[t]] \subseteq span[node[t]] \ {tag[node[t]]}

(* A search never goes round in circles, whatever races it loses: the tags *)
(* that are left for it get fewer with each step (tag.c:134, 208).         *)
SearchesProgress == [][\A t \in Threads : Advances(t)]_vars

(***************************************************************************)
(* The inductive invariant.                                                *)
(***************************************************************************)

Inside(m, n) == span[m] \subseteq LeftSpan(n) \/ span[m] \subseteq RightSpan(n)

(* The spans are nested like the nodes, and a node with a tag on one side  *)
(* of another has grown from the child on that side.                       *)
TreeInv ==
  /\ root \in reserved /\ Linked \subseteq reserved
  /\ span[root] = Tags
  /\ \A n \in Linked :
       /\ tag[n] \in span[n]
       /\ left[n] # NULL => span[left[n]] = LeftSpan(n)
       /\ right[n] # NULL => span[right[n]] = RightSpan(n)
  /\ \A m, n \in Linked : m # n => Inside(m, n) \/ Inside(n, m) \/ span[m] \cap span[n] = {}
  /\ \A m, n \in Linked : tag[m] \in span[n] =>
       /\ tag[m] < tag[n] => left[n] # NULL
       /\ tag[m] > tag[n] => right[n] # NULL

Locked(t) == pc[t] \in {"locked", "link", "unlink", "count", "uncount", "unlock"}

(* Threads stay on linked nodes, and on the way to where their tag belongs. *)
Placed(t) ==
  /\ pc[t] = "idle" => pos[t] = 1
  /\ op[t] # "walk" /\ pc[t] \notin {"idle", "return"} => pos[t] \in DOMAIN want[t]
  /\ pc[t] \in {"descend", "cas"} => op[t] # "walk" /\ Wanted(t) \in span[node[t]]
  /\ pc[t] \in {"descend", "cas", "lock", "report"} \/ Locked(t) => node[t] \in Linked
  /\ pc[t] \in {"push", "report"} => op[t] = "walk" /\ node[t] \in Linked \cup {NULL}
  /\ \A i \in DOMAIN stack[t] : stack[t][i] \in Linked
  /\ IF pc[t] # "cas" THEN new[t] = NULL
     ELSE /\ op[t] = "add" /\ Wanted(t) # tag[node[t]]
          /\ new[t] \in reserved \ Linked
          /\ tag[new[t]] = Wanted(t) /\ left[new[t]] = NULL /\ right[new[t]] = NULL
          /\ \A u \in Threads \ {t} : new[u] # new[t]
SearchInv == \A t \in Threads : Placed(t)

(* Exactly the thread between LOCK_KEYS and UNLOCK_KEYS has set the flag.  *)
LockInv == \A t \in Threads, n \in Nodes : keys_lock[n] = t <=> Locked(t) /\ node[t] = n

ListInv ==
  /\ \A n \in Nodes, k \in Keys : keys[n][k] <= 1
  /\ \A t \in Threads :
       /\ op[t] \in {"add", "remove"} /\ pc[t] # "idle" => key[t] \in Keys
       /\ pc[t] \in {"link", "unlink", "count", "uncount"} => op[t] \in {"add", "remove"}
       /\ pc[t] = "link" => keys[node[t]][key[t]] = 0
       /\ pc[t] = "unlink" => keys[node[t]][key[t]] = 1

(* num_keys lags behind the list by the update that is under way. *)
Lag(n) ==
  IF \E t \in Threads : keys_lock[n] = t /\ pc[t] = "count" THEN 1
  ELSE IF \E t \in Threads : keys_lock[n] = t /\ pc[t] = "uncount" THEN -1 ELSE 0
CountInv == \A n \in Nodes : num_keys[n] + Lag(n) = Cardinality({k \in Keys : keys[n][k] > 0})

IInv == TypeOK /\ TreeInv /\ SearchInv /\ LockInv /\ ListInv

(***************************************************************************)
(* Two more invariants, for what matches and walks report.                 *)
(***************************************************************************)

(* What has been listed all the time is listed now, and what is listed now *)
(* has been listed at some time; a new node has no keys.                   *)
Remembers(t) ==
  /\ \A g \in Tags, k \in Keys : <<g, k>> \in steady[t] =>
       Concerns(t, g) /\ \E n \in Linked : tag[n] = g /\ keys[n][k] > 0
  /\ \A n \in Linked, k \in Keys : Concerns(t, tag[n]) /\ keys[n][k] > 0 => <<tag[n], k>> \in ever[t]
  /\ pc[t] = "cas" => \A k \in Keys : keys[new[t]][k] = 0

(* The tags whose lists have been merged. *)
Done(t) == {want[t][i] : i \in 1 .. (IF pc[t] = "return" THEN Len(want[t]) ELSE pos[t] - 1)}

(* What has been found is sound for these tags, a copy for its own. *)
Collects(t) ==
  /\ pc[t] = "idle" => op[t] = "add" /\ found[t] = EmptyBag
  /\ op[t] # "walk" /\ (pc[t] = "lock" \/ Locked(t)) => tag[node[t]] = Wanted(t)
  /\ Matching(t) => /\ Sound(t, Done(t), found[t])
                    /\ pc[t] = "unlock" => Sound(t, {Wanted(t)}, copied[t])

MatchInv == \A t \in Threads : Remembers(t) /\ Collects(t)

(* The tags a walk has yet to come to: those from its node on, and those   *)
(* from the nodes of its stack on.                                         *)
Below(t) ==
  IF pc[t] = "push" THEN IF node[t] = NULL THEN {} ELSE span[node[t]]
  ELSE IF pc[t] \in {"lock", "locked"} THEN {tag[node[t]]} \cup RightSpan(node[t])
  ELSE IF pc[t] = "report" THEN RightSpan(node[t]) ELSE {}
Above(t) == UNION {{tag[stack[t][i]]} \cup RightSpan(stack[t][i]) : i \in DOMAIN stack[t]}

(* The node of a walk lies on the left of all on its stack, and each of    *)
(* these on the left of those below it.                                    *)
Nested(t) ==
  /\ \A i, j \in DOMAIN stack[t] : i < j => span[stack[t][i]] \subseteq LeftSpan(stack[t][j])
  /\ node[t] # NULL => \A i \in DOMAIN stack[t] : span[node[t]] \subseteq LeftSpan(stack[t][i])

(* What is told is in ascending order and behind the walk, and nothing     *)
(* that has had a key all the time has been passed by.                     *)
Tells(t) ==
  /\ \A i, j \in DOMAIN told[t] : i < j => told[t][i] < told[t][j]
  /\ \A g \in Range(told[t]) : /\ \A x \in Below(t) \cup Above(t) : g < x
                              /\ \E k \in Keys : <<g, k>> \in ever[t]
  /\ \A p \in steady[t] : p[1] \in Range(told[t]) \cup Below(t) \cup Above(t)

Walks(t) ==
  /\ pc[t] = "idle" => stack[t] = <<>> /\ told[t] = <<>>
  /\ op[t] = "walk" => /\ pc[t] \in {"push", "lock", "locked", "report", "return"}
                       /\ pc[t] = "return" => stack[t] = <<>>
                       /\ Nested(t) /\ Tells(t)

WalkInv == \A t \in Threads : Walks(t)
=============================================================================
