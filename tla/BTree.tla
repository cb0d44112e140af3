------------------------------- MODULE BTree -------------------------------
(***************************************************************************)
(* The content-addressed B-tree that holds a large directory               *)
(* (engine/btree.rs).  A node is stored under the hash of its bytes, so a  *)
(* node stands for its hash, a child hash for the child node itself, and   *)
(* the store is a set of nodes.  A directory entry is a pair <<name,       *)
(* version>>; names are numbers, ordered as the strings are.  A directory  *)
(* of fewer than Threshold entries is a flat list (directory_entry.rs).    *)
(***************************************************************************)
EXTENDS Naturals, Sequences, SequencesExt, FiniteSets

CONSTANTS
    MaxLeaf,    \* BTREE_MAX_LEAF_ENTRIES (40 in the code)
    MaxKeys,    \* BTREE_MAX_INTERNAL_KEYS (77)
    Threshold   \* BTREE_CONVERSION_THRESHOLD (256)

ASSUME BTreeBounds == MaxLeaf \in Nat \ {0, 1} /\ MaxKeys \in Nat \ {0, 1, 2} /\ Threshold \in Nat \ {0}

Flat(entries) == [kind |-> "flat", entries |-> entries]
LeafNode(entries) == [kind |-> "leaf", entries |-> entries]
InternalNode(keys, children) == [kind |-> "internal", keys |-> keys, children |-> children]

is_btree_format(n) == n.kind \in {"leaf", "internal"}

\* deserialize of an internal node reads one hash more than it reads keys, so
\* bytes written from any other shape end too early: CorruptEntry.
Deserializes(n) == n.kind = "internal" => Len(n.children) = Len(n.keys) + 1

-----------------------------------------------------------------------------
(* Nodes.                                                                   *)

\* The insertion point a binary search finds: how many entries come before.
Before(entries, name) == Cardinality({i \in DOMAIN entries : entries[i][1] < name})

upsert(entries, e) ==
  LET i == Before(entries, e[1]) + 1
  IN  IF i <= Len(entries) /\ entries[i][1] = e[1] THEN ReplaceAt(entries, i, e) ELSE InsertAt(entries, i, e)

leaf_remove(entries, name) == SelectSeq(entries, LAMBDA e : e[1] # name)

\* The child a name belongs to; a name equal to a key belongs to its right.
find_child_index(n, name) == Cardinality({i \in DOMAIN n.keys : n.keys[i] <= name}) + 1

\* What an insertion hands to the level above: the node, or the two halves
\* with the key that separates them, and every node it stored.
Done(n, stored) == [nodes |-> <<n>>, key |-> 0, stored |-> stored \cup {n}]
Split(l, key, r, stored) == [nodes |-> <<l, r>>, key |-> key, stored |-> stored \cup {l, r}]

insert_in_leaf(entries) ==
  LET mid == Len(entries) \div 2
  IN  IF Len(entries) >= MaxLeaf
      THEN Split(LeafNode(SubSeq(entries, 1, mid)), entries[mid + 1][1],
                 LeafNode(SubSeq(entries, mid + 1, Len(entries))), {})
      ELSE Done(LeafNode(entries), {})

\* Mutant: the key that moves up also stays in the left half.
split_keeps_key(keys, children, stored) ==
  LET mid == Len(keys) \div 2
  IN  Split(InternalNode(SubSeq(keys, 1, mid + 1), SubSeq(children, 1, mid + 1)), keys[mid + 1],
            InternalNode(SubSeq(keys, mid + 2, Len(keys)), SubSeq(children, mid + 2, Len(children))), stored)

\* InternalNode::split: the middle key moves up.
split_internal(keys, children, stored) ==
  LET mid == Len(keys) \div 2
  IN  Split(InternalNode(SubSeq(keys, 1, mid), SubSeq(children, 1, mid + 1)), keys[mid + 1],
            InternalNode(SubSeq(keys, mid + 2, Len(keys)), SubSeq(children, mid + 2, Len(children))), stored)

\* Child i was rewritten as r.
insert_in_internal(n, i, r) ==
  LET children == ReplaceAt(n.children, i, r.nodes[1])
      at == Cardinality({j \in DOMAIN n.keys : n.keys[j] < r.key}) + 1
      keys == InsertAt(n.keys, at, r.key)
  IN  IF Len(r.nodes) = 1 THEN Done(InternalNode(n.keys, children), r.stored)
      ELSE IF Len(keys) >= MaxKeys THEN split_internal(keys, InsertAt(children, at + 1, r.nodes[2]), r.stored)
      ELSE Done(InternalNode(keys, InsertAt(children, at + 1, r.nodes[2])), r.stored)

-----------------------------------------------------------------------------
(* Operations on a tree, from its root node.                                *)

RECURSIVE btree_insert_node(_, _)
btree_insert_node(n, e) ==
  IF n.kind = "leaf" THEN insert_in_leaf(upsert(n.entries, e))
  ELSE LET i == find_child_index(n, e[1]) IN insert_in_internal(n, i, btree_insert_node(n.children[i], e))

\* A root that splits gets a new root above it.  The nodes are stored in one
\* batch at the end (btree_insert_batched) or one by one on the way up.
GrowRoot(r) == IF Len(r.nodes) = 1 THEN r ELSE Done(InternalNode(<<r.key>>, r.nodes), r.stored)
btree_insert_batched(root, e) == LET r == GrowRoot(btree_insert_node(root, e)) IN [root |-> r.nodes[1], stored |-> r.stored]

\* Each pass makes one level of internal nodes, MaxKeys + 1 children each.
\* From the second group on the slice of keys starts at the key that
\* separates the group from the one before, which also moves up.
RECURSIVE build_internal_level(_, _)
build_internal_level(children, keys) ==
  LET width == MaxKeys + 1
      groups == (Len(children) + width - 1) \div width
      start(g) == (g - 1) * width
      end(g) == IF g * width < Len(children) THEN g * width ELSE Len(children)
      node(g) == InternalNode(SubSeq(keys, IF g = 1 THEN 1 ELSE start(g), end(g) - 1),
                              SubSeq(children, start(g) + 1, end(g)))
  IN  IF Len(children) = 1 THEN children[1]
      ELSE build_internal_level([g \in 1..groups |-> node(g)], [g \in 1..(groups - 1) |-> keys[start(g + 1)]])

\* btree_from_entries sorts the entries and cuts them into leaves of MaxLeaf.
Leaves(sorted) ==
  [l \in 1..((Len(sorted) + MaxLeaf - 1) \div MaxLeaf) |->
     LeafNode(SubSeq(sorted, (l - 1) * MaxLeaf + 1, IF l * MaxLeaf < Len(sorted) THEN l * MaxLeaf ELSE Len(sorted)))]
FromLeaves(leaves) == build_internal_level(leaves, [l \in 1..(Len(leaves) - 1) |-> leaves[l + 1].entries[1][1]])
btree_from_entries(entries) ==
  IF entries = <<>> THEN LeafNode(<<>>) ELSE FromLeaves(Leaves(SortSeq(entries, LAMBDA a, b : a[1] < b[1])))

RECURSIVE btree_lookup(_, _)
btree_lookup(n, name) ==
  IF n.kind # "internal" THEN {e \in ToSet(n.entries) : e[1] = name}
  ELSE btree_lookup(n.children[find_child_index(n, name)], name)

RECURSIVE btree_list(_)
btree_list(n) ==
  IF n.kind # "internal" THEN n.entries
  ELSE FlattenSeq([i \in DOMAIN n.children |-> btree_list(n.children[i])])

\* A child that became empty goes with a key next to it, and an internal node
\* left with one child is replaced by the child.  Nothing is rebalanced.
delete_in_internal(n, i, r) ==
  LET keys == IF n.keys = <<>> THEN <<>> ELSE RemoveAt(n.keys, IF i <= Len(n.keys) THEN i ELSE i - 1)
      children == RemoveAt(n.children, i)
      rewritten == InternalNode(n.keys, ReplaceAt(n.children, i, r.nodes[1]))
  IN  CASE r.nodes # <<>>      -> [nodes |-> <<rewritten>>, stored |-> r.stored \cup {rewritten}]
        [] Len(children) <= 1  -> [nodes |-> children, stored |-> r.stored]
        [] OTHER               -> [nodes |-> <<InternalNode(keys, children)>>,
                                   stored |-> r.stored \cup {InternalNode(keys, children)}]

\* No node at all when the tree is empty.
RECURSIVE btree_delete(_, _)
btree_delete(n, name) ==
  LET entries == leaf_remove(n.entries, name)
      i == find_child_index(n, name)
  IN  IF n.kind = "internal" THEN delete_in_internal(n, i, btree_delete(n.children[i], name))
      ELSE IF entries = <<>> THEN [nodes |-> <<>>, stored |-> {}]
      ELSE [nodes |-> <<LeafNode(entries)>>, stored |-> {LeafNode(entries)}]

\* The nodes of a tree that a walk reaches over what the store still holds;
\* a node that is gone is named by its parent and not followed.
RECURSIVE TreeNodes(_, _)
TreeNodes(kv, n) ==
  {n} \cup (IF n.kind = "internal" /\ n \in kv THEN UNION {TreeNodes(kv, c) : c \in ToSet(n.children)} ELSE {})

-----------------------------------------------------------------------------
(* A directory, flat or tree: the root it gets, the nodes written one by    *)
(* one with store_entry, and the ones written in a batch.                   *)

RECURSIVE AllNodes(_)
AllNodes(n) == {n} \cup (IF n.kind = "internal" THEN UNION {AllNodes(c) : c \in ToSet(n.children)} ELSE {})

Written(root, stored, batched) == [root |-> root, stored |-> stored, batched |-> batched]
ConvertTree(root) == Written(root, AllNodes(root), {})
convert(entries) == ConvertTree(btree_from_entries(entries))

\* Mutant: the entry is pushed without looking for its name.
FlatPush(entries, e) == Append(entries, e)

\* deserialize_child_entries, then find-and-replace or push.
FlatUpsert(entries, e) ==
  IF \E i \in DOMAIN entries : entries[i][1] = e[1]
  THEN [i \in DOMAIN entries |-> IF entries[i][1] = e[1] THEN e ELSE entries[i]]
  ELSE Append(entries, e)

BatchFlat(entries) == IF Len(entries) >= Threshold THEN convert(entries) ELSE Written(Flat(entries), {}, {Flat(entries)})

\* The directory's part of update_parent_directories.
InsertBatched(r) == Written(r.root, {}, r.stored)
upsert_child(d, e) ==
  IF is_btree_format(d) THEN InsertBatched(btree_insert_batched(d, e)) ELSE BatchFlat(FlatUpsert(d.entries, e))

\* update_directory of a batch commit: every new child, then the conversion;
\* a directory that did not exist is written flat whatever its size.
NoDir == [kind |-> "none", entries |-> <<>>]
StoreFlat(entries) == Written(Flat(entries), {Flat(entries)}, {})
InsertNext(acc, e) == LET r == btree_insert_batched(acc.root, e) IN Written(r.root, {}, acc.batched \cup r.stored)
MergedFlat(entries) == IF Len(entries) >= Threshold THEN convert(entries) ELSE StoreFlat(entries)
update_directory(d, es) ==
  IF d = NoDir THEN StoreFlat(es)
  ELSE IF is_btree_format(d) THEN FoldLeft(InsertNext, Written(d, {}, {}), es)
  ELSE MergedFlat(FoldLeft(FlatUpsert, d.entries, es))

\* remove_from_parent_directory: an emptied tree becomes the empty flat list.
Flattened(entries) == Written(Flat(entries), {}, {Flat(entries)})
AfterDelete(r) == IF r.nodes = <<>> THEN Flattened(<<>>) ELSE Written(r.nodes[1], r.stored, {})
remove_child(d, name) ==
  IF is_btree_format(d) THEN AfterDelete(btree_delete(d, name)) ELSE Flattened(leaf_remove(d.entries, name))

\* store_rebuilt_directory, from the children found in the index.
store_rebuilt_directory(entries) == BatchFlat(entries)

\* Whether an operation can read every node on the way to a name, and
\* whether a listing can read every node.
RECURSIVE PathReads(_, _, _)
PathReads(kv, n, name) ==
  /\ n \in kv /\ Deserializes(n)
  /\ n.kind = "internal" => PathReads(kv, n.children[find_child_index(n, name)], name)
RECURSIVE Lists(_, _)
Lists(kv, n) ==
  /\ n \in kv /\ Deserializes(n)
  /\ n.kind = "internal" => \A i \in DOMAIN n.children : Lists(kv, n.children[i])
=============================================================================
