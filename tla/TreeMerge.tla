----------------------------- MODULE TreeMerge -----------------------------
(***************************************************************************)
(* The pure part of replication: the difference of two version trees       *)
(* (tree_walker.rs) and the three-way merge of two differences (merge.rs). *)
(*                                                                         *)
(* A tree is [files, symlinks], each a function from paths to entries      *)
(* [content, updated_at].  A path is a sequence; a content is a sequence   *)
(* of small numbers, and two contents are equal when their chunk hashes    *)
(* (for a symlink, its targets) are.  Identity hashes leave timestamps     *)
(* out, so they are compared as contents are.                              *)
(***************************************************************************)
EXTENDS Integers, Sequences, FiniteSets, Functions, SequencesExt

None == [p \in {} |-> <<>>]
EmptyTree == [files |-> None, symlinks |-> None]

\* What two trees have in common once timestamps are left out.
Contents(m) == [p \in DOMAIN m |-> m[p].content]
SameContents(s, t) == /\ Contents(s.files) = Contents(t.files)
                      /\ Contents(s.symlinks) = Contents(t.symlinks)

\* Some order of the hashes of contents, the one LWW falls back on.
Hash(c) == LET h[i \in 0..Len(c)] == IF i = 0 THEN 0 ELSE (31 * h[i - 1] + c[i]) % 9973
           IN h[Len(c)]

-----------------------------------------------------------------------------
Changes(base, target) ==
  LET kept == DOMAIN target \cap DOMAIN base
  IN [added    |-> Restrict(target, DOMAIN target \ DOMAIN base),
      modified |-> Restrict(target, {p \in kept : base[p].content # target[p].content}),
      deleted  |-> DOMAIN base \ DOMAIN target]

diff_trees(base, target) == [files    |-> Changes(base.files, target.files),
                             symlinks |-> Changes(base.symlinks, target.symlinks)]

NoChange(d) == DOMAIN d.added = {} /\ DOMAIN d.modified = {} /\ d.deleted = {}
is_empty(diff) == NoChange(diff.files) /\ NoChange(diff.symlinks)

\* added.get(path).or(modified.get(path)) for every path that has one.
Changed(d) == [p \in DOMAIN d.added \cup DOMAIN d.modified |->
                 IF p \in DOMAIN d.added THEN d.added[p] ELSE d.modified[p]]

\* Last writer wins, and on a tie the larger hash does.
local_wins(l, r) == \/ l.updated_at > r.updated_at
                    \/ l.updated_at = r.updated_at /\ Hash(l.content) >= Hash(r.content)

ConcurrentModify == 1
ModifyDelete == 2
ConcurrentCreate == 3
NoVersion == 0

Conflict(p, type, winner, loser) == [path |-> p, type |-> type, winner |-> winner, loser |-> loser]

resolve_file_conflict(p, l, r, type) ==
  IF local_wins(l, r) THEN Conflict(p, type, Hash(l.content), Hash(r.content))
                      ELSE Conflict(p, type, Hash(r.content), Hash(l.content))

make_modify_delete_conflict(p, winner) == Conflict(p, ModifyDelete, Hash(winner.content), NoVersion)

(***************************************************************************)
(* One kind of entry, path by path.  What only the remote changed or       *)
(* deleted is applied; where both changed it, the winner stands and the    *)
(* conflict is recorded; a modification wins against a deletion on either  *)
(* side.                                                                   *)
(***************************************************************************)
MergeKind(l, r) ==
  LET lc == Changed(l)
      rc == Changed(r)
      clash == {p \in DOMAIN lc \cap DOMAIN rc : lc[p].content # rc[p].content}
      type(p) == IF p \in DOMAIN l.added \cup DOMAIN r.added THEN ConcurrentCreate ELSE ConcurrentModify
  IN [put |-> Restrict(rc, (DOMAIN rc \ DOMAIN lc) \cup {p \in clash : ~local_wins(lc[p], rc[p])}),
      del |-> r.deleted \ (DOMAIN lc \cup l.deleted),
      conflicts |-> {resolve_file_conflict(p, lc[p], rc[p], type(p)) : p \in clash}
               \cup {make_modify_delete_conflict(p, rc[p]) : p \in DOMAIN rc \cap l.deleted}
               \cup {make_modify_delete_conflict(p, lc[p]) : p \in DOMAIN lc \cap r.deleted}]

merge_files(l, r) == MergeKind(l.files, r.files)
merge_symlinks(l, r) == MergeKind(l.symlinks, r.symlinks)

-----------------------------------------------------------------------------
\* Operations in the order in which they are applied.
PathLess(p, q) == \/ Len(p) < Len(q)
                  \/ Len(p) = Len(q) /\ Hash(p) < Hash(q)
Sorted(paths) == [i \in 1..Cardinality(paths) |->
                    CHOOSE p \in paths : Cardinality({q \in paths : PathLess(q, p)}) = i - 1]

Put(kind, m) == LET ps == Sorted(DOMAIN m)
                IN [i \in 1..Len(ps) |-> [op |-> "put", kind |-> kind, path |-> ps[i], content |-> m[ps[i]].content]]
Del(kind, paths) == LET ps == Sorted(paths)
                    IN [i \in 1..Len(ps) |-> [op |-> "del", kind |-> kind, path |-> ps[i], content |-> <<>>]]

\* Additions of both kinds first, deletions after them.
three_way_merge(l, r) ==
  LET f == merge_files(l, r)
      s == merge_symlinks(l, r)
  IN [operations |-> Put("files", f.put) \o Put("symlinks", s.put)
                  \o Del("files", f.del) \o Del("symlinks", s.del),
      conflicts |-> f.conflicts \cup s.conflicts]

\* The effect of one operation on a tree.
Stored(t, kind, p, c, at) ==
  [t EXCEPT ![kind] = [q \in DOMAIN @ \cup {p} |-> IF q = p THEN [content |-> c, updated_at |-> at] ELSE @[q]]]
Removed(t, kind, p) == [t EXCEPT ![kind] = Restrict(@, DOMAIN @ \ {p})]
Applied(t, o, at) == IF o.op = "put" THEN Stored(t, o.kind, o.path, o.content, at)
                                     ELSE Removed(t, o.kind, o.path)
ApplyAll(t, operations) == FoldLeft(LAMBDA s, o : Applied(s, o, 0), t, operations)
=============================================================================
