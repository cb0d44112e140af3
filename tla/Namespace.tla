------------------------------ MODULE Namespace ------------------------------
(***************************************************************************)
(* The namespace: files, symlinks and directories over the content-        *)
(* addressed store, with snapshots and forks (engine/directory_ops.rs,     *)
(* engine/batch_commit.rs, engine/version_manager.rs).                     *)
(*                                                                         *)
(* The same information is kept three times and every operation has to     *)
(* keep the copies together:                                               *)
(*   - HEAD, the hash of the root directory: a Merkle tree;                *)
(*   - dir:{path} keys, normally a hard link (a content hash) to the       *)
(*     directory's content, or an inline empty body;                       *)
(*   - file:{path} and symlink:{path} keys, which reads go through.        *)
(* Content addressing is equality: a directory's content is the function   *)
(* from the relative paths below it to entries.  Timestamps inside entries *)
(* are abstracted, so two writes of the same children have one content.    *)
(* All mutations hold the namespace lock, so one operation is one step;    *)
(* what a crash leaves of it is a prefix of its writes, with HEAD          *)
(* published by the commit, as StorageCore has it.                         *)
(***************************************************************************)
EXTENDS Integers, FiniteSets, SequencesExt

CONSTANTS
  Dirs,           \* directory paths other than the root, as sequences of names
  FilePaths,      \* where files are stored
  LinkPaths,      \* where symlinks are stored
  Contents,       \* file contents (identity hashes)
  Targets,        \* symlink targets
  SnapshotNames,  \* names users give; "auto" is the engine's own
  Forks,
  BatchDirs,      \* sets of directories one batch commit may write into
  MkdirExisting,  \* whether create_directory is called on an existing one
  Moves,          \* whether restore_snapshot and promote_fork are called
  MaxOps, MaxCrashes

VARIABLES
  db,        \* what the index holds; see Init
  versions,  \* snapshots and forks: name -> tree or NoTree
  zombies,   \* snapshots marked deleted without a DeletionRecord
  acked,     \* what the last completed operation promised for each file
  named,     \* the paths the last operation was about
  ops, crashes

vars == <<db, versions, zombies, acked, named, ops, crashes>>

Root == <<>>
None == "none"
Unknown == "unknown"
Auto == "auto"
AllDirs == Dirs \union {Root}
Names == SnapshotNames \union {Auto} \union Forks
Leaves == ({"file"} \X FilePaths) \union ({"symlink"} \X LinkPaths)

(***************************************************************************)
(* Trees.                                                                  *)
(***************************************************************************)
EmptyTree == [p \in {} |-> None]
Marker(m) == [p \in {Root} |-> m]   \* no tree: the root is no entry of one
NoTree == Marker("absent")
DirEntry == [kind |-> "dir", id |-> None]
NoRec == [id |-> None, state |-> "none"]
LeafEntry(kind, id) == [kind |-> kind, id |-> id]

\* The content of directory q within tree t.
Sub(t, q) ==
  LET below == {p \in DOMAIN t : IsStrictPrefix(q, p)}
      rel == {SubSeq(p, Len(q) + 1, Len(p)) : p \in below}
  IN IF q = Root THEN t ELSE [r \in rel |-> t[q \o r]]

IsDirIn(t, q) == q = Root \/ (q \in DOMAIN t /\ t[q].kind = "dir")

\* A child is a name, an entry and, for a directory, its content.
Child(n, e, t) == [name |-> n, entry |-> e, tree |-> t]

DropChild(t, n) == [p \in {x \in DOMAIN t : x[1] # n} |-> t[p]]

\* The children, one per name, take the place of those of the same names.
SetChildren(t, children) ==
  LET names == {c.name : c \in children}
      kept == {p \in DOMAIN t : p[1] \notin names}
      added == UNION {{<<c.name>>} \union {<<c.name>> \o r : r \in DOMAIN c.tree} : c \in children}
  IN [p \in kept \union added |->
        IF p \in kept THEN t[p]
        ELSE LET c == CHOOSE c \in children : c.name = p[1]
             IN IF Len(p) = 1 THEN c.entry ELSE c.tree[Tail(p)]]

(***************************************************************************)
(* Directory keys.  log is the last non-empty record of the key in the     *)
(* WAL (Inline if every record is empty, Never if there is none): a        *)
(* rebuild prefers it to an empty one however much newer.  deleted: a      *)
(* DeletionRecord follows it.                                              *)
(***************************************************************************)
Never == Marker("never")
Inline == Marker("inline")
NewKey == [form |-> "none", log |-> Never, deleted |-> FALSE]
LinkKey(t) == [form |-> "link", log |-> t, deleted |-> FALSE]
InlineKey(k) ==
  IF k.log \in {Never, Inline} THEN [form |-> "inline", log |-> Inline, deleted |-> FALSE]
  ELSE [k EXCEPT !.form = "inline"]
DeletedKey(k) == [k EXCEPT !.form = "none", !.deleted = TRUE]
SweptKey(k) == [k EXCEPT !.form = "none"]

\* should_replace_rebuild_record, and the DeletionRecords replayed on it.
RebuiltKey(k) ==
  [k EXCEPT !.form = IF k.log = Never \/ k.deleted THEN "none"
                     ELSE IF k.log = Inline THEN "inline" ELSE "link"]

\* canonical_directory_content_hash: what the walk from HEAD says, while the
\* content of every directory above q can be read.
Canonical(d, q) ==
  IF IsDirIn(d.head, q) /\ \A i \in 0..(Len(q) - 1) : d.swept = {} \/ Sub(d.head, SubSeq(q, 1, i)) \notin d.swept
  THEN Sub(d.head, q) ELSE NoTree

\* A hard link that is not HEAD's content for the path.
LinkDiverged(d, q) ==
  d.dirs[q].form = "link" /\ LET c == Canonical(d, q) IN c # NoTree /\ d.dirs[q].log # c

\* Mutant: a stale link is read as it is.
RecoverNothing(d, q) == NoTree

recover_directory_data_if_stale(d, q) ==
  LET c == Canonical(d, q)
  IN IF d.dirs[q].form = "link" /\ d.dirs[q].log # c /\ c \notin d.swept THEN c ELSE NoTree

\* A swept content may still be served by the directory content cache.
read_directory_data(d, q, cache) ==
  CASE d.dirs[q].form = "none" -> NoTree
    [] d.dirs[q].form = "inline" -> EmptyTree
    [] OTHER -> IF d.dirs[q].log \in d.swept /\ ~(cache /\ d.dirs[q].log \in d.cached)
                THEN NoTree ELSE d.dirs[q].log

Body(d, q, cache) ==
  LET r == recover_directory_data_if_stale(d, q)
  IN IF r # NoTree THEN r ELSE read_directory_data(d, q, cache)

BodyOrEmpty(d, q, cache) ==
  LET t == Body(d, q, cache) IN IF t = NoTree THEN EmptyTree ELSE t

(***************************************************************************)
(* Listing: the recovered or linked content, children whose own path key   *)
(* is not live left out (list_directory and filter_live_children).         *)
(***************************************************************************)
LiveRec(d, kind, p) == <<kind, p>> \in Leaves /\ d.recs[<<kind, p>>].state = "live"
PathKeyLive(d, kind, p) ==
  IF kind = "dir" THEN p \in AllDirs /\ d.dirs[p].form # "none" ELSE LiveRec(d, kind, p)
filter_live_children(d, q, t) ==
  {n \in {p[1] : p \in DOMAIN t} : PathKeyLive(d, t[<<n>>].kind, q \o <<n>>)}

\* The names shown.
Listing(d, q) == filter_live_children(d, q, BodyOrEmpty(d, q, TRUE))

\* The files reached by listing every directory from the root.
ListedFiles(d) ==
  LET shown == [q \in AllDirs |-> Listing(d, q)]
  IN {p \in FilePaths : \A i \in 1..Len(p) : p[i] \in shown[SubSeq(p, 1, i - 1)]}

(***************************************************************************)
(* Writes.  An operation is the sequence of the writes it makes.           *)
(***************************************************************************)
WriteRec(kind, p, id, state) == [to |-> "rec", at |-> <<kind, p>>, val |-> [id |-> id, state |-> state]]
WriteDir(q, t) == [to |-> "dir", at |-> q, val |-> t]        \* content and link
WriteInline(q) == [to |-> "inline", at |-> q, val |-> EmptyTree]
Relink(q, t) == [to |-> "relink", at |-> q, val |-> t]       \* the link alone
Unlink(q) == [to |-> "unlink", at |-> q, val |-> EmptyTree]
WriteHead(t) == [to |-> "head", at |-> Root, val |-> t]

Stored(d, t) == [d EXCEPT !.swept = @ \ {t}, !.cached = @ \ {t}]

Apply1(d, w) ==
  CASE w.to = "rec" -> [d EXCEPT !.recs[w.at] = w.val]
    [] w.to = "dir" -> [Stored(d, w.val) EXCEPT !.dirs[w.at] = LinkKey(w.val)]
    [] w.to = "inline" -> [Stored(d, EmptyTree) EXCEPT !.dirs[w.at] = InlineKey(@)]
    [] w.to = "relink" -> [d EXCEPT !.dirs[w.at] = LinkKey(w.val)]
    [] w.to = "unlink" -> [d EXCEPT !.dirs[w.at] = DeletedKey(@)]
    [] w.to = "head" -> [d EXCEPT !.head = w.val]
Apply(d, ws) ==
  LET after[i \in 0..Len(ws)] == IF i = 0 THEN d ELSE Apply1(after[i - 1], ws[i])
  IN after[Len(ws)]

\* A sequence of operations: each reads what the ones before it wrote.
Then(d, ws, Op(_)) == ws \o Op(Apply(d, ws))

\* Parent to root, each level from the body it has before the operation;
\* HEAD with the root's batch.
update_parent_directories(d, p, entry, tree) ==
  LET level[i \in 0..(Len(p) - 1)] ==
        SetChildren(BodyOrEmpty(d, SubSeq(p, 1, i), TRUE),
                    {IF i = Len(p) - 1 THEN Child(p[i + 1], entry, tree)
                     ELSE Child(p[i + 1], DirEntry, level[i + 1])})
  IN [j \in 1..Len(p) |-> WriteDir(SubSeq(p, 1, Len(p) - j), level[Len(p) - j])]
       \o <<WriteHead(level[0])>>

remove_from_parent_directory(d, p) ==
  LET q == Front(p)
      t == DropChild(BodyOrEmpty(d, q, TRUE), Last(p))
  IN <<WriteDir(q, t)>>
       \o (IF q = Root THEN <<WriteHead(t)>> ELSE update_parent_directories(d, q, DirEntry, t))

\* materialize_file_record_entries writes the content, identity and path
\* keys; only the path key is mutable.
publish(d, kind, p, id) ==
  <<WriteRec(kind, p, id, "live")>> \o update_parent_directories(d, p, LeafEntry(kind, id), EmptyTree)

\* Mutant: the parent keeps the child.
UnpublishKeepsChild(d, kind, p) == <<WriteRec(kind, p, d.recs[<<kind, p>>].id, "deleted")>>

\* The DeletionRecord and the deleted mark, then the parent.
unpublish(d, kind, p) ==
  <<WriteRec(kind, p, d.recs[<<kind, p>>].id, "deleted")>> \o remove_from_parent_directory(d, p)

\* heal_stale_dir_keys_along_path: root down to q, while HEAD has it.
heal_stale_dir_keys_along_path(d, q) ==
  LET healed[i \in 0..(Len(q) + 1)] ==
        IF i = 0 THEN <<>>
        ELSE LET a == SubSeq(q, 1, i - 1)
             IN IF LinkDiverged(d, a) THEN Append(healed[i - 1], Relink(a, Canonical(d, a))) ELSE healed[i - 1]
  IN healed[Len(q) + 1]

\* list_directory heals only when the listed directory itself diverged.
list_directory_writes(d, q) ==
  IF recover_directory_data_if_stale(d, q) # NoTree THEN heal_stale_dir_keys_along_path(d, q) ELSE <<>>

mkdir_writes(d, q) ==
  <<WriteInline(q)>> \o update_parent_directories(d, q, DirEntry, EmptyTree)

(***************************************************************************)
(* Batch commit: publish every record, then one pass over the parent       *)
(* directories, deepest first, by the number of slashes in the path (so    *)
(* the root ties with its children, in hash-map order).                    *)
(***************************************************************************)
Slashes(q) == IF q = Root THEN 1 ELSE Len(q)
DeepestFirst(order) == \A i, j \in 1..Len(order) : i < j => Slashes(order[i]) >= Slashes(order[j])
Orders(S) == {o \in SetToSeqs(S) : DeepestFirst(o)}

\* What the batch has written so far is ws, after its records (in d).
Updated(ws) == {ws[i].at : i \in DOMAIN ws}
LastUpdate(ws, q) == ws[SelectLastInSeq(ws, LAMBDA w : w.at = q)].val

\* update_directory: the body (never from the cache) with the children set.
update_directory(d, ws, q, children) ==
  Append(ws, WriteDir(q, SetChildren(BodyOrEmpty(Apply(d, ws), q, FALSE), children)))

\* From q's parent to the root.
propagate_up(d, ws, q) ==
  LET up[i \in 0..Len(q)] ==
        IF i = Len(q) THEN ws
        ELSE LET a == SubSeq(q, 1, i + 1)
                 below == up[i + 1]
             IN update_directory(d, below, Front(a), {Child(Last(a), DirEntry, LastUpdate(below, a))})
  IN up[0]

PendingStep(d, s, q) ==
  LET ws == update_directory(d, s.ws, q, s.queued[q])
      queued == [s.queued EXCEPT ![q] = {}]
  IN IF q = Root THEN [ws |-> ws, queued |-> queued]
     ELSE IF Front(q) \in Updated(s.ws) THEN [ws |-> propagate_up(d, ws, q), queued |-> queued]
     ELSE [ws |-> ws,
           queued |-> [queued EXCEPT ![Front(q)] = @ \union {Child(Last(q), DirEntry, ws[Len(ws)].val)}]]

\* The writes of a commit of files, a sequence of <<path, content>>; pending
\* and remaining are the orders in which the two loops visit directories.
Paths(files) == {files[i][1] : i \in DOMAIN files}
Parents(files) == {Front(p) : p \in Paths(files)}
Queued(files) ==
  [q \in AllDirs |-> {Child(Last(files[i][1]), LeafEntry("file", files[i][2]), EmptyTree) :
                        i \in {j \in DOMAIN files : Front(files[j][1]) = q}}]
FirstLoop(d, files, pending) ==
  LET after[i \in 0..Len(pending)] ==
        IF i = 0 THEN [ws |-> <<>>, queued |-> Queued(files)] ELSE PendingStep(d, after[i - 1], pending[i])
  IN after[Len(pending)]
Remaining(s) == {q \in AllDirs : s.queued[q] # {}}
finish_batch_commit(d, s, remaining) ==
  LET after[i \in 0..Len(remaining)] ==
        IF i = 0 THEN s.ws
        ELSE LET q == remaining[i] IN propagate_up(d, update_directory(d, after[i - 1], q, s.queued[q]), q)
      ws == after[Len(remaining)]
  IN ws \o (IF Root \in Updated(ws) THEN <<WriteHead(LastUpdate(ws, Root))>> ELSE <<>>)

BatchRecords(files) == [i \in DOMAIN files |-> WriteRec("file", files[i][1], files[i][2], "live")]

(***************************************************************************)
(* Actions.  Commit(ws, touched) is an operation that ran to its end;      *)
(* Crash(ws, touched) is one the process died in: a prefix of its writes,  *)
(* HEAD's excepted, and a restart, which empties the cache, may lose the   *)
(* bytes of deleted records, and revives unrecorded deletions.             *)
(***************************************************************************)
MoreOps == ops < MaxOps
Budget == MoreOps /\ ops' = ops + 1
AckedAfter(d, touched) ==
  [p \in FilePaths |-> IF p \notin touched THEN acked[p]
                       ELSE IF LiveRec(d, "file", p) THEN d.recs[<<"file", p>>].id ELSE None]
Forget(touched) == [p \in FilePaths |-> IF p \in touched THEN Unknown ELSE acked[p]]

Commit(ws, touched) ==
  /\ db' = Apply(db, ws)
  /\ acked' = AckedAfter(db', touched)
  /\ UNCHANGED <<versions, zombies, crashes>>

\* found: the directory keys a full scan rebuilds from an older record that
\* is still in the file; lost: the deleted and swept records that are not.
\* A swept one that is still there is found again, for no DeletionRecord
\* says it went.
Restarted(d, found, lost) ==
  [d EXCEPT
     !.cached = {},
     !.dirs = [q \in AllDirs |-> IF q \in found THEN RebuiltKey(d.dirs[q]) ELSE d.dirs[q]],
     !.recs = [k \in Leaves |-> IF k \in lost THEN NoRec
                                ELSE IF d.recs[k].state = "swept"
                                THEN [d.recs[k] EXCEPT !.state = "live"] ELSE d.recs[k]]]

Changeable(d) == {q \in AllDirs : RebuiltKey(d.dirs[q]) # d.dirs[q]}
InState(d, states) == {k \in Leaves : d.recs[k].state \in states}

Crash(ws, touched) ==
  /\ crashes < MaxCrashes
  /\ crashes' = crashes + 1
  /\ \E n \in 0..Len(ws) :
       LET d == [Apply(db, SubSeq(ws, 1, n)) EXCEPT !.head = db.head]
       IN \E found \in SUBSET Changeable(d), lost \in {{}, InState(d, {"swept"}), InState(d, {"swept", "deleted"})} :
            db' = Restarted(d, found, lost)
  /\ acked' = Forget(touched)
  /\ \E revived \in SUBSET {n \in SnapshotNames : zombies[n] # NoTree} :
       versions' = [n \in Names |-> IF n \in revived THEN zombies[n] ELSE versions[n]]
  /\ zombies' = [n \in SnapshotNames |-> NoTree]

\* An operation runs to its end or is cut by a crash.
Do(writes, touched) ==
  /\ Budget /\ named' = touched
  /\ \E ws \in {writes} : Commit(ws, touched) \/ Crash(ws, touched)

restart == Budget /\ named' = {} /\ Crash(<<>>, {})

store_file(p, c) == Do(publish(db, "file", p, c), {p})

store_symlink(p, target) == Do(publish(db, "symlink", p, target), {})

\* create_snapshot's dedup: a live snapshot of the same root is returned.
Duplicate == \E n \in Names \ Forks : versions[n] = db.head
\* auto_snapshot_throttled, and the pre-GC snapshot: taken or throttled.
AutoSnapshot ==
  {versions} \union (IF versions[Auto] = NoTree /\ ~Duplicate THEN {[versions EXCEPT ![Auto] = db.head]} ELSE {})

delete_file(p) ==
  /\ LiveRec(db, "file", p)
  /\ Budget /\ named' = {p}
  /\ \E ws \in {unpublish(db, "file", p)} :
        \/ /\ db' = Apply(db, ws)
           /\ acked' = AckedAfter(db', {p})
           /\ versions' \in AutoSnapshot
           /\ UNCHANGED <<zombies, crashes>>
        \/ Crash(ws, {p})

delete_symlink(p) == LiveRec(db, "symlink", p) /\ Do(unpublish(db, "symlink", p), {})

\* restore_deleted_file reads the record whether or not it is deleted.
restore_deleted_file(p) ==
  /\ db.recs[<<"file", p>>].id # None
  /\ Do(publish(db, "file", p, db.recs[<<"file", p>>].id), {p})

\* read_file_streaming: the path key alone, and nothing is written.
read_file(p) == UNCHANGED vars

Vacant(p) == ~LiveRec(db, "file", p) /\ ~LiveRec(db, "symlink", p)

Renamed(kind, p, q) ==
  /\ p # q /\ LiveRec(db, kind, p) /\ Vacant(q)
  /\ Do(Then(db, publish(db, kind, q, db.recs[<<kind, p>>].id), LAMBDA d : unpublish(d, kind, p)),
        IF kind = "file" THEN {p, q} ELSE {})
rename_file(p, q) == Renamed("file", p, q)
rename_symlink(p, q) == Renamed("symlink", p, q)

copy_file(p, q) ==
  /\ p # q /\ LiveRec(db, "file", p)
  /\ Do(publish(db, "file", q, db.recs[<<"file", p>>].id), {q})

create_directory(q) ==
  /\ MkdirExisting \/ db.dirs[q].form = "none"
  /\ Do(mkdir_writes(db, q), {})

\* Only an empty listing may go; the listing heals first.
delete_directory(q) ==
  LET body == Body(db, q, TRUE)
      healed == list_directory_writes(db, q)
  IN /\ MoreOps /\ body # NoTree /\ filter_live_children(db, q, body) = {}
     /\ Do(Then(db, healed, LAMBDA d : <<Unlink(q)>> \o remove_from_parent_directory(d, q)), {})

\* copy_path of a directory: create the destination, then copy the children
\* in listing order; a child that is no file ends it with an error, and the
\* transaction keeps what was done.
CopyChildren(d, q, r, order) ==
  LET failed(i) == \E j \in 1..i : ~LiveRec(d, "file", q \o <<order[j]>>)
      copied[i \in 0..Len(order)] ==
        IF i = 0 THEN <<>>
        ELSE LET n == order[i]
                 before == copied[i - 1]
             IN IF failed(i) THEN before
                ELSE before \o publish(Apply(d, before), "file", r \o <<n>>, d.recs[<<"file", q \o <<n>> >>].id)
  IN copied[Len(order)]

Recorded(ws) == {ws[i].at[2] : i \in {j \in 1..Len(ws) : ws[j].to = "rec"}}

copy_path(q, r) ==
  /\ MoreOps /\ q # r /\ db.dirs[q].form # "none"
  /\ MkdirExisting \/ db.dirs[r].form = "none"
  /\ \E made \in {mkdir_writes(db, r)} : \E d \in {Apply(db, made)} :
       LET body == Body(d, q, TRUE)
           healed == list_directory_writes(d, q)
       IN /\ body # NoTree
          /\ \E shown \in {filter_live_children(d, q, body)} :
               /\ \A n \in shown : LiveRec(d, "file", q \o <<n>>) => r \o <<n>> \in FilePaths
               /\ \E order \in SetToSeqs(shown) : \E copied \in {CopyChildren(Apply(d, healed), q, r, order)} :
                    Do(made \o healed \o copied, Recorded(copied))

list_directory(q) ==
  LET ws == list_directory_writes(db, q)
  IN MoreOps /\ IF ws = <<>> THEN UNCHANGED vars ELSE Do(ws, {})

\* repair_stale_dir_key, for one path verify reports.
repair_stale_dir_key(q) == MoreOps /\ LinkDiverged(db, q) /\ Do(<<Relink(q, Canonical(db, q))>>, {})

commit_files(files) ==
  LET records == BatchRecords(files)
      d == Apply(db, records)
  IN MoreOps /\ \E pending \in Orders(Parents(files)) :
       \E s \in {FirstLoop(d, files, pending)} :
         \E remaining \in Orders(Remaining(s)) :
           Do(records \o finish_batch_commit(d, s, remaining), Paths(files))

\* rebuild_directory_tree: every directory from the live file path keys,
\* deepest first; symlinks and empty directories are not in it.
Rebuilt ==
  LET files == {p \in FilePaths : LiveRec(db, "file", p)}
      parents == UNION {{SubSeq(p, 1, i) : i \in 1..(Len(p) - 1)} : p \in files}
  IN [p \in files \union parents |->
        IF p \in files THEN LeafEntry("file", db.recs[<<"file", p>>].id) ELSE DirEntry]
rebuild_directory_tree ==
  LET tree == Rebuilt
      dirs == {q \in AllDirs : IsDirIn(tree, q)}
  IN /\ Budget /\ named' = FilePaths
     /\ \E order \in Orders(dirs) :
          LET ws == [i \in 1..Len(order) |-> WriteDir(order[i], Sub(tree, order[i]))] \o <<WriteHead(tree)>>
          IN order[Len(order)] = Root /\ (Commit(ws, {}) \/ Crash(ws, {}))

(***************************************************************************)
(* Versions.  Restoring and promoting move HEAD and nothing else.          *)
(***************************************************************************)
SetVersion(n, t) == versions' = [versions EXCEPT ![n] = t]
OnlyVersions == named' = {} /\ UNCHANGED <<db, acked, crashes>>

create_snapshot(n) ==
  /\ versions[n] = NoTree /\ ~Duplicate
  /\ Budget /\ SetVersion(n, db.head)
  /\ zombies' = [zombies EXCEPT ![n] = NoTree]
  /\ OnlyVersions

delete_snapshot(n) ==
  /\ versions[n] # NoTree
  /\ Budget /\ SetVersion(n, NoTree)
  /\ zombies' = IF n \in SnapshotNames THEN [zombies EXCEPT ![n] = NoTree] ELSE zombies
  /\ OnlyVersions

\* The new name is stored and the old one only marked deleted.
rename_snapshot(n, m) ==
  /\ versions[n] # NoTree /\ versions[m] = NoTree
  /\ Budget
  /\ versions' = [versions EXCEPT ![m] = versions[n], ![n] = NoTree]
  /\ zombies' = [zombies EXCEPT ![n] = versions[n], ![m] = NoTree]
  /\ OnlyVersions

MoveHead(t) ==
  /\ named' = FilePaths
  /\ acked' = Forget(FilePaths)
  /\ UNCHANGED <<zombies, crashes>>

restore_snapshot(n) ==
  /\ Moves /\ versions[n] # NoTree
  /\ Budget /\ MoveHead(versions[n])
  /\ db' = [db EXCEPT !.head = versions[n], !.cached = {}]
  /\ UNCHANGED versions

VersionRoot(base) == IF base = "HEAD" THEN db.head ELSE versions[base]
create_fork(f, base) ==
  /\ versions[f] = NoTree /\ VersionRoot(base) # NoTree
  /\ Budget /\ SetVersion(f, VersionRoot(base))
  /\ UNCHANGED zombies /\ OnlyVersions

promote_fork(f) ==
  /\ Moves /\ versions[f] # NoTree
  /\ Budget /\ MoveHead(versions[f])
  /\ db' = [db EXCEPT !.head = versions[f]]
  /\ SetVersion(f, NoTree)

abandon_fork(f) ==
  /\ versions[f] # NoTree
  /\ Budget /\ SetVersion(f, NoTree)
  /\ UNCHANGED zombies /\ OnlyVersions

(***************************************************************************)
(* Garbage collection as the namespace sees it: directory content outside  *)
(* every root is swept, and so are the dir: and symlink: keys of paths no  *)
(* root has; file: keys are always marked.                                 *)
(***************************************************************************)
Roots(vs) == {db.head} \union {vs[n] : n \in {x \in Names : vs[x] # NoTree}}
ContentsOf(t) == {Sub(t, q) : q \in {x \in AllDirs : IsDirIn(t, x)}}

\* Mutant: the mark starts from the snapshots and forks alone.
MarkedFromVersions(vs) == UNION {ContentsOf(t) : t \in Roots(vs) \ {db.head}}

Marked(vs) == UNION {ContentsOf(t) : t \in Roots(vs)}

Linked == {db.dirs[q].log : q \in {x \in AllDirs : db.dirs[x].form = "link"}}
Revivable == UNION {ContentsOf(zombies[n]) : n \in {x \in SnapshotNames : zombies[x] # NoTree}}
Collected(vs) == ((Linked \union Revivable) \ Marked(vs)) \ db.swept

Swept(vs, cached) ==
  [db EXCEPT
     !.dirs = [q \in AllDirs |->
        IF db.dirs[q].form # "none" /\ \A t \in Roots(vs) : ~IsDirIn(t, q) THEN SweptKey(db.dirs[q]) ELSE db.dirs[q]],
     !.recs = [k \in Leaves |->
        IF LiveRec(db, "symlink", k[2]) /\ k[1] = "symlink"
             /\ \A t \in Roots(vs) : ~(k[2] \in DOMAIN t /\ t[k[2]].kind = "symlink")
        THEN [db.recs[k] EXCEPT !.state = "swept"] ELSE db.recs[k]],
     !.swept = @ \union Collected(vs),
     !.cached = @ \union cached]

run_gc ==
  /\ Budget /\ named' = {}
  /\ \E vs \in AutoSnapshot :
       /\ versions' = vs
       /\ \E cached \in {{}, Collected(vs)} : db' = Swept(vs, cached)
  /\ UNCHANGED <<zombies, acked, crashes>>

(***************************************************************************)
(* ensure_root_directory: an inline root and HEAD at the empty content.    *)
(***************************************************************************)
Init ==
  /\ db = [head |-> EmptyTree,
           dirs |-> [q \in AllDirs |-> IF q = Root THEN InlineKey(NewKey) ELSE NewKey],
           recs |-> [k \in Leaves |-> NoRec],
           swept |-> {}, cached |-> {}]   \* directory contents
  /\ versions = [n \in Names |-> NoTree]
  /\ zombies = [n \in SnapshotNames |-> NoTree]
  /\ acked = [p \in FilePaths |-> None]
  /\ named = {} /\ ops = 0 /\ crashes = 0

Batches == {fs \in [1..2 -> FilePaths \X Contents] :
              fs[1][1] # fs[2][1] /\ Parents(fs) \in BatchDirs}

FileOps ==
  \/ \E p \in FilePaths, c \in Contents : store_file(p, c)
  \/ \E p \in FilePaths : delete_file(p) \/ restore_deleted_file(p) \/ read_file(p)
  \/ \E p, q \in FilePaths : rename_file(p, q) \/ copy_file(p, q)
  \/ \E fs \in Batches : commit_files(fs)

LinkOps ==
  \/ \E p \in LinkPaths, c \in Targets : store_symlink(p, c)
  \/ \E p \in LinkPaths : delete_symlink(p)
  \/ \E p, q \in LinkPaths : rename_symlink(p, q)

DirOps ==
  \/ \E q \in Dirs : create_directory(q) \/ delete_directory(q)
  \/ \E q, r \in Dirs : copy_path(q, r)
  \/ \E q \in AllDirs : list_directory(q) \/ repair_stale_dir_key(q)
  \/ rebuild_directory_tree

VersionOps ==
  \/ \E n \in SnapshotNames : create_snapshot(n)
  \/ \E n \in SnapshotNames \union {Auto} : delete_snapshot(n) \/ restore_snapshot(n)
  \/ \E n, m \in SnapshotNames : rename_snapshot(n, m)
  \/ \E f \in Forks, b \in SnapshotNames \union {"HEAD"} : create_fork(f, b)
  \/ \E f \in Forks : promote_fork(f) \/ abandon_fork(f)

Next == FileOps \/ LinkOps \/ DirOps \/ VersionOps \/ run_gc \/ restart
Spec == Init /\ [][Next]_vars

(***************************************************************************)
(* Properties.                                                             *)
(***************************************************************************)
\* A file whose last write completed is read at its path with that content,
\* HEAD has it with that content, and listing from the root shows it; a file
\* whose deletion completed is gone from all three.  Reads go through the
\* path key, listings through directory keys, snapshots and sync through
\* HEAD: store_file, delete_file, rename_file, copy_file, copy_path,
\* restore_deleted_file and the batch commit must keep the three together
\* through healing, rebuilding, garbage collection and crashes.
AckedReadable ==
  LET listed == ListedFiles(db) IN
  \A p \in FilePaths :
    /\ acked[p] \in Contents =>
         /\ LiveRec(db, "file", p) /\ db.recs[<<"file", p>>].id = acked[p]
         /\ p \in DOMAIN db.head /\ db.head[p] = LeafEntry("file", acked[p])
         /\ p \in listed
    /\ acked[p] = None => ~LiveRec(db, "file", p) /\ p \notin DOMAIN db.head

\* A file that listings show stays in them through every operation on other
\* paths, whatever state restores, promotions, crashes and sweeps have left
\* the directory keys in: update_parent_directories must never publish a
\* HEAD from a stale body "that drops committed siblings".
ListedSiblingsKept ==
  [][ListedFiles(db) \ named' \subseteq ListedFiles(db')]_vars

\* An operation on some paths brings no other file into HEAD: what a
\* restored snapshot or a promoted fork does not contain stays out of it
\* (recover_directory_data_if_stale: a directory key that no longer matches
\* HEAD's view is "repaired here").
NothingElsePublished ==
  [][\A p \in FilePaths \ named' : p \in DOMAIN db.head' => p \in DOMAIN db.head]_vars

=============================================================================
