------------------------------ MODULE LiveTree ------------------------------
(***************************************************************************)
(* Directories as trees of content-addressed nodes, the writers that       *)
(* replace them, and the collector that marks and sweeps what no version   *)
(* reaches while the writers go on (engine/gc.rs, directory_ops.rs,        *)
(* batch_commit.rs, server/upload_routes.rs).  A file is one chunk, named  *)
(* by its version; a name belongs to one of two trees: "user" is the tree  *)
(* under HEAD and "system" the one under /.aeordb-system, which HEAD does  *)
(* not reach.  The store kv is the set of keys the index holds; what is    *)
(* inside it is the subject of StorageCore and KvLayout.                   *)
(***************************************************************************)
EXTENDS BTree

CONSTANTS
    Names, SystemNames, Versions,
    Writers,      \* requests in flight at once
    Tasks,
    Batches,      \* sequences of names an upload commits together
    KeepPreGc,    \* pre-GC snapshots kept (3 in the code)
    MaxCommits,   \* MAX_CONCURRENT_BLOB_COMMITS (2)
    Starts        \* initial states and budgets

Trees == {"user", "system"}
TreeOf(n) == IF n \in SystemNames THEN "system" ELSE "user"

VARIABLES
    kv,        \* the keys in the index that are not flagged deleted
    dirs,      \* the directory each dir: link leads to; HEAD for "user"
    paths,     \* version in the file: record of each path, 0 when deleted
    registry,  \* task ids in the registry
    snaps,     \* snapshots, oldest first
    config,    \* lifecycle.json
    now,       \* months
    w,         \* requests in flight
    gc,        \* the collector
    recheck,   \* the keys writers recorded for it
    count,     \* the counters files and chunks
    drift,     \* why the counters may be off
    exposed,   \* keys in use that neither the mark nor the recheck set covers
    lost,      \* exposed keys that were swept
    budget     \* operations left

vars == <<kv, dirs, paths, registry, snaps, config, now, w, gc, recheck, count, drift, exposed, lost, budget>>

Chunk(v) == [kind |-> "chunk", ver |-> v]
Record(e) == [kind |-> "file", name |-> e[1], ver |-> e[2]]
PathKey(n) == [kind |-> "path", name |-> n]
Link(t) == [kind |-> "link", tree |-> t]
Task(i) == [kind |-> "task", id |-> i]
Registry == [kind |-> "registry"]

Idle == [at |-> "idle"]
Off == [on |-> FALSE, keys |-> {}]
NoGc == [at |-> "idle", roots |-> {}, live |-> {}, found |-> {}, total |-> [files |-> 0, chunks |-> 0]]

\* Requests are alike: a new one takes the lowest free place.
Free(i) == w[i] = Idle /\ \A j \in Writers : j < i => w[j] # Idle

Spend(k) == budget[k] > 0 /\ budget' = [budget EXCEPT ![k] = @ - 1]

\* store_entry records the key for a collection that is running; flush_batch
\* does not.  Either way the key has a new offset.
Save(stored, batched) ==
  /\ kv' = kv \cup stored \cup batched
  /\ recheck' = IF recheck.on THEN [recheck EXCEPT !.keys = @ \cup stored] ELSE recheck
  /\ gc' = IF gc.at = "found" THEN [gc EXCEPT !.found = @ \ (stored \cup batched)] ELSE gc
  /\ exposed' = IF gc.at = "idle" THEN exposed
                ELSE exposed \cup batched \cup (IF gc.at = "verified" THEN stored ELSE {})

\* A counter moves; a collection between its count and its reconcile will
\* overwrite the move.
Counting(dfiles, dchunks) ==
  count' = [files |-> IF count.files + dfiles < 0 THEN 0 ELSE count.files + dfiles, chunks |-> count.chunks + dchunks]
CountRaced == IF gc.at = "counted" THEN {"race"} ELSE {}

MeasureLiveTree == [files |-> Len(btree_list(dirs["user"])), chunks |-> Cardinality({k \in kv : k.kind = "chunk"})]

-----------------------------------------------------------------------------
(* Storing a file: its chunk unless it is already there, then its records,  *)
(* then the directory, the last two under the namespace lock.               *)

Locked == \E j \in Writers : w[j].at = "dirs"

\* store_chunk, upload_chunk, store_buffered_chunk: a chunk that is present
\* is not stored, so not recorded either.
StoreChunk(v) ==
  LET fresh == {Chunk(v)} \ kv
  IN  /\ kv' = kv \cup fresh
      /\ recheck' = IF recheck.on THEN [recheck EXCEPT !.keys = @ \cup fresh] ELSE recheck
      /\ exposed' = IF gc.at # "idle" /\ fresh = {} THEN exposed \cup {Chunk(v)} ELSE exposed
      /\ Counting(0, Cardinality(fresh))
      /\ drift' = IF fresh = {} THEN drift ELSE drift \cup CountRaced
      /\ gc' = gc

store_chunk(i, n, v, streamed) ==
  /\ Spend("put") /\ Free(i)
  /\ StoreChunk(v)
  /\ w' = [w EXCEPT ![i] = [at |-> "publish", es |-> <<<<n, v>>>>, streamed |-> streamed, batch |-> FALSE]]
  /\ UNCHANGED <<dirs, paths, registry, snaps, config, now, lost>>

\* publish_file_record_entries for each file.  finalize_file reads every chunk
\* again for the content hash; the buffered store has hashed its data.
Published(es) == [n \in Names |-> IF \E e \in es : e[1] = n THEN (CHOOSE e \in es : e[1] = n)[2] ELSE paths[n]]
NewFiles(es) == Cardinality({e \in es : paths[e[1]] = 0})
publish_file_record_entries(i) ==
  /\ w[i].at = "publish" /\ ~Locked
  /\ w[i].streamed => \A e \in ToSet(w[i].es) : Chunk(e[2]) \in kv
  /\ paths' = Published(ToSet(w[i].es))
  /\ Save({Record(e) : e \in ToSet(w[i].es)} \cup {PathKey(e[1]) : e \in ToSet(w[i].es)}, {})
  /\ w' = [w EXCEPT ![i] = [at |-> "dirs", es |-> @.es, batch |-> @.batch, fresh |-> NewFiles(ToSet(@.es))]]
  /\ UNCHANGED <<dirs, registry, snaps, config, now, count, drift, lost, budget>>

\* A chunk is gone: the store fails.
publish_fails(i) ==
  /\ w[i].at = "publish" /\ ~Locked /\ w[i].streamed
  /\ \E e \in ToSet(w[i].es) : Chunk(e[2]) \notin kv
  /\ w' = [w EXCEPT ![i] = Idle]
  /\ UNCHANGED <<kv, dirs, paths, registry, snaps, config, now, gc, recheck, count, drift, exposed, lost, budget>>

\* update_parent_directories, or finish_batch_commit for a batch; then
\* record_file_write, which counts the files of either tree.
Replace(t, r) == dirs' = [dirs EXCEPT ![t] = r.root] /\ Save(r.stored, r.batched \cup {Link(t)})
CountSystem(t) == IF t = "system" THEN {"system"} ELSE {}
Relink(i, t, r) ==
  /\ Replace(t, r)
  /\ Counting(w[i].fresh, 0)
  /\ drift' = drift \cup (IF w[i].fresh = 0 THEN {} ELSE CountRaced \cup CountSystem(t))
  /\ w' = [w EXCEPT ![i] = Idle]
update_parent_directories(i) ==
  /\ w[i].at = "dirs"
  /\ LET t == TreeOf(w[i].es[1][1])
         d == dirs[t]
     IN  /\ d = NoDir \/ \A e \in ToSet(w[i].es) : PathReads(kv, d, e[1])
         /\ Relink(i, t, IF w[i].batch THEN update_directory(d, w[i].es) ELSE upsert_child(d, w[i].es[1]))
  /\ UNCHANGED <<paths, registry, snaps, config, now, lost, budget>>

\* A directory node that cannot be read fails the store, its records written.
update_fails(i) ==
  /\ w[i].at = "dirs" /\ dirs[TreeOf(w[i].es[1][1])] # NoDir
  /\ \E e \in ToSet(w[i].es) : ~PathReads(kv, dirs[TreeOf(e[1])], e[1])
  /\ w' = [w EXCEPT ![i] = Idle]
  /\ UNCHANGED <<kv, dirs, paths, registry, snaps, config, now, gc, recheck, count, drift, exposed, lost, budget>>

-----------------------------------------------------------------------------
(* The upload protocol: check, send what is missing, commit.                *)

Upload(at, es) == [at |-> at, es |-> es, streamed |-> FALSE, batch |-> TRUE]

upload_check(i, names, v) ==
  /\ Spend("upload") /\ Free(i)
  /\ LET es == [k \in DOMAIN names |-> <<names[k], v>>]
     IN  w' = [w EXCEPT ![i] = Upload(IF Chunk(v) \in kv THEN "commit" ELSE "send", es)]
  /\ UNCHANGED <<kv, dirs, paths, registry, snaps, config, now, gc, recheck, count, drift, exposed, lost>>

upload_chunk(i) ==
  /\ w[i].at = "send"
  /\ StoreChunk(w[i].es[1][2])
  /\ w' = [w EXCEPT ![i].at = "commit"]
  /\ UNCHANGED <<dirs, paths, registry, snaps, config, now, lost, budget>>

\* A commit is turned away when MaxCommits are running or one of them is for
\* the same files; the client tries again.  commit_files looks for every
\* chunk before it takes the namespace lock, and fails if one is missing.
Committing == {j \in Writers : w[j].at \in {"publish", "dirs"} /\ w[j].batch}
upload_commit(i) ==
  /\ w[i].at = "commit"
  /\ Cardinality(Committing) < MaxCommits /\ \A j \in Committing : w[j].es # w[i].es
  /\ w' = [w EXCEPT ![i] = IF Chunk(@.es[1][2]) \in kv THEN [@ EXCEPT !.at = "publish"] ELSE Idle]
  /\ exposed' = IF gc.at = "idle" THEN exposed ELSE exposed \cup {Chunk(w[i].es[1][2])}
  /\ UNCHANGED <<kv, dirs, paths, registry, snaps, config, now, gc, recheck, count, drift, lost, budget>>

-----------------------------------------------------------------------------
(* Other writers.                                                           *)

Snapshot(type) == [type |-> type, root |-> dirs["user"], created |-> now]

\* delete_file, with its automatic snapshot at most once a minute.
delete_file(n, auto) ==
  /\ Spend("delete") /\ ~Locked
  /\ paths[n] # 0 /\ PathReads(kv, dirs[TreeOf(n)], n)
  /\ paths' = [paths EXCEPT ![n] = 0]
  /\ snaps' = IF auto /\ n \notin SystemNames /\ config.writes THEN Append(snaps, Snapshot("auto")) ELSE snaps
  /\ Replace(TreeOf(n), remove_child(dirs[TreeOf(n)], n))
  /\ Counting(-1, 0)
  /\ drift' = drift \cup CountRaced \cup CountSystem(TreeOf(n))
  /\ UNCHANGED <<registry, config, now, w, lost>>

\* rebuild_directory_tree: the user's files whose path record and chunk are
\* there, in the order of their names.
Survivors == {n \in Names \ SystemNames : paths[n] # 0 /\ {PathKey(n), Chunk(paths[n])} \subseteq kv}
InOrder(ns) == SelectSeq([n \in 1..Cardinality(Names) |-> <<n, paths[n]>>], LAMBDA e : e[1] \in ns)
rebuild_directory_tree ==
  /\ Spend("rebuild") /\ ~Locked
  /\ Replace("user", store_rebuilt_directory(InOrder(Survivors)))
  /\ UNCHANGED <<paths, registry, snaps, config, now, w, count, drift, lost>>

create_snapshot ==
  /\ Spend("snap") /\ ~Locked /\ config.writes /\ dirs["user"] # NoDir
  /\ snaps' = Append(snaps, Snapshot("manual"))
  /\ UNCHANGED <<kv, dirs, paths, registry, config, now, w, gc, recheck, count, drift, exposed, lost>>

delete_snapshot(k) ==
  /\ Spend("snap") /\ ~Locked
  /\ snaps' = RemoveAt(snaps, k)
  /\ UNCHANGED <<kv, dirs, paths, registry, config, now, w, gc, recheck, count, drift, exposed, lost>>

\* TaskQueue::enqueue: the record first, the registry after it.
enqueue(i, id) ==
  /\ Spend("task") /\ Free(i) /\ Task(id) \notin kv /\ \A j \in Writers : w[j].at # "register"
  /\ Save({Task(id)}, {})
  /\ w' = [w EXCEPT ![i] = [at |-> "register", id |-> id]]
  /\ UNCHANGED <<dirs, paths, registry, snaps, config, now, count, drift, lost>>
save_registry(i) ==
  /\ w[i].at = "register"
  /\ registry' = registry \cup {w[i].id}
  /\ Save({Registry}, {})
  /\ w' = [w EXCEPT ![i] = Idle]
  /\ UNCHANGED <<dirs, paths, snaps, config, now, count, drift, lost, budget>>

Month ==
  /\ Spend("month") /\ now' = now + 1
  /\ UNCHANGED <<kv, dirs, paths, registry, snaps, config, w, gc, recheck, count, drift, exposed, lost>>

\* The process stops: requests and collection are gone, and the counters are
\* taken from the index again (initialize_from_kv).  What a stop does to the
\* records and directory of one store is StorageCore's and Namespace's.
Restart ==
  /\ Spend("crash") /\ ~Locked
  /\ w' = [i \in Writers |-> Idle] /\ gc' = NoGc /\ recheck' = Off /\ exposed' = {}
  /\ count' = MeasureLiveTree /\ drift' = {}
  /\ UNCHANGED <<kv, dirs, paths, registry, snaps, config, now, lost>>

-----------------------------------------------------------------------------
(* run_gc.                                                                  *)

Gc(at) == gc' = [gc EXCEPT !.at = at]
GcOnly == UNCHANGED <<dirs, paths, registry, config, now, w>>

\* The snapshots before the mark: one more, the oldest pre-GC ones dropped,
\* then the ones past the retention of their type (prune_expired_snapshots).
KeepNewest(ss) ==
  SelectSeq(ss, LAMBDA s : s.type # "pre" \/
      Cardinality({k \in DOMAIN ss : ss[k].type = "pre" /\ ss[k].created > s.created}) < KeepPreGc)
Months(s) == IF s.type = "auto" THEN config.auto ELSE config.manual
prune_expired_snapshots(ss) ==
  SelectSeq(ss, LAMBDA s : s.type = "pre" \/ Months(s) = 0 \/ now - s.created < Months(s))

\* begin_gc_recheck.  A request in flight holds keys that no version reaches
\* and that were written before recording began.
Held == {Chunk(w[i].es[1][2]) : i \in {j \in Writers : w[j].at \in {"publish", "commit"}}}
          \cup {Task(w[i].id) : i \in {j \in Writers : w[j].at = "register"}}
begin_gc ==
  /\ Spend("gc") /\ gc.at = "idle"
  /\ recheck' = [on |-> TRUE, keys |-> {}]
  /\ snaps' = prune_expired_snapshots(KeepNewest(
                 IF config.writes /\ dirs["user"] # NoDir THEN Append(snaps, Snapshot("pre")) ELSE snaps))
  /\ exposed' = Held
  /\ Gc("begun") /\ GcOnly /\ UNCHANGED <<kv, count, drift, lost>>

\* Mutant: only HEAD is a root.
gc_roots_head_only ==
  /\ gc.at = "begun"
  /\ gc' = [gc EXCEPT !.at = "rooted", !.roots = {dirs["user"]}]
  /\ GcOnly /\ UNCHANGED <<kv, snaps, recheck, count, drift, exposed, lost, budget>>

\* gc_mark reads HEAD and the snapshots first.
gc_roots ==
  /\ gc.at = "begun"
  /\ gc' = [gc EXCEPT !.at = "rooted", !.roots = {dirs["user"]} \cup {snaps[k].root : k \in DOMAIN snaps}]
  /\ GcOnly /\ UNCHANGED <<kv, snaps, recheck, count, drift, exposed, lost, budget>>

\* What is live below a directory of tree t: its nodes (collect_btree_children),
\* and the record, chunk and path key of each file.
FileKeys(e) == {Record(e), Chunk(e[2]), PathKey(e[1])}
ListedIn(nodes) == UNION {ToSet(n.entries) : n \in {m \in nodes : m.kind \in {"flat", "leaf"}}}
Reached(nodes) == nodes \cup UNION {FileKeys(e) : e \in ListedIn(nodes)}
Below(nodes) == nodes \cup Reached(nodes \cap kv)
mark_tree(t, root) == Below(TreeNodes(kv, root)) \cup {Link(t)}

\* walk_versions_bfs from the roots, mark_system_entries from the directory
\* link, mark_task_entries from the registry, mark_live_path_file_records.
mark_task_entries == {Registry} \cup {Task(i) : i \in registry}
mark_live_path_file_records ==
  UNION {FileKeys(<<n, paths[n]>>) : n \in {m \in Names : paths[m] # 0 /\ PathKey(m) \in kv}}
gc_mark ==
  /\ gc.at = "rooted"
  /\ gc' = [gc EXCEPT !.at = "marked",
              !.live = UNION {mark_tree("user", r) : r \in gc.roots} \cup mark_tree("system", dirs["system"])
                         \cup mark_task_entries \cup mark_live_path_file_records]
  /\ GcOnly /\ UNCHANGED <<kv, snaps, recheck, count, drift, exposed, lost, budget>>

\* mark_entry_recursive from a recorded key: nothing if it is live already.
KeysOf(k) ==
  CASE k.kind = "file" -> FileKeys(<<k.name, k.ver>>)
    [] k.kind = "path" -> FileKeys(<<k.name, paths[k.name]>>)
    [] k.kind \in {"flat", "leaf", "internal"} -> Below(TreeNodes(kv, k))
    [] OTHER -> {}
mark_entry_recursive(k) == IF k \in gc.live THEN {} ELSE {k} \cup KeysOf(k)

\* The drain takes what was recorded, until there is nothing to take.
drain_recheck ==
  /\ gc.at = "marked"
  /\ recheck' = [recheck EXCEPT !.keys = {}]
  /\ gc' = [gc EXCEPT !.at = IF recheck.keys = {} THEN "drained" ELSE @,
                      !.live = @ \cup UNION {mark_entry_recursive(k) : k \in recheck.keys}]
  /\ GcOnly /\ UNCHANGED <<kv, snaps, count, drift, exposed, lost, budget>>

\* gc_sweep: the candidates, the check that none was written again, the
\* removal (by key, whatever its offset is by then).
gc_sweep ==
  /\ gc.at = "drained"
  /\ gc' = [gc EXCEPT !.at = "found", !.found = (kv \ gc.live) \ recheck.keys]
  /\ GcOnly /\ UNCHANGED <<kv, snaps, recheck, count, drift, exposed, lost, budget>>
verify_candidates ==
  /\ gc.at = "found" /\ Gc("verified")
  /\ GcOnly /\ UNCHANGED <<kv, snaps, recheck, count, drift, exposed, lost, budget>>
remove_kv_entries_batch ==
  /\ gc.at = "verified" /\ Gc("swept")
  /\ kv' = kv \ gc.found
  /\ lost' = lost \cup (gc.found \cap exposed)
  /\ GcOnly /\ UNCHANGED <<snaps, recheck, count, drift, exposed, budget>>

\* build_authoritative_snapshot, then reconcile; the guard ends the recording.
build_authoritative_snapshot ==
  /\ gc.at = "swept"
  /\ gc' = [gc EXCEPT !.at = "counted", !.total = MeasureLiveTree]
  /\ drift' = drift \ {"race"}
  /\ GcOnly /\ UNCHANGED <<kv, snaps, recheck, count, exposed, lost, budget>>

reconcile ==
  /\ gc.at = "counted"
  /\ count' = gc.total /\ drift' = drift \cap {"race"}
  /\ gc' = NoGc /\ recheck' = Off /\ exposed' = {}
  /\ GcOnly /\ UNCHANGED <<kv, snaps, lost, budget>>

-----------------------------------------------------------------------------
Init ==
  \E s \in Starts :
    /\ dirs = [t \in Trees |-> IF t = "user" THEN s.dir ELSE Flat(<<<<CHOOSE n \in SystemNames : TRUE, 1>>>>)]
    /\ paths = [n \in Names |-> Cardinality({e \in ToSet(btree_list(dirs[TreeOf(n)])) : e[1] = n})]
    /\ kv = UNION {Reached(AllNodes(dirs[t])) \cup {Link(t)} : t \in Trees} \cup {Registry}
    /\ registry = {} /\ snaps = <<>> /\ config = s.config /\ now = 0
    /\ w = [i \in Writers |-> Idle] /\ gc = NoGc /\ recheck = Off
    /\ count = [files |-> Len(btree_list(s.dir)), chunks |-> 1]
    /\ drift = {} /\ exposed = {} /\ lost = {}
    /\ budget = s.budget

Store(i) ==
  \/ \E n \in Names, v \in Versions, streamed \in BOOLEAN : store_chunk(i, n, v, streamed)
  \/ publish_file_record_entries(i) \/ publish_fails(i) \/ update_parent_directories(i) \/ update_fails(i)
UploadFiles(i) == upload_chunk(i) \/ upload_commit(i) \/ \E b \in Batches, v \in Versions : upload_check(i, b, v)
Enqueue(i) == save_registry(i) \/ \E id \in Tasks : enqueue(i, id)
Maintain ==
  \/ \E n \in Names, auto \in BOOLEAN : delete_file(n, auto)
  \/ rebuild_directory_tree \/ create_snapshot \/ Month \/ Restart
  \/ \E k \in DOMAIN snaps : delete_snapshot(k)
run_gc ==
  \/ begin_gc \/ gc_roots \/ gc_mark \/ drain_recheck \/ gc_sweep \/ verify_candidates
  \/ remove_kv_entries_batch \/ build_authoritative_snapshot \/ reconcile

Next == (\E i \in Writers : Store(i) \/ UploadFiles(i) \/ Enqueue(i)) \/ Maintain \/ run_gc
Spec == Init /\ [][Next]_vars

-----------------------------------------------------------------------------
(* Properties.                                                              *)

AtRest == \A i \in Writers : w[i].at # "dirs"

\* Through splits, conversions, deletions that empty nodes, batches and
\* rebuilds, a directory lists exactly the files that have a path record, a
\* tree lists them in the order of their names, and looking a name up finds
\* it (btree_list, btree_lookup against file: records).  With no request and no
\* collection in flight the counters are what a scan would find, unless system
\* files were written or a write fell between the collector's scan and its
\* reconcile (drift).
ListsItsFiles ==
  lost = {} =>
    /\ AtRest => \A t \in Trees :
         LET listed == btree_list(dirs[t])
         IN  /\ dirs[t] = NoDir \/ Lists(kv, dirs[t])
             /\ ToSet(listed) = {<<n, paths[n]>> : n \in {m \in Names : TreeOf(m) = t /\ paths[m] # 0}}
             /\ Len(listed) = Cardinality(ToSet(listed))
             /\ is_btree_format(dirs[t]) => \A k \in 1..(Len(listed) - 1) : listed[k][1] < listed[k + 1][1]
             /\ \A n \in Names : TreeOf(n) = t => btree_lookup(dirs[t], n) = {e \in ToSet(listed) : e[1] = n}
    /\ (\A i \in Writers : w[i] = Idle) /\ gc.at = "idle" /\ drift = {} => count = MeasureLiveTree

\* Every stored node has one child more than it has keys, children that lie
\* between its keys, and no more entries or keys than a node may have
\* (btree.rs, InternalNode: "children.len() == keys.len() + 1").
Between(n, i, name) == (i > 1 => n.keys[i - 1] <= name) /\ (i <= Len(n.keys) => name < n.keys[i])
NodesWellFormed ==
  \A n \in kv :
    /\ n.kind = "leaf" => n.entries # <<>> /\ Len(n.entries) <= MaxLeaf
    /\ n.kind = "internal" => /\ Len(n.children) = Len(n.keys) + 1 /\ Len(n.children) > 1
                              /\ Len(n.keys) <= MaxKeys
                              /\ \A i \in DOMAIN n.children : \A e \in ToSet(btree_list(n.children[i])) : Between(n, i, e[1])

\* A file with a path record keeps the record and its chunk, and a task in the
\* registry its record, whatever a collection overlaps, but for a key that was
\* in use without being marked or recorded (lost).  A snapshot lists what it
\* did when it was taken, every file of it readable, after any later writes
\* and collections.
Readable ==
  /\ \A n \in Names : paths[n] # 0 => {PathKey(n), Chunk(paths[n])} \subseteq kv \cup lost
  /\ \A i \in registry : Task(i) \in kv \cup lost
  /\ \A k \in DOMAIN snaps : lost = {} =>
       /\ Lists(kv, snaps[k].root)
       /\ \A e \in ToSet(btree_list(snaps[k].root)) : {Record(e), Chunk(e[2])} \subseteq kv

\* What the comment in run_gc says of a write during a collection: "every
\* successful write hash is recorded so the sweep phase can spare entries
\* that arrived after the mark snapshot was captured".
SweepSparesWrites == AtRest => dirs["user"] = NoDir \/ Lists(kv, dirs["user"])
=============================================================================
