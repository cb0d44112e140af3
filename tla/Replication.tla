---------------------------- MODULE Replication ----------------------------
(***************************************************************************)
(* Replication between nodes: the pull cycle over HTTP (sync_engine.rs     *)
(* do_sync_cycle_remote against sync_routes.rs), the in-process merge      *)
(* (sync_with_local_engine), peers and their connection state, conflict    *)
(* files, and what garbage collection takes away from a sync.              *)
(*                                                                         *)
(* A pull <<n, m>> is node n syncing from its peer m.  The topology of a   *)
(* behaviour is chosen in Init: which pulls go over HTTP, which are merged *)
(* in process and in what order, who writes, and which paths a pull syncs. *)
(* System files (/.aeordb-system) are left out: they are not part of HEAD. *)
(***************************************************************************)
EXTENDS TreeMerge, TLC

CONSTANTS Nodes, FilePaths, LinkPaths, Values,
          Topologies,   \* what a behaviour may start from: who pulls from whom over HTTP,
                        \* the in-process syncs in their order, who writes which paths,
                        \* the paths of each pull, the stamps clocks give to writes and to
                        \* applied copies, whether a sync may be triggered while one
                        \* runs, and bounds on client operations and faults
          MaxHashes,    \* SYNC_CHUNKS_MAX_HASHES
          UnsafeGc      \* TRUE: GC may take versions that a sync still needs

VARIABLES topology,
          tree,      \* tree[n]: what HEAD of n reaches
          held,      \* held[n]: <<path, content>> versions whose record and chunk n has
          conn,      \* conn[<<n, m>>]: n's connection to m
          base,      \* base[<<n, m>>]: last_synced_root_hash as the tree it names, and
                     \* whether the node that walks it still (or at all) has it
          cycle,     \* cycle[<<n, m>>]: the sync in progress
          locks,     \* sync_locks: the pulls with a cycle in progress, or so it is noted
          at_lock,   \* nodes where a task is inside the sync_locks mutex
          turn,      \* which in-process sync comes next
          latest,    \* ghost: the version a client last gave each path, anywhere
          uneven,    \* ghost: nodes that have synced from a base other than what they hold
          synced,    \* ghost: a whole round ended after the last client operation
          writes, faults

vars == <<topology, tree, held, conn, base, cycle, locks, at_lock, turn, latest, uneven, synced, writes, faults>>
ghosts == <<latest, uneven, synced>>
mutex == <<locks, at_lock>>

Pulls == Nodes \X Nodes
HttpPulls == UNION {t.http : t \in Topologies}
Idle == [at |-> "idle", root |-> EmptyTree, todo |-> <<>>, applied |-> FALSE]
NoBase == [root |-> EmptyTree, walkable |-> FALSE]

\* /.aeordb-conflicts{path}/.meta
Meta(p) == Append(p, 0)
UserPaths == FilePaths \cup LinkPaths
Chunk == <<>>          \* the path of a chunk that came without its record
BaseTree(x) == IF base[x].walkable THEN base[x].root ELSE EmptyTree
HasChunk(n, k) == \E v \in held[n] : v[2] = k

Init ==
  /\ topology \in Topologies
  /\ tree = [n \in Nodes |-> EmptyTree]
  /\ held = [n \in Nodes |-> {}]
  /\ conn = [x \in Pulls |-> IF x \in topology.http THEN "disconnected" ELSE "absent"]
  /\ base = [x \in Pulls |-> NoBase]
  /\ cycle = [x \in Pulls |-> Idle]
  /\ locks = {}
  /\ at_lock = {}
  /\ turn = 1
  /\ latest = [p \in UserPaths |-> <<>>]
  /\ uneven = {}
  /\ synced = FALSE
  /\ writes = 0
  /\ faults = 0

-----------------------------------------------------------------------------
(* Clients.  In-process syncs run between client operations: a write that  *)
(* lands inside one is a hazard of its own.                                *)

Merging == \E x \in Pulls : cycle[x].at = "merge"

Client(n, p) ==
  /\ n \in topology.writers /\ p \in topology.written
  /\ writes < topology.max_writes
  /\ ~Merging /\ turn = 1
  /\ writes' = writes + 1
  /\ synced' = FALSE
  /\ UNCHANGED <<topology, mutex, conn, base, cycle, turn, uneven, faults>>

\* What a write leaves to be lost: nothing, where it puts back the version that
\* the node's last in-process sync ended with.
Claim(n, p, kind, v) ==
  IF \E x \in Range(topology.rounds) : /\ x[1] = n
                                       /\ p \in DOMAIN BaseTree(x)[kind]
                                       /\ BaseTree(x)[kind][p].content = v
  THEN <<>> ELSE v

store_file(n, p, v, at) ==
  /\ Client(n, p)
  /\ tree' = [tree EXCEPT ![n] = Stored(@, "files", p, <<v>>, at)]
  /\ held' = [held EXCEPT ![n] = @ \cup {<<p, <<v>>>>}]
  /\ latest' = [latest EXCEPT ![p] = Claim(n, p, "files", <<v>>)]

delete_file(n, p) ==
  /\ Client(n, p)
  /\ p \in DOMAIN tree[n].files
  /\ tree' = [tree EXCEPT ![n] = Removed(@, "files", p)]
  /\ latest' = [latest EXCEPT ![p] = <<>>]
  /\ UNCHANGED held

store_symlink(n, p, v, at) ==
  /\ Client(n, p)
  /\ tree' = [tree EXCEPT ![n] = Stored(@, "symlinks", p, <<v>>, at)]
  /\ latest' = [latest EXCEPT ![p] = Claim(n, p, "symlinks", <<v>>)]
  /\ UNCHANGED held

delete_symlink(n, p) ==
  /\ Client(n, p)
  /\ p \in DOMAIN tree[n].symlinks
  /\ tree' = [tree EXCEPT ![n] = Removed(@, "symlinks", p)]
  /\ latest' = [latest EXCEPT ![p] = <<>>]
  /\ UNCHANGED held

\* The meta content is <<type, winner, loser, created_at>>.
Picked(meta, pick) == IF pick = "winner" THEN meta[2] ELSE meta[3]

(***************************************************************************)
(* The version picked is written over the path if this node has its        *)
(* record; the conflict is cleaned up either way.                          *)
(***************************************************************************)
resolve_conflict(n, p, pick, at) ==
  /\ Client(n, p)
  /\ Meta(p) \in DOMAIN tree[n].files
  /\ LET chosen == Picked(tree[n].files[Meta(p)].content, pick)
         version == {v \in held[n] : v[1] = p /\ Hash(v[2]) = chosen}
         kept == IF version = {} THEN tree[n]
                 ELSE Stored(tree[n], "files", p, (CHOOSE v \in version : TRUE)[2], at)
     IN /\ tree' = [tree EXCEPT ![n] = Removed(kept, "files", Meta(p))]
        /\ latest' = [latest EXCEPT ![p] = IF p \in DOMAIN kept.files THEN kept.files[p].content ELSE <<>>]
  /\ UNCHANGED held

dismiss_conflict(n, p) ==
  /\ Client(n, p)
  /\ Meta(p) \in DOMAIN tree[n].files
  /\ tree' = [tree EXCEPT ![n] = Removed(@, "files", Meta(p))]
  /\ latest' = [latest EXCEPT ![p] = IF p \in DOMAIN tree[n].files THEN tree[n].files[p].content ELSE <<>>]
  /\ UNCHANGED held

-----------------------------------------------------------------------------
(* Peers.  Connection state is runtime state; the configuration and the    *)
(* sync state are persisted.                                               *)

\* A peer added again gets a fresh node id, so no sync state is found for it.
add_peer(n, m) ==
  /\ <<n, m>> \in topology.http
  /\ conn[<<n, m>>] = "absent" /\ cycle[<<n, m>>] = Idle
  /\ conn' = [conn EXCEPT ![<<n, m>>] = "disconnected"]
  /\ base' = [base EXCEPT ![<<n, m>>] = NoBase]
  /\ UNCHANGED <<topology, mutex, tree, held, cycle, turn, ghosts, writes, faults>>

\* A cycle in progress goes on with the copy of the connection it has.
remove_peer(n, m) ==
  /\ faults < topology.max_faults
  /\ conn[<<n, m>>] # "absent"
  /\ conn' = [conn EXCEPT ![<<n, m>>] = "absent"]
  /\ uneven' = uneven \cup {n}
  /\ faults' = faults + 1
  /\ UNCHANGED <<topology, mutex, tree, held, base, cycle, turn, latest, synced, writes>>

(***************************************************************************)
(* POST /sync/trigger?force_activate=true, the one caller of activate_peer. *)
(* Its task then enters sync_with_peer beside the sync loop; a task leaves *)
(* the mutex having found the peer's slot taken or free to start a cycle.  *)
(***************************************************************************)
trigger_sync(n) ==
  /\ n \notin at_lock
  /\ \E m \in Nodes : conn[<<n, m>>] = "disconnected" \/ (topology.triggers /\ conn[<<n, m>>] = "active")
  /\ conn' = [x \in Pulls |-> IF x[1] = n /\ conn[x] = "disconnected" THEN "active" ELSE conn[x]]
  /\ at_lock' = at_lock \cup {n}
  /\ UNCHANGED <<topology, locks, tree, held, base, cycle, turn, ghosts, writes, faults>>

leave_lock(n) ==
  /\ n \in at_lock
  /\ at_lock' = at_lock \ {n}
  /\ UNCHANGED <<topology, locks, tree, held, conn, base, cycle, turn, ghosts, writes, faults>>

\* SyncLockGuard::drop gives up the slot only if try_lock gets the mutex.
Release(x) == /\ locks' = IF x[1] \in at_lock THEN locks ELSE locks \ {x}
              /\ UNCHANGED at_lock

-----------------------------------------------------------------------------
(* One cycle over HTTP.                                                    *)

OnPaths(d, paths) == [added    |-> Restrict(d.added, DOMAIN d.added \cap paths),
                      modified |-> Restrict(d.modified, DOMAIN d.modified \cap paths),
                      deleted  |-> d.deleted \cap paths]
filter_tree_diff_by_paths(diff, paths) == [files    |-> OnPaths(diff.files, paths),
                                           symlinks |-> OnPaths(diff.symlinks, paths)]

\* The changes of a diff response in the order in which they are applied.
SyncChanges(d) == Put("files", d.files.added) \o Put("files", d.files.modified)
               \o Del("files", d.files.deleted)
               \o Put("symlinks", d.symlinks.added) \o Put("symlinks", d.symlinks.modified)
               \o Del("symlinks", d.symlinks.deleted)

chunk_hashes_needed(todo) == {todo[i].content : i \in {j \in DOMAIN todo : todo[j].op = "put" /\ todo[j].kind = "files"}}

\* The peer's HEAD and its difference from the base are read in one request.
sync_diff(n, m) ==
  LET x == <<n, m>>
      diff == filter_tree_diff_by_paths(diff_trees(BaseTree(x), tree[m]), topology.paths[x])
  IN /\ conn[x] = "active"
     /\ cycle[x] = Idle /\ x \notin locks /\ n \notin at_lock
     /\ IF is_empty(diff)
        THEN /\ base[x] # [root |-> tree[m], walkable |-> TRUE]
             /\ base' = [base EXCEPT ![x] = [root |-> tree[m], walkable |-> TRUE]]
             /\ UNCHANGED <<cycle, mutex>>
        ELSE /\ cycle' = [cycle EXCEPT ![x] = [at |-> "chunks", root |-> tree[m],
                                               todo |-> SyncChanges(diff), applied |-> FALSE]]
             /\ locks' = locks \cup {x}
             /\ UNCHANGED <<base, at_lock>>
     /\ UNCHANGED <<topology, tree, held, conn, turn, ghosts, writes, faults>>

\* A plausible slip: a request of exactly the largest size is refused.
LimitOffByOne(n, m) ==
  LET x == <<n, m>>
      needed == chunk_hashes_needed(cycle[x].todo)
      sent == {<<Chunk, h>> : h \in {k \in needed : HasChunk(m, k) /\ ~HasChunk(n, k)}}
  IN /\ cycle[x].at = "chunks"
     /\ IF Cardinality(needed) >= MaxHashes
        THEN /\ cycle' = [cycle EXCEPT ![x] = Idle]
             /\ Release(x)
             /\ UNCHANGED held
        ELSE /\ cycle' = [cycle EXCEPT ![x].at = "apply"]
             /\ held' = [held EXCEPT ![n] = @ \cup sent]
             /\ UNCHANGED mutex
     /\ UNCHANGED <<topology, tree, conn, base, turn, ghosts, writes, faults>>

\* Too many hashes fail the cycle; chunks the peer no longer has are left out.
sync_chunks(n, m) ==
  LET x == <<n, m>>
      needed == chunk_hashes_needed(cycle[x].todo)
      sent == {<<Chunk, h>> : h \in {k \in needed : HasChunk(m, k) /\ ~HasChunk(n, k)}}
  IN /\ cycle[x].at = "chunks"
     /\ IF Cardinality(needed) > MaxHashes
        THEN /\ cycle' = [cycle EXCEPT ![x] = Idle]
             /\ Release(x)
             /\ UNCHANGED held
        ELSE /\ cycle' = [cycle EXCEPT ![x].at = "apply"]
             /\ held' = [held EXCEPT ![n] = @ \cup sent]
             /\ UNCHANGED mutex
     /\ UNCHANGED <<topology, tree, conn, base, turn, ghosts, writes, faults>>

\* A file is left out when a chunk of it is not there.
Appliable(n, o) == o.op = "del" \/ o.kind = "symlinks" \/ HasChunk(n, o.content)

ApplyNext(x, at) ==
  LET n == x[1]
      o == Head(cycle[x].todo)
  IN /\ cycle[x].todo # <<>>
     /\ cycle' = [cycle EXCEPT ![x].todo = Tail(@), ![x].applied = TRUE]
     /\ IF Appliable(n, o)
        THEN /\ tree' = [tree EXCEPT ![n] = Applied(@, o, at)]
             /\ held' = IF o.op = "put" /\ o.kind = "files"
                        THEN [held EXCEPT ![n] = @ \cup {<<o.path, o.content>>}] ELSE held
        ELSE UNCHANGED <<tree, held>>
     /\ UNCHANGED <<topology, mutex, conn, base, turn, ghosts, writes, faults>>

apply_change(n, m, at) ==
  /\ cycle[<<n, m>>].at = "apply"
  /\ ApplyNext(<<n, m>>, at)

\* A plausible slip: the base saved is the peer's HEAD of now, not of the diff.
SaveCurrentHead(n, m) ==
  LET x == <<n, m>>
  IN /\ cycle[x].at = "apply"
     /\ cycle[x].todo = <<>>
     /\ base' = [base EXCEPT ![x] = [root |-> tree[m], walkable |-> TRUE]]
     /\ cycle' = [cycle EXCEPT ![x] = Idle]
     /\ Release(x)
     /\ UNCHANGED <<topology, tree, held, conn, turn, ghosts, writes, faults>>

save_sync_state(n, m) ==
  LET x == <<n, m>>
  IN /\ cycle[x].at = "apply"
     /\ cycle[x].todo = <<>>
     /\ base' = [base EXCEPT ![x] = [root |-> cycle[x].root, walkable |-> TRUE]]
     /\ cycle' = [cycle EXCEPT ![x] = Idle]
     /\ Release(x)
     /\ UNCHANGED <<topology, tree, held, conn, turn, ghosts, writes, faults>>

(***************************************************************************)
(* The cycle fails: no answer, an error status, or an error while storing. *)
(* What was applied stays applied and the base is not moved.               *)
(***************************************************************************)
HalfApplied(xs) == {x[1] : x \in {y \in xs : cycle[y].applied}}

\* A plausible slip: the slot is given up by hand, and not on the error path.
FailsKeepingSlot(n, m) ==
  /\ faults < topology.max_faults
  /\ cycle[<<n, m>>].at \in {"chunks", "apply"}
  /\ cycle' = [cycle EXCEPT ![<<n, m>>] = Idle]
  /\ uneven' = uneven \cup HalfApplied({<<n, m>>})
  /\ faults' = faults + 1
  /\ UNCHANGED <<topology, mutex, tree, held, conn, base, turn, latest, synced, writes>>

cycle_fails(n, m) ==
  /\ faults < topology.max_faults
  /\ cycle[<<n, m>>].at \in {"chunks", "apply"}
  /\ cycle' = [cycle EXCEPT ![<<n, m>>] = Idle]
  /\ Release(<<n, m>>)
  /\ uneven' = uneven \cup HalfApplied({<<n, m>>})
  /\ faults' = faults + 1
  /\ UNCHANGED <<topology, tree, held, conn, base, turn, latest, synced, writes>>

\* A restart drops the cycle and leaves every peer Disconnected.
restart(n) ==
  /\ faults < topology.max_faults
  /\ conn' = [x \in Pulls |-> IF x[1] = n /\ conn[x] = "active" THEN "disconnected" ELSE conn[x]]
  /\ cycle' = [x \in Pulls |-> IF x[1] = n THEN Idle ELSE cycle[x]]
  /\ <<conn, cycle>> # <<conn', cycle'>>
  /\ locks' = {x \in locks : x[1] # n}
  /\ at_lock' = at_lock \ {n}
  /\ uneven' = uneven \cup HalfApplied({x \in Pulls : x[1] = n})
  /\ faults' = faults + 1
  /\ ~Merging
  /\ UNCHANGED <<topology, tree, held, base, turn, latest, synced, writes>>

-----------------------------------------------------------------------------
(* The in-process merge, taken in the order topology.rounds gives.         *)

NextTurn == (turn % Len(topology.rounds)) + 1
EndTurn == /\ turn' = NextTurn
           /\ synced' = (NextTurn = 1)

Round(n, m) == topology.rounds # <<>> /\ topology.rounds[turn] = <<n, m>> /\ cycle[<<n, m>>] = Idle

\* A plausible slip: the conflict names the loser as the winner.
SwappedSides(k, at) == [op |-> "put", kind |-> "files", path |-> Meta(k.path),
                        content |-> <<k.type, k.loser, k.winner, at>>]

\* store_conflict writes only the .meta file.
store_conflict(k, at) == [op |-> "put", kind |-> "files", path |-> Meta(k.path),
                          content |-> <<k.type, k.winner, k.loser, at>>]

transfer_missing_chunks(n, m) ==
  {<<p, tree[m].files[p].content>> : p \in DOMAIN tree[m].files}

(***************************************************************************)
(* With nothing to merge the peer's HEAD becomes the base: a root this     *)
(* node has only if the two HEADs are the same.                            *)
(***************************************************************************)
sync_with_local_engine(n, m, at) ==
  LET x == <<n, m>>
      local_diff == diff_trees(BaseTree(x), tree[n])
      remote_diff == diff_trees(BaseTree(x), tree[m])
      merged == three_way_merge(local_diff, filter_tree_diff_by_paths(remote_diff, topology.paths[x]))
      clashes == Sorted({k.path : k \in merged.conflicts})
      metas == [i \in DOMAIN clashes |->
                  store_conflict(CHOOSE k \in merged.conflicts : k.path = clashes[i], at)]
      same == tree[n] = tree[m]
  IN /\ Round(n, m)
     /\ IF same \/ (is_empty(local_diff) /\ is_empty(remote_diff))
        THEN /\ base' = [base EXCEPT ![x] = [root |-> tree[m], walkable |-> same]]
             /\ held' = IF same THEN held ELSE [held EXCEPT ![n] = @ \cup transfer_missing_chunks(n, m)]
             /\ EndTurn
             /\ UNCHANGED cycle
        ELSE /\ cycle' = [cycle EXCEPT ![x] = [at |-> "merge", root |-> EmptyTree,
                                               todo |-> merged.operations \o metas, applied |-> FALSE]]
             /\ held' = [held EXCEPT ![n] = @ \cup transfer_missing_chunks(n, m)
                                              \cup {<<Chunk, metas[i].content>> : i \in DOMAIN metas}]
             /\ UNCHANGED <<base, turn, synced>>
     /\ uneven' = IF base[x] = NoBase \/ base[x].walkable THEN uneven ELSE uneven \cup {n}
     /\ UNCHANGED <<topology, mutex, tree, conn, latest, writes, faults>>

\* A plausible slip: the first deletion ends the merge, what follows is dropped.
StopAtDelete(n, m, at) ==
  /\ cycle[<<n, m>>].at = "merge"
  /\ cycle[<<n, m>>].todo # <<>>
  /\ IF Head(cycle[<<n, m>>].todo).op = "put" THEN ApplyNext(<<n, m>>, at)
     ELSE /\ cycle' = [cycle EXCEPT ![<<n, m>>].todo = <<>>]
          /\ UNCHANGED <<topology, mutex, tree, held, conn, base, turn, ghosts, writes, faults>>

apply_merge_operations(n, m, at) ==
  /\ cycle[<<n, m>>].at = "merge"
  /\ ApplyNext(<<n, m>>, at)

\* The base saved is this node's own HEAD after the merge.
finish_merge(n, m) ==
  LET x == <<n, m>>
  IN /\ cycle[x].at = "merge"
     /\ cycle[x].todo = <<>>
     /\ base' = [base EXCEPT ![x] = [root |-> tree[n], walkable |-> TRUE]]
     /\ cycle' = [cycle EXCEPT ![x] = Idle]
     /\ EndTurn
     /\ UNCHANGED <<topology, mutex, tree, held, conn, latest, uneven, writes, faults>>

-----------------------------------------------------------------------------
Versions(t) == {<<p, t.files[p].content>> : p \in DOMAIN t.files}

(***************************************************************************)
(* Garbage collection keeps what HEAD reaches and, when snapshots pin      *)
(* them, the roots peers name as their base.                               *)
(***************************************************************************)
WalkedOn(x) == IF x \in topology.http THEN x[2] ELSE x[1]

run_gc(n, pinned) ==
  LET bases == {x \in Pulls : base[x].walkable /\ WalkedOn(x) = n}
      live == Versions(tree[n]) \cup (IF pinned THEN UNION {Versions(base[x].root) : x \in bases} ELSE {})
      held_after == {v \in held[n] : \E w \in live : v = w \/ (v[1] = Chunk /\ v[2] = w[2])}
  IN /\ faults < topology.max_faults
     /\ UnsafeGc \/ (pinned /\ \A x \in Pulls : n \in {x[1], x[2]} => cycle[x] = Idle)
     /\ held' = [held EXCEPT ![n] = held_after]
     /\ base' = [x \in Pulls |-> IF x \in bases /\ ~pinned THEN [base[x] EXCEPT !.walkable = (base[x].root = tree[n])] ELSE base[x]]
     /\ <<held, base>> # <<held', base'>>
     /\ faults' = faults + 1
     /\ UNCHANGED <<topology, mutex, tree, conn, cycle, turn, ghosts, writes>>

Next ==
  \/ \E n \in Nodes, p \in FilePaths, v \in Values, at \in topology.times : store_file(n, p, v, at)
  \/ \E n \in Nodes, p \in FilePaths : delete_file(n, p)
  \/ \E n \in Nodes, p \in LinkPaths, v \in Values, at \in topology.times : store_symlink(n, p, v, at)
  \/ \E n \in Nodes, p \in LinkPaths : delete_symlink(n, p)
  \/ \E n \in Nodes, p \in FilePaths, pick \in {"winner", "loser"}, at \in topology.times : resolve_conflict(n, p, pick, at)
  \/ \E n \in Nodes, p \in UserPaths : dismiss_conflict(n, p)
  \/ \E n, m \in Nodes : add_peer(n, m)
  \/ \E n, m \in Nodes : remove_peer(n, m)
  \/ \E n \in Nodes : trigger_sync(n)
  \/ \E n \in Nodes : leave_lock(n)
  \/ \E n, m \in Nodes : sync_diff(n, m)
  \/ \E n, m \in Nodes : sync_chunks(n, m)
  \/ \E n, m \in Nodes, at \in topology.stamps : apply_change(n, m, at)
  \/ \E n, m \in Nodes : save_sync_state(n, m)
  \/ \E n, m \in Nodes : cycle_fails(n, m)
  \/ \E n \in Nodes : restart(n)
  \/ \E n, m \in Nodes, at \in topology.stamps : sync_with_local_engine(n, m, at)
  \/ \E n, m \in Nodes, at \in topology.stamps : apply_merge_operations(n, m, at)
  \/ \E n, m \in Nodes : finish_merge(n, m)
  \/ \E n \in Nodes, pinned \in BOOLEAN : run_gc(n, pinned)

(***************************************************************************)
(* spawn_sync_loop ticks for ever and tries every active peer again, so a  *)
(* cycle that can take its next step does.  Clients, operators and faults  *)
(* owe nothing.                                                            *)
(***************************************************************************)
SyncLoop(n, m) == \/ sync_diff(n, m) \/ sync_chunks(n, m) \/ save_sync_state(n, m)
                  \/ \E at \in topology.stamps : apply_change(n, m, at)

Spec == /\ Init /\ [][Next]_vars
        /\ \A x \in HttpPulls : WF_vars(SyncLoop(x[1], x[2])) /\ WF_vars(leave_lock(x[1]))

-----------------------------------------------------------------------------
(* Properties.                                                             *)

\* Types of the replication state: files and links stay on paths of their own
\* kind or on conflict paths, and a sync in progress knows what is left to do.
TypeOK ==
  /\ topology \in Topologies
  /\ \A n \in Nodes : /\ DOMAIN tree[n].symlinks \subseteq LinkPaths
                      /\ \A p \in DOMAIN tree[n].files : p \in FilePaths \/ p[Len(p)] = 0
  /\ conn \in [Pulls -> {"absent", "disconnected", "active"}]
  /\ \A x \in Pulls : /\ cycle[x].at \in {"idle", "chunks", "apply", "merge"}
                      /\ cycle[x].at = "idle" => cycle[x] = Idle
                      /\ base[x].walkable \in BOOLEAN
  /\ locks \subseteq topology.http /\ at_lock \subseteq Nodes
  /\ turn \in 1..(Len(topology.rounds) + 1)
  /\ uneven \subseteq Nodes /\ synced \in BOOLEAN
  /\ writes \in 0..topology.max_writes /\ faults \in 0..topology.max_faults

On(t, paths) == [files    |-> Restrict(t.files, DOMAIN t.files \cap paths),
                 symlinks |-> Restrict(t.symlinks, DOMAIN t.symlinks \cap paths)]

\* The pulls of nodes that only replicate: they take no writes, sync from one
\* peer, and kept the base of their last cycle (no cycle of theirs was cut off
\* half applied and their peer was never removed).
Replicas == {x \in topology.http : /\ x[1] \notin topology.writers \cup uneven
                                   /\ \A y \in topology.http : y[1] = x[1] => y = x}

\* Between cycles a replica holds, on the paths it syncs, exactly what the
\* version it saved as its base holds (do_sync_cycle_remote saves the root of
\* the diff it applied).  The next diff starts from there, so this is what
\* makes applying only the difference enough, whatever the peer's clients,
\* failed cycles, restarts and collections did meanwhile.
ReplicaHoldsBase ==
  \A x \in Replicas :
    cycle[x].at \in {"idle", "chunks"} =>
      SameContents(On(tree[x[1]], topology.paths[x]), On(base[x].root, topology.paths[x]))

\* Whichever of the two nodes of an in-process sync merges, it ends with the
\* same files and links and names the same winners (three_way_merge:
\* "DETERMINISTIC and COMMUTATIVE"); and after every node merged its peer once
\* with no write in between, all hold the same user files and links
\* (sync_with_local_engine, both directions), as long as every base was a
\* version its node could walk (uneven).
MergeCommutes(x) ==
  LET mine == diff_trees(BaseTree(x), tree[x[1]])
      theirs == diff_trees(BaseTree(x), tree[x[2]])
      here == three_way_merge(mine, theirs)
      there == three_way_merge(theirs, mine)
  IN /\ here.conflicts = there.conflicts
     /\ SameContents(ApplyAll(tree[x[1]], here.operations), ApplyAll(tree[x[2]], there.operations))

RoundConverges ==
  \A x \in Range(topology.rounds) :
    /\ MergeCommutes(x)
    /\ synced /\ uneven = {} => SameContents(On(tree[x[1]], UserPaths), On(tree[x[2]], UserPaths))

At(n, p) == IF p \in DOMAIN tree[n].files THEN tree[n].files[p].content
            ELSE IF p \in DOMAIN tree[n].symlinks THEN tree[n].symlinks[p].content ELSE <<>>
LostTo(n, p) == IF Meta(p) \in DOMAIN tree[n].files THEN tree[n].files[Meta(p)].content[3] ELSE NoVersion

\* The version a client last gave a path is on some node, or a conflict file
\* says which version it lost to (docs/src/concepts/replication.md: "Work is
\* never silently lost").
WorkNeverSilentlyLost ==
  ~Merging => \A p \in UserPaths :
    latest[p] # <<>> => \E n \in Nodes : At(n, p) = latest[p] \/ LostTo(n, p) = Hash(latest[p])

\* However a cycle ends (saved, skipped, failed half way, dropped by a restart),
\* the pull does not keep its slot in sync_locks (SyncLockGuard: "Ensures the
\* lock is released even if the sync panics"): one that did would never sync
\* again.  With triggers beside the loop it does not hold (MCReplicationLock).
SlotReleased == \A x \in locks : cycle[x] # Idle

\* Once clients stop, a replica whose peer stays active ends with what its peer
\* has (spawn_sync_loop retries for ever; a chain of replicas settles link by
\* link), provided the files it misses fit one sync_chunks request.
Converges ==
  \A x \in HttpPulls :
    <>[](x \in Replicas /\ conn[x] = "active")
       => <>[]SameContents(On(tree[x[1]], topology.paths[x]), On(tree[x[2]], topology.paths[x]))

=============================================================================
