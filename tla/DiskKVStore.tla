---------------------------- MODULE DiskKVStore ----------------------------
(***************************************************************************)
(* The KV index of an aeordb file (engine/disk_kv_store.rs): a write       *)
(* buffer in memory over bucket pages in the file, with a hot buffer that  *)
(* is journalled to the hot tail after the last WAL entry.                 *)
(*                                                                         *)
(* The store is the record `kv`; its operations are operators that take    *)
(* and return a call, [kv |-> the store, io |-> the disk writes issued so  *)
(* far, in order].  StorageCore executes the writes one at a time, so that *)
(* a crash can come between any two of them.                               *)
(*                                                                         *)
(* WAL entries all have size one, so an offset is an entry's position.  A  *)
(* bucket page holds one key.  entry_count, a statistic that nothing here  *)
(* branches on, is left out; pages never overflow.                         *)
(***************************************************************************)
EXTENDS Integers, Sequences, FiniteSets

CONSTANT Setups   \* the keys, thresholds, bounds and faults of the instances to look at
VARIABLE setup    \* the one of Setups chosen at the start

Chunks == setup.chunks         \* content-addressed keys, the only ones that reuse voids
Files == setup.files           \* mutable path keys
Keys == setup.keys
HOT_BUFFER_THRESHOLD == setup.hot_threshold
WRITE_BUFFER_THRESHOLD == setup.write_threshold
PowerLoss == setup.power_loss  \* a crash may lose what was not synced

\* The key of the DeletionRecord written when f is deleted.
DeletionKey(f) == <<"deletion", f>>

ASSUME SetupAssumption ==
    \A s \in Setups :
        /\ s.keys = s.chunks \cup s.files \cup {DeletionKey(f) : f \in s.files}
        /\ {s.hot_threshold, s.write_threshold} \subseteq Nat \ {0}
        /\ s.power_loss \in BOOLEAN

(***************************************************************************)
(* A KVEntry is where a key's entry is and whether it is flagged deleted.  *)
(***************************************************************************)
KVEntry(offset) == [at |-> offset, deleted |-> FALSE]
Absent == KVEntry(0)
CorruptPage == KVEntry(-1)
Deleted(entry) == [entry EXCEPT !.deleted = TRUE]

NoEntries == [k \in Keys |-> Absent]
Held(entries) == {k \in Keys : entries[k] # Absent}

(***************************************************************************)
(* What an offset of the file can hold: an entry, a hot tail (the KV       *)
(* entries and the voids it carries), or nothing that parses.              *)
(***************************************************************************)
Blank == [kind |-> "blank"]
Entry(key, version) == [kind |-> "entry", key |-> key, version |-> version, whole |-> TRUE]
HotTail(writes, voids) == [kind |-> "hot", writes |-> writes, voids |-> voids]

(***************************************************************************)
(* Disk writes.  "hot" is write_hot_tail followed by set_len: what lies    *)
(* after the hot tail is cut off.  A sync shows only in a power loss.      *)
(***************************************************************************)
WriteEntry(offset, cell) == <<[op |-> "wal", at |-> offset, cell |-> cell]>>
WritePages(keys, entries) == <<[op |-> "pages", todo |-> keys, entries |-> entries]>>
NoSync == <<>>

Sync == IF PowerLoss THEN <<[op |-> "sync"]>> ELSE <<>>

HeaderUnsynced(header) == <<[op |-> "header", header |-> header]>> \o Sync

WriteHeader(header) == Sync \o <<[op |-> "header", header |-> header]>> \o Sync

----------------------------------------------------------------------------
valid_void_range_for_layout(kv, offset) == offset >= 1 /\ offset < kv.tail

sanitize_pending_voids(kv) ==
    [kv EXCEPT !.pending = {v \in @ : valid_void_range_for_layout(kv, v)}]

set_pending_voids(kv, voids) == sanitize_pending_voids([kv EXCEPT !.pending = voids])

set_hot_tail_offset(kv, offset) == [kv EXCEPT !.tail = IF offset > @ THEN offset ELSE @]

\* Everything the write buffer holds, and the voids, to the hot tail; synced.
force_flush_hot_buffer(call) ==
    LET kv == sanitize_pending_voids(call.kv)
    IN  [kv |-> kv,
         io |-> call.io
                \o <<[op |-> "hot", at |-> kv.tail, cell |-> HotTail(kv.buffer, kv.pending)]>>
                \o Sync]

flush_hot_buffer(call) ==
    IF call.kv.hot = 0
    THEN call
    ELSE LET written == force_flush_hot_buffer(call)
         IN  [written EXCEPT !.kv.hot = 0]

\* The write buffer to its pages; then the hot tail, now without writes.
flush(call) ==
    IF Held(call.kv.buffer) = {}
    THEN call
    ELSE LET paged == [kv |-> [call.kv EXCEPT !.buffer = NoEntries],
                       io |-> call.io \o WritePages(Held(call.kv.buffer), call.kv.buffer) \o Sync]
             cleared == flush_hot_buffer(paged)
         IN  IF cleared.kv.depth = 0
             THEN force_flush_hot_buffer(cleared)
             ELSE cleared

insert(call, key, entry) ==
    LET buffered == [call EXCEPT !.kv.buffer[key] = entry, !.kv.hot = @ + 1]
        journalled == IF buffered.kv.hot >= HOT_BUFFER_THRESHOLD
                      THEN flush_hot_buffer(buffered)
                      ELSE buffered
    IN  IF Cardinality(Held(journalled.kv.buffer)) >= WRITE_BUFFER_THRESHOLD
        THEN flush(journalled)
        ELSE journalled

\* update_flags and mark_deleted_batch: the flag goes to the write buffer only.
mark_deleted(kv, pages, keys) ==
    [kv EXCEPT !.buffer =
        [k \in Keys |-> IF k \notin keys THEN @[k]
                        ELSE IF @[k] # Absent THEN Deleted(@[k])
                        ELSE Deleted(pages[k])]]

get(kv, pages, key) == IF kv.buffer[key] # Absent THEN kv.buffer[key] ELSE pages[key]

Live(kv, pages, key) ==
    LET entry == get(kv, pages, key)
    IN  entry # Absent /\ ~entry.deleted

----------------------------------------------------------------------------
\* DiskKVStore::create: zeroed pages, and a store that knows nothing.
create(tail) ==
    [kv |-> [buffer |-> NoEntries, hot |-> 0, pending |-> {}, tail |-> tail, depth |-> 0],
     io |-> WritePages(Keys, NoEntries) \o Sync]

\* A page's entry whose range the hot tail lists as a void is masked, unless
\* the hot tail itself has an entry for its key.
open(pages, tail, hot) ==
    [buffer |-> [k \in Keys |->
                    IF hot.writes[k] # Absent THEN hot.writes[k]
                    ELSE IF pages[k].at \in hot.voids THEN Deleted(pages[k])
                    ELSE Absent],
     hot |-> 0, pending |-> hot.voids, tail |-> tail, depth |-> 0]
============================================================================
