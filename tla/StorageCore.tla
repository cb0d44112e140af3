---------------------------- MODULE StorageCore ----------------------------
(***************************************************************************)
(* The storage engine of aeordb (engine/storage_engine.rs) over one file:  *)
(* stores, batches, HEAD updates, transactions, deletions, GC sweeps, the  *)
(* hot tail timer, shutdown, crashes and the two ways of starting up.      *)
(*                                                                         *)
(* A lock section is one action.  It changes the memory at once and queues *)
(* the disk writes it makes, in order, in `io`; IoStep executes them one   *)
(* at a time, and no other section begins before they are done (the locks  *)
(* are held).  Operations that release their locks in between are several  *)
(* actions with a program counter: the timer, end_transaction, the forced  *)
(* hot tail flush, the sweep and shutdown.                                 *)
(*                                                                         *)
(* The file is kept twice: `file` is what a read returns (the page cache), *)
(* `disk` what has been synced.  A kill loses the memory; a power loss     *)
(* also leaves each unsynced location either old, new or torn.             *)
(***************************************************************************)
EXTENDS DiskKVStore, SequencesExt

\* What a setup says besides what DiskKVStore takes from it.
Batch == setup.batch               \* the path keys one flush_batch_and_update_head writes, in order
MaxOffset == setup.max_offset      \* bound: offsets of the file
MaxVersion == setup.max_version    \* bound: entries ever written
MaxCrashes == setup.max_crashes    \* bound: crashes
PageFaults == setup.page_faults    \* what a power loss may do to an unsynced page: "kept", "lost",
                                   \* "torn"; {} if there is none to be lost
TornChunks == setup.torn_chunks    \* it may leave an unsynced chunk with its header but not its payload
CrashInRepair == setup.crash_in_repair  \* a crash may come while a damaged index is being rebuilt
SweepChunks == setup.sweep_chunks  \* garbage collection sweeps chunks
SweepAlone == setup.sweep_alone    \* ... while nothing else writes
TreeRebuild == setup.tree_rebuild  \* rebuild_directory_tree may run

ASSUME CoreAssumption ==
    \A s \in Setups :
        /\ s.batch \in Seq(s.files) /\ s.batch # <<>>
        /\ {s.max_offset, s.max_version, s.max_crashes} \subseteq Nat
        /\ s.page_faults \subseteq {"kept", "lost", "torn"}
        /\ {s.torn_chunks, s.crash_in_repair, s.sweep_chunks, s.sweep_alone, s.tree_rebuild} \subseteq BOOLEAN

VARIABLES
    file,      \* [wal, pages, header] as the operating system shows them
    disk,      \* the same, as of the last sync of each location
    phase,     \* "down", "opening", "repairing", "up", "closing" or "closed"; in
               \* verify_and_repair "indexed", "verified", "persisting" or "repaired"
    io,        \* disk writes the current lock section still has to make
    kv,        \* kv_writer: the DiskKVStore
    writer,    \* the AppendWriter: [offset, header]
    voids,     \* the VoidManager
    txn,       \* where the one transaction is (namespace lock)
    timer,     \* where try_flush_hot_buffer is
    sweep,     \* where gc_sweep is
    deleting,  \* the deletion under way
    clock,     \* next_entry_timestamp
    latest,    \* per key: the last version written or deleted
    acked,     \* per key: `latest` as of the last flush that made it durable
    crashes

engine == <<phase, io, kv, writer, voids, txn, timer, sweep, deleting>>
vars == <<file, disk, engine, clock, latest, acked, crashes, setup>>

----------------------------------------------------------------------------
Offsets == 1 .. MaxOffset
Root == Batch[Len(Batch)]

Header == [hot_tail_offset : Offsets, head : 0 .. MaxVersion]

\* What a client may rely on for a key: `version` or a later one is there, or
\* (gone) is not there; version 0 is no promise either way.
NoPromise == [version |-> 0, gone |-> FALSE]
Stored(version) == [version |-> version, gone |-> FALSE]
Removed(version) == [version |-> version, gone |-> TRUE]

Idle == [at |-> "idle"]

Versions == 0 .. MaxVersion
KVEntries == [at : {-1, 0} \cup Offsets, deleted : BOOLEAN]

\* create_with_hot_dir: zeroed pages, an empty hot tail and a header, all synced.
Init ==
    /\ setup \in Setups
    /\ file = [wal |-> [o \in Offsets |-> IF o = 1 THEN HotTail(NoEntries, {}) ELSE Blank],
               pages |-> NoEntries,
               header |-> [hot_tail_offset |-> 1, head |-> 0]]
    /\ disk = file
    /\ phase = "up"
    /\ io = <<>>
    /\ kv = create(1).kv
    /\ writer = [offset |-> 1, header |-> file.header]
    /\ voids = {}
    /\ txn = [at |-> "none"]
    /\ timer = Idle /\ sweep = Idle /\ deleting = Idle
    /\ clock = 0
    /\ latest = [k \in Keys |-> NoPromise]
    /\ acked = latest
    /\ crashes = 0

----------------------------------------------------------------------------
(* Disk writes *)

Issue(call) == kv' = call.kv /\ io' = call.io

\* A flush that makes what is written so far durable ends with this.
Ack == <<[op |-> "ack"]>>

\* Executes the first write of the queue; a "pages" write is one page.
IoStep ==
    /\ io # <<>>
    /\ LET w == Head(io)
       IN  \/ /\ w.op = "wal"
              /\ file' = [file EXCEPT !.wal[w.at] = w.cell]
              /\ io' = Tail(io)
              /\ UNCHANGED <<disk, acked>>
           \/ /\ w.op = "pages"
              /\ \E k \in w.todo :
                   /\ file' = [file EXCEPT !.pages[k] = w.entries[k]]
                   /\ io' = IF w.todo = {k} THEN Tail(io)
                            ELSE [io EXCEPT ![1].todo = @ \ {k}]
              /\ UNCHANGED <<disk, acked>>
           \/ /\ w.op = "hot"
              /\ file' = [file EXCEPT !.wal =
                            [o \in Offsets |-> IF o < w.at THEN @[o]
                                               ELSE IF o = w.at THEN w.cell ELSE Blank]]
              /\ io' = Tail(io)
              /\ UNCHANGED <<disk, acked>>
           \/ /\ w.op = "header"
              /\ file' = [file EXCEPT !.header = w.header]
              /\ io' = Tail(io)
              /\ UNCHANGED <<disk, acked>>
           \/ /\ w.op = "sync"
              /\ disk' = file
              /\ io' = Tail(io)
              /\ UNCHANGED <<file, acked>>
           \/ /\ w.op = "ack"
              /\ acked' = latest
              /\ io' = Tail(io)
              /\ UNCHANGED <<file, disk>>
    /\ UNCHANGED <<phase, kv, writer, voids, txn, timer, sweep, deleting, clock, latest, crashes, setup>>

\* The locks are free and the engine accepts operations.
Ready == phase = "up" /\ io = <<>>

IsLive(k) == Live(kv, file.pages, k)

\* What a read at the offset the index gives for k finds.
Cell(k) ==
    LET offset == get(kv, file.pages, k).at
    IN  IF offset \in Offsets THEN file.wal[offset] ELSE Blank

Found(k) == IsLive(k) /\ Cell(k).kind = "entry" /\ Cell(k).key = k
Version(k) == IF Found(k) THEN Cell(k).version ELSE 0

----------------------------------------------------------------------------
(* Writing *)

MayWrite(n) ==
    /\ Ready
    /\ SweepAlone => sweep = Idle
    /\ clock + n <= MaxVersion

find_void(space) ==
    CHOOSE v \in space : \A u \in space : v <= u

\* store_entry_internal for a chunk: into the smallest void that fits, else at
\* the WAL's end.  The pending voids are refreshed after the insert.
StoreChunk(c) ==
    /\ MayWrite(1)
    /\ ~IsLive(c)
    /\ LET offset == IF voids # {} THEN find_void(voids) ELSE writer.offset
           end == IF voids # {} THEN writer.offset ELSE writer.offset + 1
           call == insert([kv |-> set_hot_tail_offset(kv, end),
                           io |-> WriteEntry(offset, Entry(c, clock + 1))],
                          c, KVEntry(offset))
       IN  /\ end <= MaxOffset
           /\ voids' = voids \ {offset}
           /\ Issue(IF voids # {}
                    THEN [call EXCEPT !.kv = set_pending_voids(@, voids \ {offset})]
                    ELSE call)
           /\ writer' = [writer EXCEPT !.offset = end]
    /\ clock' = clock + 1
    /\ latest' = [latest EXCEPT ![c] = Stored(clock + 1)]
    /\ UNCHANGED <<file, disk, phase, txn, timer, sweep, deleting, acked, crashes, setup>>

\* store_chunk when has_entry says the chunk is there: nothing is written, and
\* the caller goes on as if it had been.
DedupChunk(c) ==
    /\ MayWrite(0)
    /\ IsLive(c)
    /\ latest' = [latest EXCEPT ![c] = Stored(Version(c))]
    /\ UNCHANGED <<file, disk, engine, clock, acked, crashes, setup>>

\* append_entry for each key, then insert for each key, as flush_batch does.
append_entries(keys) ==
    LET n == Len(keys)
        appended == [kv |-> set_hot_tail_offset(kv, writer.offset + n),
                     io |-> FlattenSeq([i \in 1 .. n |->
                                WriteEntry(writer.offset + i - 1, Entry(keys[i], clock + i))])]
    IN  FoldLeftDomain(LAMBDA call, i : insert(call, keys[i], KVEntry(writer.offset + i - 1)),
                       appended, keys)

Written(keys) ==
    /\ clock' = clock + Len(keys)
    /\ latest' = [k \in Keys |->
                    IF \E i \in DOMAIN keys : keys[i] = k
                    THEN Stored(clock + (CHOOSE i \in DOMAIN keys : keys[i] = k))
                    ELSE latest[k]]

\* store_entry and store_entry_typed for anything but a chunk.
StoreEntry(f) ==
    /\ MayWrite(1)
    /\ writer.offset < MaxOffset
    /\ deleting = Idle
    /\ Issue(append_entries(<<f>>))
    /\ writer' = [writer EXCEPT !.offset = @ + 1]
    /\ Written(<<f>>)
    /\ UNCHANGED <<file, disk, phase, voids, txn, timer, sweep, deleting, acked, crashes, setup>>

\* HEAD advances in memory inside a transaction, in the file outside one.
PublishHead(call, header) ==
    /\ writer' = [offset |-> header.hot_tail_offset, header |-> header]
    /\ Issue(IF kv.depth > 0 THEN call ELSE [call EXCEPT !.io = @ \o WriteHeader(header)])

\* Batches of directory entries are published under the namespace lock, in the
\* open transaction; only rebuild_directory_tree does it without one.
MayPublish(n) ==
    /\ MayWrite(n)
    /\ writer.offset + n <= MaxOffset
    /\ deleting = Idle
    /\ txn.at = "open" \/ (txn.at = "none" /\ TreeRebuild)

flush_batch ==
    /\ MayPublish(Len(Batch))
    /\ Issue(append_entries(Batch))
    /\ writer' = [writer EXCEPT !.offset = @ + Len(Batch)]
    /\ Written(Batch)
    /\ UNCHANGED <<file, disk, phase, voids, txn, timer, sweep, deleting, acked, crashes, setup>>

flush_batch_and_update_head ==
    /\ MayPublish(Len(Batch))
    /\ PublishHead(append_entries(Batch), [hot_tail_offset |-> writer.offset + Len(Batch),
                                           head |-> clock + Len(Batch)])
    /\ Written(Batch)
    /\ UNCHANGED <<file, disk, phase, voids, txn, timer, sweep, deleting, acked, crashes, setup>>

\* HEAD to a root that is already stored (restore_snapshot, promote_fork, ...).
update_head ==
    /\ MayWrite(0)
    /\ txn.at \in {"none", "open"}
    /\ Found(Root)
    /\ PublishHead([kv |-> kv, io |-> <<>>],
                   [hot_tail_offset |-> writer.offset, head |-> Version(Root)])
    /\ UNCHANGED <<file, disk, phase, voids, txn, timer, sweep, deleting,
                   clock, latest, acked, crashes, setup>>

----------------------------------------------------------------------------
(* Deleting *)

\* delete_file stores the DeletionRecord and then flags the entry, inside its
\* transaction; delete_snapshot and abandon_fork flag first.
BeginDelete(f, first) ==
    /\ MayWrite(1)
    /\ deleting = Idle
    /\ f # Root
    /\ IsLive(f)
    /\ first = "record" => txn.at = "open"
    /\ deleting' = [at |-> first, file |-> f]
    /\ latest' = [latest EXCEPT ![f] = NoPromise]
    /\ acked' = [acked EXCEPT ![f] = NoPromise]
    /\ UNCHANGED <<file, disk, phase, io, kv, writer, voids, txn, timer, sweep, clock, crashes, setup>>

AdvanceDelete(then) ==
    IF then = "done"
    THEN /\ deleting' = Idle
         /\ latest' = [latest EXCEPT ![deleting.file] = Removed(clock')]
    ELSE /\ deleting' = [deleting EXCEPT !.at = then]
         /\ latest' = latest

StoreDeletionRecord(now, then) ==
    /\ MayWrite(1)
    /\ deleting.at = now
    /\ writer.offset < MaxOffset
    /\ Issue(append_entries(<<DeletionKey(deleting.file)>>))
    /\ writer' = [writer EXCEPT !.offset = @ + 1]
    /\ clock' = clock + 1
    /\ AdvanceDelete(then)
    /\ UNCHANGED <<file, disk, phase, voids, txn, timer, sweep, acked, crashes, setup>>

mark_entry_deleted(now, then) ==
    /\ MayWrite(0)
    /\ deleting.at = now
    /\ kv' = mark_deleted(kv, file.pages, {deleting.file})
    /\ clock' = clock
    /\ AdvanceDelete(then)
    /\ UNCHANGED <<file, disk, phase, io, writer, voids, txn, timer, sweep, acked, crashes, setup>>

delete_file ==
    \/ \E f \in Files : BeginDelete(f, "record")
    \/ StoreDeletionRecord("record", "flag_last")
    \/ mark_entry_deleted("flag_last", "done")

delete_snapshot ==
    \/ \E f \in Files : BeginDelete(f, "flag")
    \/ mark_entry_deleted("flag", "record_last")
    \/ StoreDeletionRecord("record_last", "done")

----------------------------------------------------------------------------
(* Transactions: the namespace lock admits one at a time *)

begin_transaction ==
    /\ Ready
    /\ txn.at = "none"
    /\ kv' = [kv EXCEPT !.depth = @ + 1]
    /\ txn' = [at |-> "open"]
    /\ UNCHANGED <<file, disk, phase, io, writer, voids, timer, sweep, deleting,
                   clock, latest, acked, crashes, setup>>

saturating_sub(depth) == IF depth > 0 THEN depth - 1 ELSE 0

\* The sections of end_transaction: the depth, the WAL sync, the hot tail, the header.
end_transaction ==
    /\ Ready
    /\ \/ /\ txn.at = "open"
          /\ deleting.at \notin {"record", "flag_last"}
          /\ kv' = [kv EXCEPT !.depth = saturating_sub(@)]
          /\ txn' = [txn EXCEPT !.at = "sync"]
          /\ UNCHANGED <<io, writer>>
       \/ /\ txn.at = "sync"
          /\ io' = Sync
          /\ txn' = [txn EXCEPT !.at = "hot"]
          /\ UNCHANGED <<kv, writer>>
       \/ /\ txn.at = "hot"
          /\ LET call == force_flush_hot_buffer([kv |-> kv, io |-> <<>>])
             IN  Issue([call EXCEPT !.io = @ \o Ack])
          /\ txn' = [at |-> "header", offset |-> kv.tail]
          /\ UNCHANGED writer
       \/ /\ txn.at = "header"
          /\ LET header == [writer.header EXCEPT !.hot_tail_offset = txn.offset]
             IN  writer' = [writer EXCEPT !.header = header] /\ io' = WriteHeader(header)
          /\ txn' = [at |-> "none"]
          /\ UNCHANGED kv
    /\ UNCHANGED <<file, disk, phase, voids, timer, sweep, deleting, clock, latest, acked, crashes, setup>>

----------------------------------------------------------------------------
(* The hot tail timer.  It only ever tries its locks: it may give up at any *)
(* section.                                                                 *)

Running == phase \in {"up", "closing", "closed"} /\ io = <<>>

try_flush_hot_buffer ==
    /\ Running
    /\ \/ /\ timer.at = "idle"
          /\ kv.hot > 0
          /\ io' = Sync
          /\ timer' = [at |-> "hot"]
          /\ UNCHANGED <<kv, writer>>
       \/ /\ timer.at = "hot"
          /\ kv.hot > 0
          /\ LET call == flush_hot_buffer([kv |-> kv, io |-> <<>>])
             IN  Issue([call EXCEPT !.io = @ \o Ack])
          /\ timer' = IF kv.depth = 0 THEN [at |-> "header", offset |-> kv.tail] ELSE Idle
          /\ UNCHANGED writer
       \/ /\ timer.at = "header"
          /\ LET header == [writer.header EXCEPT !.hot_tail_offset = timer.offset]
             IN  writer' = [writer EXCEPT !.header = header] /\ io' = WriteHeader(header)
          /\ timer' = Idle
          /\ UNCHANGED kv
       \/ /\ timer.at # "idle"
          /\ timer' = Idle
          /\ UNCHANGED <<io, kv, writer>>
    /\ UNCHANGED <<file, disk, phase, voids, txn, sweep, deleting, clock, latest, acked, crashes, setup>>

----------------------------------------------------------------------------
(* gc_sweep, from the removal of the entries found unreachable on *)

remove_kv_entries_batch ==
    /\ Ready
    /\ SweepChunks
    /\ sweep.at = "idle"
    /\ SweepAlone => txn.at = "none" /\ deleting = Idle
    /\ \E garbage \in SUBSET {c \in Chunks : IsLive(c)} :
         /\ garbage # {}
         /\ kv' = mark_deleted(kv, file.pages, garbage)
         /\ sweep' = [at |-> "register",
                      freed |-> {get(kv, file.pages, c).at : c \in garbage}]
         /\ latest' = [k \in Keys |-> IF k \in garbage THEN NoPromise ELSE latest[k]]
         /\ acked' = [k \in Keys |-> IF k \in garbage THEN NoPromise ELSE acked[k]]
    /\ UNCHANGED <<file, disk, phase, io, writer, voids, txn, timer, deleting, clock, crashes, setup>>

\* force_hot_tail_flush, section by section.
force_hot_tail_flush ==
    \/ /\ sweep.at = "sync"
       /\ io' = Sync
       /\ sweep' = [at |-> "hot"]
       /\ UNCHANGED <<kv, writer>>
    \/ /\ sweep.at = "hot"
       /\ LET call == force_flush_hot_buffer([kv |-> kv, io |-> <<>>])
          IN  Issue([call EXCEPT !.io = @ \o Ack])
       /\ sweep' = IF kv.depth = 0 THEN [at |-> "header", offset |-> kv.tail] ELSE Idle
       /\ UNCHANGED writer
    \/ /\ sweep.at = "header"
       /\ LET header == [writer.header EXCEPT !.hot_tail_offset = sweep.offset]
          IN  writer' = [writer EXCEPT !.header = header] /\ io' = WriteHeader(header)
       /\ sweep' = Idle
       /\ UNCHANGED kv

\* register_void, then sync_voids_to_kv_writer (the voids are read under one
\* lock and stored under another), then the forced flush.
gc_sweep ==
    /\ Running
    /\ \/ /\ sweep.at = "register"
          /\ voids' = voids \cup sweep.freed
          /\ sweep' = [at |-> "collect"]
          /\ UNCHANGED <<io, kv, writer>>
       \/ /\ sweep.at = "collect"
          /\ sweep' = [at |-> "mirror", voids |-> voids]
          /\ UNCHANGED <<io, kv, writer, voids>>
       \/ /\ sweep.at = "mirror"
          /\ kv' = set_pending_voids(kv, sweep.voids)
          /\ sweep' = [at |-> "sync"]
          /\ UNCHANGED <<io, writer, voids>>
       \/ force_hot_tail_flush /\ UNCHANGED voids
    /\ UNCHANGED <<file, disk, phase, txn, timer, deleting, clock, latest, acked, crashes, setup>>

----------------------------------------------------------------------------
(* Shutdown: the operations have drained *)

ShutdownSections(now, flushed, done) ==
    /\ io = <<>>
    /\ \/ /\ phase = now
          /\ txn.at = "none" /\ deleting = Idle
          /\ Issue(flush_hot_buffer(flush([kv |-> kv, io |-> <<>>])))
          /\ phase' = flushed
          /\ UNCHANGED writer
       \/ /\ phase = flushed
          /\ LET header == [writer.header EXCEPT !.hot_tail_offset = kv.tail]
             IN  /\ writer' = [writer EXCEPT !.header = header]
                 /\ io' = WriteHeader(header) \o Ack
          /\ phase' = done
          /\ UNCHANGED kv
    /\ UNCHANGED <<file, disk, voids, txn, timer, sweep, deleting, clock, latest, acked, crashes, setup>>

shutdown == ShutdownSections("up", "closing", "closed")

\* The process ends: its memory is gone.
Ended ==
    /\ phase' = "down"
    /\ io' = <<>>
    /\ kv' = create(1).kv
    /\ writer' = [offset |-> 1, header |-> [hot_tail_offset |-> 1, head |-> 0]]
    /\ voids' = {}
    /\ txn' = [at |-> "none"]
    /\ timer' = Idle /\ sweep' = Idle /\ deleting' = Idle

Exit ==
    /\ phase \in {"closed", "repaired"} /\ io = <<>>
    /\ Ended
    /\ UNCHANGED <<file, disk, clock, latest, acked, crashes, setup>>

----------------------------------------------------------------------------
(* Crashes *)

MayCrash ==
    /\ crashes < MaxCrashes
    /\ phase # "down"
    /\ phase \in {"repairing", "indexed", "verified", "persisting"} => CrashInRepair

\* What was written but never promised may be lost.
Crashed ==
    /\ Ended
    /\ crashes' = crashes + 1
    /\ latest' = [k \in Keys |-> IF latest[k] = acked[k] THEN latest[k] ELSE NoPromise]
    /\ UNCHANGED <<clock, acked, setup>>

Kill ==
    /\ MayCrash
    /\ Crashed
    /\ UNCHANGED <<file, disk>>

Torn(cell) ==
    IF TornChunks /\ cell.kind = "entry" /\ cell.key \in Chunks
    THEN [cell EXCEPT !.whole = FALSE]
    ELSE Blank

\* Each location that differs from what was synced is lost, torn or kept.
LosePower ==
    /\ PowerLoss
    /\ MayCrash
    /\ LET unsynced == {o \in Offsets : file.wal[o] # disk.wal[o]}
           unsyncedPages == {k \in Keys : file.pages[k] # disk.pages[k]}
       IN  \E wal \in [unsynced -> {"kept", "lost", "torn"}],
              pages \in [unsyncedPages -> PageFaults],
              header \in {file.header, disk.header} :
             file' = [wal |-> [o \in Offsets |->
                                 IF o \notin unsynced \/ wal[o] = "kept" THEN file.wal[o]
                                 ELSE IF wal[o] = "lost" THEN disk.wal[o]
                                 ELSE Torn(file.wal[o])],
                      pages |-> [k \in Keys |->
                                 IF k \notin unsyncedPages \/ pages[k] = "kept" THEN file.pages[k]
                                 ELSE IF pages[k] = "lost" THEN disk.pages[k]
                                 ELSE CorruptPage],
                      header |-> header]
    /\ disk' = file'
    /\ Crashed

----------------------------------------------------------------------------
(* Startup *)

EntryOffsets == {o \in Offsets : file.wal[o].kind = "entry"}

NewestRecord(offsets) ==
    CHOOSE o \in offsets : \A p \in offsets : file.wal[p].version <= file.wal[o].version

\* The newest entry of each key; deleted if a DeletionRecord is newer still.
\* Chunk payloads are not read.
resolve_rebuild_records ==
    LET Of(k) == {o \in EntryOffsets : file.wal[o].key = k}
        DeletedSince(k) ==
            /\ k \in Files
            /\ \E o \in Of(DeletionKey(k)) :
                 file.wal[o].version > file.wal[NewestRecord(Of(k))].version
    IN  [k \in Keys |-> IF Of(k) = {} THEN Absent
                        ELSE IF DeletedSince(k) THEN Deleted(KVEntry(NewestRecord(Of(k))))
                        ELSE KVEntry(NewestRecord(Of(k)))]

LiveRanges(entries) == {entries[k].at : k \in {k \in Held(entries) : ~entries[k].deleted}}

\* Offsets before the last live entry that no live entry has.
recover_voids_via_gap_scan(entries) ==
    {o \in Offsets \ LiveRanges(entries) : \E r \in LiveRanges(entries) : o < r}

rebuild_kv ==
    LET entries == resolve_rebuild_records
        wal_end == Max({file.header.hot_tail_offset} \cup {o + 1 : o \in EntryOffsets})
        created == create(wal_end)
        call == flush([created EXCEPT !.kv.buffer = entries])
        header == [file.header EXCEPT !.hot_tail_offset = wal_end]
    IN  /\ voids' = recover_voids_via_gap_scan(entries)
        /\ Issue([kv |-> set_pending_voids(call.kv, voids'), io |-> call.io \o WriteHeader(header)])
        /\ writer' = [offset |-> wal_end, header |-> header]

PagesTrusted == FALSE

detected_kv_corruption == \E k \in Keys : file.pages[k] = CorruptPage

\* Dirty if there is no hot tail where the header says, or a page fails its CRC.
open_internal ==
    /\ phase = "down"
    /\ LET offset == file.header.hot_tail_offset
           hot == file.wal[offset]
           filtered == [hot EXCEPT !.voids = {v \in @ : v < offset}]
       IN  IF hot.kind # "hot" \/ detected_kv_corruption
           THEN rebuild_kv
           ELSE /\ kv' = open(file.pages, offset, filtered)
                /\ io' = <<>>
                /\ writer' = [offset |-> offset, header |-> file.header]
                /\ voids' = filtered.voids
    /\ phase' = IF detected_kv_corruption THEN "repairing" ELSE "opening"
    /\ UNCHANGED <<file, disk, txn, timer, sweep, deleting, clock, latest, acked, crashes, setup>>

Opened ==
    /\ phase \in {"opening", "repairing"} /\ io = <<>>
    /\ phase' = "up"
    /\ UNCHANGED <<file, disk, io, kv, writer, voids, txn, timer, sweep, deleting,
                   clock, latest, acked, crashes, setup>>

----------------------------------------------------------------------------
(* Verification of the opened database, before anything else uses it *)

\* The entries the scanner yields: up to the hot tail the header on disk names,
\* or to the end of the file when that is the start of the WAL.
ScannedOffsets ==
    {o \in EntryOffsets : /\ file.wal[o].whole
                         /\ file.header.hot_tail_offset > 1 => o < file.header.hot_tail_offset}

\* check_hot_tail_voids: the valid ranges of the hot tail on disk.
check_hot_tail_voids ==
    LET offset == file.header.hot_tail_offset
        hot == file.wal[offset]
    IN  IF hot.kind = "hot" THEN {v \in hot.voids : v >= 1 /\ v < offset} ELSE {}

\* should_replace_expected_entry picks the newest entry of each key.
ExpectedEntry(k) == NewestRecord({o \in ScannedOffsets : file.wal[o].key = k})

NeverDeleted(k) == FALSE

\* remove_expected_if_older, for the DeletionRecords of k's path.
DeletionApplies(k) ==
    /\ k \in Files
    /\ \E o \in ScannedOffsets :
         /\ file.wal[o].key = DeletionKey(k)
         /\ file.wal[o].version > file.wal[ExpectedEntry(k)].version

\* What the index should hold: what the WAL has, less what swept ranges cover
\* and what was deleted since.
ExpectedKeys ==
    {k \in {file.wal[o].key : o \in ScannedOffsets} :
        ExpectedEntry(k) \notin check_hot_tail_voids /\ ~DeletionApplies(k)}

LiveKeys == {k \in Keys : IsLive(k)}
missing_kv_entries == ExpectedKeys \ LiveKeys
stale_kv_entries == LiveKeys \ ExpectedKeys

file_records == {o \in ScannedOffsets : file.wal[o].key \in Files}

\* The index is rebuilt if it disagrees with the WAL, the directory tree (the
\* root here) if entries were missing, which may fail, and the repairs are
\* persisted by a shutdown.
verify_and_repair ==
    \/ /\ phase = "opening" /\ io = <<>>
       /\ missing_kv_entries \cup stale_kv_entries # {}
       /\ rebuild_kv
       /\ phase' = IF missing_kv_entries # {} /\ file_records # {} THEN "indexed" ELSE "verified"
       /\ UNCHANGED <<file, disk, txn, timer, sweep, deleting, clock, latest, acked, crashes, setup>>
    \/ /\ phase = "indexed" /\ io = <<>>
       /\ phase' = "verified"
       /\ \/ /\ clock < MaxVersion /\ writer.offset < MaxOffset
             /\ PublishHead(append_entries(<<Root>>),
                            [hot_tail_offset |-> writer.offset + 1, head |-> clock + 1])
             /\ Written(<<Root>>)
          \/ UNCHANGED <<io, kv, writer, clock, latest>>
       /\ UNCHANGED <<file, disk, voids, txn, timer, sweep, deleting, acked, crashes, setup>>
    \/ ShutdownSections("verified", "persisting", "repaired")

----------------------------------------------------------------------------
Next ==
    \/ IoStep
    \/ \E c \in Chunks : StoreChunk(c) \/ DedupChunk(c)
    \/ \E f \in Files : StoreEntry(f)
    \/ flush_batch \/ flush_batch_and_update_head \/ update_head
    \/ delete_file \/ delete_snapshot
    \/ begin_transaction \/ end_transaction
    \/ try_flush_hot_buffer
    \/ remove_kv_entries_batch \/ gc_sweep
    \/ shutdown \/ Exit
    \/ Kill \/ LosePower
    \/ open_internal \/ Opened \/ verify_and_repair

Spec == Init /\ [][Next]_vars

----------------------------------------------------------------------------
(* Properties *)

\* No lock is held and the engine is open.
Quiet == phase \in {"up", "closing", "closed"} /\ io = <<>>

\* Every key the index calls live is at the offset the index gives for it: no
\* append, reused void, hot tail or rebuild has put anything else there, no
\* crash has left it torn, and the void manager does not hand its space out.
IndexPointsAtEntry ==
    Quiet => \A k \in Keys : IsLive(k) =>
        Found(k) /\ Cell(k).whole /\ get(kv, file.pages, k).at \notin voids

\* What a transaction, the timer, a sweep or a shutdown flushed is still there
\* after any crash and startup: an entry at that version or a newer one, a
\* deletion not undone.
AckedWritesSurvive ==
    Quiet => \A k \in Keys :
        acked[k].version > 0 =>
            IF acked[k].gone
            THEN IsLive(k) => Version(k) > acked[k].version
            ELSE Found(k) /\ Version(k) >= acked[k].version

\* One verify_and_repair is enough: when it has rebuilt the index, and still when
\* it has persisted that, another verify finds no entry of the WAL missing from
\* the index and none in the index that the WAL does not have.
RepairSettles ==
    phase \in {"verified", "repaired"} /\ io = <<>> =>
        missing_kv_entries = {} /\ stale_kv_entries = {}

\* The root directory HEAD names is in the index, at that version or newer.
HeadIsIndexed ==
    Quiet => LET head == writer.header.head
             IN  head > 0 => Found(Root) /\ Version(Root) >= head
============================================================================
