---------------------------- MODULE IndexBuffer ----------------------------
(***************************************************************************)
(* The engine-wide index write buffer (engine/index_store.rs) and the      *)
(* paths that feed it: metadata indexing after a store, the background     *)
(* index cleanup after a delete, and the flushes of several threads.       *)
(*                                                                         *)
(* One directory is modelled.  A file is a number (its place in the path   *)
(* order); its content is the version it was last stored with, 0 for no    *)
(* file.  An index maps every file to the version it was indexed with, 0   *)
(* for no entry.  The buffer's critical sections are single actions: the   *)
(* code releases the buffer lock around every disk read and write, so a    *)
(* disk read and the update that uses it, a flush snapshot and each of its *)
(* writes, are steps of their own.                                         *)
(***************************************************************************)
EXTENDS Naturals, FiniteSets, Sequences

CONSTANTS
  Files,        \* file paths of the directory, as numbers in path order
  Fields,       \* index keys: field name and strategy
  MetaFields,   \* the fields whose name starts with '@'
  Clients,      \* request threads
  NoIndex,      \* no index under a key
  NoField,      \* a job between two fields
  NotCached,    \* no entry in the index config cache
  MaxVersion,   \* bound: files are stored at most this many times
  InitialFiles  \* the files stored and indexed at the start

ASSUME IndexBufferAssumption ==
  /\ Files \subseteq Nat \ {0} /\ IsFiniteSet(Files)
  /\ InitialFiles \subseteq Files
  /\ MetaFields \subseteq Fields
  /\ MaxVersion \in Nat \ {0}
  /\ Clients \cap {"worker", "timer", "cleaner"} = {}
  /\ NoField \notin Fields /\ NoIndex \notin [Files -> 0..MaxVersion]

VARIABLES
  content,      \* the FileRecords: file -> version stored, 0 when absent
  clock,        \* the last version given out
  config,       \* fields of the stored indexes.json
  cachedConfig, \* its entry in index_config_cache
  indexes,      \* the buffer's cached indexes
  dirtyKeys, deletedKeys, pending,
  disk,         \* the index files
  job,          \* per thread: the index update or removal in progress
  flush,        \* per thread: the flush snapshot being written
  cleanup,      \* paths queued for the background index cleanup
  faults,       \* faults still to come: failed writes, crashes, shutdowns
  blame         \* hazards met so far, each named where it is recorded

bufferVars == <<indexes, dirtyKeys, deletedKeys, pending>>
indexVars == <<content, clock, config, cachedConfig, indexes, dirtyKeys, deletedKeys,
               pending, disk, job, flush, cleanup, faults, blame>>

Threads == Clients \cup {"worker", "timer", "cleaner"}
Versions == 0..MaxVersion
Index == [Files -> Versions]
EmptyIndex == [f \in Files |-> 0]
Job == [op : {"update", "remove"}, file : Files, todo : SUBSET Fields, data : Versions,
        field : Fields \cup {NoField}, value : Versions, held : Index \cup {NoIndex}]
IdleJob == [op |-> "idle", file |-> 0, todo |-> {}, data |-> 0, field |-> NoField,
            value |-> 0, held |-> NoIndex]
Snapshots == UNION {[S -> Index] : S \in SUBSET Fields}
Flush == [saves : Snapshots, deletes : SUBSET Fields, unsaved : SUBSET Fields, undeleted : SUBSET Fields,
          failed : BOOLEAN]
NoFlush == [saves |-> [k \in {} |-> EmptyIndex], deletes |-> {}, unsaved |-> {}, undeleted |-> {},
            failed |-> FALSE]
FailedFlush == [NoFlush EXCEPT !.failed = TRUE]

\* A snapshot is being written until every save and every delete is.
Flushing(t) == flush[t].unsaved \cup flush[t].undeleted # {}

IndexTypeOK ==
  /\ content \in [Files -> Versions]
  /\ clock \in Versions
  /\ config \subseteq Fields
  /\ cachedConfig \in (SUBSET Fields) \cup {NotCached}
  /\ indexes \in [Fields -> Index \cup {NoIndex}]
  /\ disk \in [Fields -> Index \cup {NoIndex}]
  /\ dirtyKeys \subseteq Fields
  /\ deletedKeys \subseteq Fields
  /\ pending \in BOOLEAN
  /\ job \in [Threads -> Job \cup {IdleJob}]
  /\ flush \in [Threads -> Flush]
  /\ cleanup \subseteq Files
  /\ faults \in Nat

\* A quiet database: its files are stored and in the metadata indexes.
IndexInit ==
  /\ content = [f \in Files |-> IF f \in InitialFiles THEN 1 ELSE 0]
  /\ clock = 1
  /\ config = MetaFields
  /\ cachedConfig = NotCached
  /\ indexes = [k \in Fields |-> NoIndex]
  /\ disk = [k \in Fields |-> IF k \in MetaFields THEN content ELSE NoIndex]
  /\ dirtyKeys = {} /\ deletedKeys = {} /\ pending = FALSE
  /\ job = [t \in Threads |-> IdleJob]
  /\ flush = [t \in Threads |-> NoFlush]
  /\ cleanup = {}
  /\ blame = {}

-----------------------------------------------------------------------------
(* Reading.                                                                *)

\* IndexConfigResolver::load_config through the cache: the cached config
\* when there is one, else the stored one, which the get then caches.
load_config == IF cachedConfig = NotCached THEN config ELSE cachedConfig

\* load_index_by_strategy: what a query of field k sees.
View(k) == IF k \in deletedKeys THEN NoIndex
           ELSE IF indexes[k] # NoIndex THEN indexes[k] ELSE disk[k]

\* list_indexes: names on disk and in the buffer, but for the deleted ones.
list_indexes == {k \in Fields : View(k) # NoIndex}

Free(t) == job[t] = IdleJob /\ ~Flushing(t)

\* Someone has read file f's value, or will remove its entries, and has not
\* yet touched the index: an operation on f that starts now races with it.
Busy(f) ==
  \/ f \in cleanup
  \/ \E t \in Threads :
       /\ job[t].file = f
       /\ job[t].op = "remove" \/ job[t].field # NoField \/ job[t].data # 0

-----------------------------------------------------------------------------
(* Index jobs.                                                             *)

\* IndexingPipeline::run_metadata_only and run: the config is looked up,
\* then every one of its fields is updated in turn.  data is the content
\* the caller read, 0 for the metadata-only path, which reads each
\* FileRecord field when it gets to it.
StartUpdate(t, f, fields, data) ==
  job' = [job EXCEPT ![t] =
            IF load_config \cap fields = {} THEN IdleJob
            ELSE [IdleJob EXCEPT !.op = "update", !.file = f, !.data = data,
                                 !.todo = load_config \cap fields]]

\* The job once its field k is done.
Without(k, j) ==
  IF j.todo = {k} THEN IdleJob
  ELSE [j EXCEPT !.todo = @ \ {k}, !.field = NoField, !.value = 0, !.held = NoIndex]

\* update_index_with_options, first half: index_meta_field reads the
\* FileRecord (no record, nothing to index), the buffer is asked for the
\* index under its lock, and the index file is read outside it.
LoadForUpdate(t) ==
  /\ job[t].op = "update" /\ job[t].field = NoField /\ ~Flushing(t)
  /\ \E k \in job[t].todo :
       \E v \in {IF k \in MetaFields THEN content[job[t].file] ELSE job[t].data} :
         job' = [job EXCEPT ![t] =
                   IF v = 0
                   THEN Without(k, @)
                   ELSE [@ EXCEPT !.field = k, !.value = v,
                                  !.held = IF indexes[k] = NoIndex THEN disk[k] ELSE NoIndex]]
  /\ UNCHANGED <<content, clock, config, cachedConfig, bufferVars, disk, flush, cleanup,
                 faults, blame>>

\* take_flush_snapshot and snapshot_flush: the dirty and deleted keys move
\* into the thread's snapshot, and the buffer counts nothing as pending.
snapshot_flush(t, cached, dirty, deleted) ==
  \E saved \in {{k \in dirty \ deleted : cached[k] # NoIndex}} :
    /\ flush' = [flush EXCEPT ![t] =
                   [saves |-> [k \in saved |-> cached[k]], deletes |-> deleted,
                    unsaved |-> saved, undeleted |-> deleted, failed |-> FALSE]]
    /\ dirtyKeys' = {}
    /\ deletedKeys' = {}
    /\ pending' = FALSE
    /\ blame' = IF \E other \in Threads \ {t} : Flushing(other)
                THEN blame \cup {"flusher"} ELSE blame

\* Mutant: the index read from disk is not used.
update_index_drops_loaded(t) ==
  /\ job[t].op = "update" /\ job[t].field # NoField
  /\ \E k \in {job[t].field} :
     \E base \in {IF indexes[k] # NoIndex THEN indexes[k] ELSE EmptyIndex} :
       /\ indexes' = [indexes EXCEPT ![k] = [base EXCEPT ![job[t].file] = job[t].value]]
       /\ job' = [job EXCEPT ![t] = Without(k, @)]
       /\ deletedKeys' = deletedKeys \ {k}
       /\ dirtyKeys' = dirtyKeys \cup {k}
       /\ pending' = TRUE
       /\ UNCHANGED <<flush, blame>>

\* SharedIndexWriteBuffer::update_index: the key is no longer deleted; the
\* index read before is used when the buffer still has none.  The buffer may
\* then be due for a flush, and the thread takes the snapshot at once.
update_index(t) ==
  /\ job[t].op = "update" /\ job[t].field # NoField
  /\ \E k \in {job[t].field} :
     \E base \in {IF indexes[k] # NoIndex THEN indexes[k]
                  ELSE IF job[t].held # NoIndex THEN job[t].held ELSE EmptyIndex} :
     \E new \in {[indexes EXCEPT ![k] = [base EXCEPT ![job[t].file] = job[t].value]]} :
       /\ indexes' = new
       /\ job' = [job EXCEPT ![t] = Without(k, @)]
       /\ \/ /\ deletedKeys' = deletedKeys \ {k}
             /\ dirtyKeys' = dirtyKeys \cup {k}
             /\ pending' = TRUE
             /\ UNCHANGED <<flush, blame>>
          \/ snapshot_flush(t, new, dirtyKeys \cup {k}, deletedKeys \ {k})

\* remove_file_from_index, first half: a key the buffer has dropped is not
\* read from disk.
LoadForRemove(t) ==
  /\ job[t].op = "remove" /\ job[t].field = NoField /\ ~Flushing(t)
  /\ \E k \in job[t].todo :
       job' = [job EXCEPT ![t].field = k,
                          ![t].held = IF indexes[k] = NoIndex /\ k \notin deletedKeys
                                      THEN disk[k] ELSE NoIndex]
  /\ UNCHANGED <<content, clock, config, cachedConfig, bufferVars, disk, flush, cleanup,
                 faults, blame>>

\* SharedIndexWriteBuffer::remove_file_from_index: a no-op on a deleted or
\* missing index; an index without the file is cached but not made dirty.
remove_file_from_index(t) ==
  /\ job[t].op = "remove" /\ job[t].field # NoField
  /\ \E k \in {job[t].field} :
     \E base \in {IF k \in deletedKeys THEN NoIndex
                  ELSE IF indexes[k] # NoIndex THEN indexes[k] ELSE job[t].held} :
     \E had \in {base # NoIndex /\ base[job[t].file] # 0} :
     \E new \in {IF base = NoIndex THEN indexes
                 ELSE [indexes EXCEPT ![k] = [base EXCEPT ![job[t].file] = 0]]} :
     \E dirty \in {IF had THEN dirtyKeys \cup {k} ELSE dirtyKeys} :
       /\ indexes' = new
       /\ job' = [job EXCEPT ![t] = Without(k, @)]
       /\ \/ /\ dirtyKeys' = dirty
             /\ pending' = (pending \/ had)
             /\ UNCHANGED <<deletedKeys, flush, blame>>
          \/ /\ pending \/ had
             /\ snapshot_flush(t, new, dirty, deletedKeys)
  /\ UNCHANGED <<content, clock, config, cachedConfig, disk, cleanup, faults>>

-----------------------------------------------------------------------------
(* Flushes.                                                                *)

\* flush_buffered_indexes_if_due by the five-second timer: the buffer is due
\* when something is pending and enough writes or time have gone by, which
\* the model leaves open here and after an update or a removal.
FlushTimer ==
  /\ ~Flushing("timer") /\ pending
  /\ snapshot_flush("timer", indexes, dirtyKeys, deletedKeys)
  /\ UNCHANGED <<content, clock, config, cachedConfig, indexes, disk, job, cleanup, faults>>

\* write_flush_snapshot: every save, then every delete, one write a step and
\* without the buffer lock.
write_flush_snapshot(t) ==
  /\ \/ \E k \in flush[t].unsaved :
          /\ disk' = [disk EXCEPT ![k] = flush[t].saves[k]]
          /\ flush' = [flush EXCEPT ![t].unsaved = @ \ {k}]
     \/ /\ flush[t].unsaved = {}
        /\ \E k \in flush[t].undeleted :
             /\ disk' = [disk EXCEPT ![k] = NoIndex]
             /\ flush' = [flush EXCEPT ![t].undeleted = @ \ {k}]
  /\ UNCHANGED <<content, clock, config, cachedConfig, bufferVars, job, cleanup, faults, blame>>

\* write_flush_snapshot when a write fails: restore_failed_flush puts the
\* whole snapshot back, as far as the buffer has not moved on.
restore_failed_flush(t) ==
  /\ Flushing(t) /\ faults > 0
  /\ dirtyKeys' = dirtyKeys \cup {k \in DOMAIN flush[t].saves :
                                    indexes[k] # NoIndex /\ k \notin deletedKeys}
  /\ deletedKeys' = deletedKeys \cup {k \in flush[t].deletes : indexes[k] = NoIndex}
  /\ pending' = TRUE
  /\ flush' = [flush EXCEPT ![t] = IF t = "worker" THEN FailedFlush ELSE NoFlush]
  /\ faults' = faults - 1
  /\ UNCHANGED <<content, clock, config, cachedConfig, indexes, disk, job, cleanup, blame>>

-----------------------------------------------------------------------------
(* Requests that feed the buffer, and the cleanup worker.                  *)

\* PUT of a file: the FileRecord is finalized, then its metadata is indexed
\* outside the namespace lock.
store_file(t, f) ==
  /\ Free(t) /\ clock < MaxVersion
  /\ clock' = clock + 1
  /\ content' = [content EXCEPT ![f] = clock + 1]
  /\ StartUpdate(t, f, MetaFields, 0)
  /\ cachedConfig' = load_config
  /\ blame' = blame \cup (IF Busy(f) THEN {"overlap"} ELSE {})
                    \cup (IF load_config # config THEN {"config"} ELSE {})
  /\ UNCHANGED <<config, bufferVars, disk, flush, cleanup, faults>>

\* DELETE of a file: the record goes, and the path is queued for cleanup.
delete_file(t, f) ==
  /\ Free(t) /\ content[f] # 0
  /\ content' = [content EXCEPT ![f] = 0]
  /\ cleanup' = cleanup \cup {f}
  /\ blame' = blame \cup (IF Busy(f) THEN {"overlap"} ELSE {})
  /\ UNCHANGED <<clock, config, cachedConfig, bufferVars, disk, job, flush, faults>>

\* cleanup_loop and remove_file_from_resolved_indexes: the queued path is
\* removed from every index listed when the worker gets to it.
process_batch ==
  /\ Free("cleaner")
  /\ \E f \in cleanup :
       /\ cleanup' = cleanup \ {f}
       /\ job' = [job EXCEPT !["cleaner"] =
                    IF list_indexes = {} THEN IdleJob
                    ELSE [IdleJob EXCEPT !.op = "remove", !.file = f, !.todo = list_indexes]]
  /\ UNCHANGED <<content, clock, config, cachedConfig, bufferVars, disk, flush, faults, blame>>

\* The process stops: what only memory held is gone.
LoseMemory ==
  /\ cachedConfig' = NotCached
  /\ indexes' = [k \in Fields |-> NoIndex]
  /\ dirtyKeys' = {} /\ deletedKeys' = {} /\ pending' = FALSE
  /\ job' = [t \in Threads |-> IdleJob]
  /\ flush' = [t \in Threads |-> NoFlush]
  /\ cleanup' = {}

\* The steps any thread takes inside a job or a flush.
ThreadStep(t) ==
  \/ LoadForUpdate(t)
  \/ LoadForRemove(t)
  \/ remove_file_from_index(t)
  \/ t = "timer" /\ FlushTimer
  \/ write_flush_snapshot(t)
  \/ restore_failed_flush(t)

=============================================================================
