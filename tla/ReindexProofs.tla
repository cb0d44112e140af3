----------------------------- MODULE ReindexProofs -----------------------------
(***************************************************************************)
(* What the resumable reindex and the index write buffer guarantee for any *)
(* files, fields, clients and tasks, over crashes, shutdowns and failed    *)
(* flushes: whatever is dirty is counted, and a checkpoint covers only     *)
(* what is in the index files to stay.                                     *)
(***************************************************************************)
EXTENDS TaskQueueProofs

-----------------------------------------------------------------------------
(* Checkpoints.                                                            *)

\* A pending task is one nobody has worked on since the last start.
PendingOK ==
  \A id \in Ids : tasks[id] # NoTask /\ tasks[id].status = "pending" =>
    /\ \A c \in Clients : client[c].pc = "cancel_store" /\ client[c].id = id =>
         client[c].got.checkpoint <= tasks[id].checkpoint
    /\ \A e \in indexed : e.task = id => e.file <= tasks[id].checkpoint

\* Every record of the worker's task, stored or read by a canceller, has a
\* checkpoint before the files the worker has still to do.
Before(w, n) ==
  /\ w.pc \in EarlyAt => n <= w.from
  /\ w.pc \in {"file", "indexing"} => n < w.list[w.i]
  /\ w.pc \in ListAt => n <= w.list[w.i]
MarksBefore ==
  OnTask =>
    /\ Before(worker, tasks[worker.id].checkpoint)
    /\ \A c \in Clients : client[c].pc = "cancel_store" /\ client[c].id = worker.id =>
         Before(worker, client[c].got.checkpoint)

-----------------------------------------------------------------------------
(* The buffer.                                                             *)

\* What is dirty is cached, and counted.
DirtyOK == (\A k \in dirtyKeys : indexes[k] # NoIndex) /\ DirtyIsPending

\* Unless requests overlapped on a file: what a job is to write is current.
Current(t) ==
  /\ job[t].op = "update" /\ job[t].field # NoField => job[t].value = content[job[t].file]
  /\ job[t].op = "update" /\ job[t].data # 0 => job[t].data = content[job[t].file]
  /\ job[t].op = "remove" => content[job[t].file] = 0
JobsCurrent ==
  "overlap" \notin blame =>
    /\ \A t \in Threads : Current(t)
    /\ \A f \in cleanup : content[f] = 0

\* Unless blamed, one thread writes a flush at a time.
OneFlush == "flusher" \notin blame => \A t, u \in Threads : Flushing(t) /\ Flushing(u) => t = u

-----------------------------------------------------------------------------
(* The updates a reindex made.                                             *)

Fine == blame \cap {"flusher", "failure", "overlap"} = {}
Live(e) == content[e.file] = e.version
Has(index, e) == index # NoIndex /\ index[e.file] = e.version

\* On disk to stay: no flush under way takes it away.
Settled(e) ==
  /\ Has(disk[e.field], e)
  /\ \A t \in Threads : /\ e.field \in flush[t].unsaved => Has(flush[t].saves[e.field], e)
                        /\ e.field \notin flush[t].undeleted
InFlush(e, t) == e.field \in flush[t].unsaved /\ Has(flush[t].saves[e.field], e)

\* Every read of the index sees the update: the cached index has it or, when
\* none is cached, the file and whatever a job has read of it; and it is
\* dirty, in a flush, or settled.
Kept(e) ==
  /\ e.field \notin deletedKeys
  /\ indexes[e.field] # NoIndex => Has(indexes[e.field], e)
  /\ indexes[e.field] = NoIndex =>
       /\ Has(disk[e.field], e)
       /\ \A t \in Threads : /\ e.field \notin flush[t].deletes \cup DOMAIN flush[t].saves
                             /\ job[t].field = e.field => Has(job[t].held, e)
  /\ e.field \in dirtyKeys \/ (\E t \in Threads : InFlush(e, t)) \/ Settled(e)

\* What is settled: what is before a checkpoint, stored or read, and everything
\* of the worker's task when nothing of its own is pending.
MustSettle(e) ==
  \/ tasks[e.task] # NoTask /\ e.file <= tasks[e.task].checkpoint
  \/ \E c \in Clients : client[c].pc = "cancel_store" /\ client[c].id = e.task /\ e.file <= client[c].got.checkpoint
  \/ OnTask /\ worker.id = e.task /\ ~worker.own

\* While the worker writes its own flush everything of its task is settled, or
\* in that flush.
OwnFlush(e) == worker.pc \in {"flushed", "final_flushed"} /\ worker.id = e.task /\ ~flush["worker"].failed
Good(e) ==
  /\ Kept(e)
  /\ MustSettle(e) => Settled(e)
  /\ OwnFlush(e) => Settled(e) \/ InFlush(e, "worker")
UpdatesKept == Fine => \A e \in indexed : Live(e) => Good(e)

\* Versions are given out in order.
VersionsOK ==
  /\ \A f \in Files : content[f] <= clock
  /\ "overlap" \notin blame => \A e \in indexed : e.version <= clock

ReindexInv == DirtyOK /\ PendingOK /\ MarksBefore /\ JobsCurrent /\ OneFlush /\ VersionsOK /\ UpdatesKept

-----------------------------------------------------------------------------
(* Which steps touch the buffer.                                           *)

SameBuffer == UNCHANGED <<indexes, dirtyKeys, deletedKeys, pending, disk, flush>> /\ blame \subseteq blame'
FlushEnds == UNCHANGED <<indexRest, bufferVars, disk, job>> /\ blame \subseteq blame' /\ flush' = [flush EXCEPT !["worker"] = NoFlush]
FlushStarts == RetireFlush \/ FlushAfterFile \/ FinalFlush

LEMMA RequestsSameBuffer ==
  ASSUME NEW c \in Clients, ClientStep(c) \/ RequestStep(c)
  PROVE  SameBuffer
<1>1. CASE StoreFile(c)
  BY Zenon, <1>1 DEF StoreFile, store_file, SameBuffer, bufferVars
<1>2. CASE DeleteFile(c)
  BY Zenon, <1>2 DEF DeleteFile, delete_file, SameBuffer, bufferVars
<1>3. CASE PutConfig(c) \/ EvictCaches(c)
  BY Zenon, <1>3 DEF PutConfig, EvictCaches, SameBuffer, bufferVars
<1>4. CASE CancelTask(c) \/ TriggerTask(c) \/ CancelRead(c) \/ CancelStore(c) \/ EnqueueStore(c) \/ EnqueueRegister(c)
  BY Zenon, <1>4 DEF CancelTask, TriggerTask, CancelRead, CancelStore, EnqueueStore, EnqueueRegister, SameBuffer, indexVars
<1> QED
  BY Zenon, <1>1, <1>2, <1>3, <1>4 DEF ClientStep, RequestStep

LEMMA WorkerSameBuffer ==
  ASSUME \/ Dequeue \/ Claim \/ ExecuteOther \/ ListFiles \/ IndexFile \/ NoFlushAfterFile
         \/ CheckpointRead \/ CheckpointStore \/ Finish \/ PruneLoad \/ PruneSave
  PROVE  SameBuffer
<1>1. CASE Dequeue \/ ExecuteOther \/ ListFiles \/ NoFlushAfterFile \/ CheckpointRead \/ CheckpointStore \/ PruneLoad
  BY Zenon, <1>1 DEF Dequeue, ExecuteOther, ListFiles, NoFlushAfterFile, CheckpointRead, CheckpointStore, PruneLoad,
     SameBuffer, indexVars
<1>2. CASE Claim \/ Finish \/ PruneSave
  BY Zenon, <1>2 DEF Claim, Finish, PruneSave, SameBuffer, bufferVars
<1>3. CASE IndexFile
  <2>1. UNCHANGED <<bufferVars, disk, flush>> /\ (blame' = blame \/ blame' = blame \cup {"config"})
    BY Zenon, <1>3 DEF IndexFile
  <2> QED
    BY <2>1 DEF SameBuffer, bufferVars
<1> QED
  BY <1>1, <1>2, <1>3

LEMMA BufferKinds ==
  ASSUME QueueInv, [Next]_vars
  PROVE  \/ SameBuffer
         \/ \E t \in Threads : BufferStep(t)
         \/ WorkerUpdate \/ Retire \/ FlushStarts \/ FlushEnds \/ Crash \/ ShutdownDone
<1>1. CASE \E c \in Clients : ClientStep(c) \/ RequestStep(c)
  BY <1>1, RequestsSameBuffer
<1>2. CASE Cleaner
  BY Zenon, <1>2 DEF Cleaner, process_batch, SameBuffer, bufferVars
<1>3. CASE WorkerStep
  <2>1. CASE Retired \/ Flushed \/ FinalFlushed
    BY Zenon, <2>1, RetiredKeepsQueue, FlushedKeepsQueue DEF FlushEnds
  <2>2. CASE WorkerUpdateFails
    BY Zenon, <2>2 DEF WorkerUpdateFails, FlushEnds, indexRest
  <2> QED
    BY Zenon, <1>3, <2>1, <2>2, WorkerSameBuffer DEF WorkerStep, FlushStarts
<1>4. CASE Shutdown
  BY Zenon, <1>4 DEF Shutdown, SameBuffer, bufferVars
<1>5. CASE UNCHANGED vars
  BY Zenon, <1>5 DEF vars, indexVars, SameBuffer
<1> QED
  BY Zenon, <1>1, <1>2, <1>3, <1>4, <1>5 DEF Next

\* What FlushStarts and FlushEnds do, and what a step of a job or a flush is.
LEMMA FlushStartsMoves ==
  ASSUME QueueInv, FlushStarts
  PROVE  /\ UNCHANGED <<indexRest, indexes, disk, job, tasks, client, indexed>> /\ ~Flushing("worker")
         /\ Place(worker') /\ worker'.own = worker.own /\ OnTask
         /\ \/ worker.pc = "retire_flush" /\ worker'.pc = "retired"
            \/ worker.pc \in {"indexing", "final_flush"} /\ worker'.pc \in {"flushed", "final_flushed"}
         /\ \/ Taken("worker", dirtyKeys, deletedKeys)
            \/ /\ UNCHANGED <<flush, dirtyKeys, deletedKeys, pending>> /\ dirtyKeys = {} /\ deletedKeys = {}
               /\ blame \subseteq blame' /\ ("flusher" \notin blame' => \A t \in Threads : ~Flushing(t))
<1>1. ~Flushing("worker")
  BY Zenon DEF FlushStarts, RetireFlush, FlushAfterFile, FinalFlush, At
<1>2. PICK after \in {"retired", "flushed", "final_flushed"} :
        /\ ForcedFlush(after) /\ job["worker"] = IdleJob
        /\ worker.pc \in (IF after = "retired" THEN {"retire_flush"} ELSE {"indexing", "final_flush"})
  <2>1. CASE RetireFlush
    BY <2>1 DEF RetireFlush, At, QueueInv, JobsOK
  <2>2. CASE FlushAfterFile
    BY <2>2 DEF FlushAfterFile, At
  <2>3. CASE FinalFlush
    BY <2>3 DEF FinalFlush, At, QueueInv, JobsOK
  <2> QED
    BY <2>1, <2>2, <2>3 DEF FlushStarts
<1>3. /\ worker'.pc = after /\ Place(worker') /\ worker'.own = worker.own
      /\ UNCHANGED <<indexRest, indexes, disk, job, faults, tasks, client, indexed>>
      /\ \/ Taken("worker", dirtyKeys, deletedKeys)
         \/ /\ UNCHANGED <<flush, dirtyKeys, deletedKeys, pending>> /\ dirtyKeys = {} /\ deletedKeys = {}
            /\ blame \subseteq blame' /\ ("flusher" \notin blame' => \A t \in Threads : ~Flushing(t))
  BY Zenon, <1>2, ForcedFlushKeepsQueue
<1>4. \/ worker.pc = "retire_flush" /\ worker'.pc = "retired"
      \/ worker.pc \in {"indexing", "final_flush"} /\ worker'.pc \in {"flushed", "final_flushed"}
  BY Zenon, <1>2, <1>3
<1>5. OnTask
  BY <1>4 DEF OnTask
<1> QED
  BY Zenon, <1>1, <1>3, <1>4, <1>5

-----------------------------------------------------------------------------
(* What is dirty is counted, and one thread writes a flush at a time.      *)

LEMMA NoIndexIsNone ==
  NoIndex \notin Index
BY IndexBufferAssumption DEF Index, Versions

LEMMA TakenClean ==
  ASSUME NEW t \in Threads, NEW dirty, NEW deleted, Taken(t, dirty, deleted)
  PROVE  DirtyOK'
BY DEF Taken, DirtyOK, DirtyIsPending

LEMMA TakenOne ==
  ASSUME NEW t \in Threads, NEW dirty, NEW deleted, Taken(t, dirty, deleted)
  PROVE  OneFlush'
<1>1. SUFFICES ASSUME "flusher" \notin blame', NEW u \in Threads, Flushing(u)'
               PROVE  u = t
  BY Zenon DEF OneFlush
<1>2. SUFFICES ASSUME u # t
               PROVE  FALSE
  OBVIOUS
<1>3. Flushing(u)
  BY Zenon, <1>1, <1>2 DEF Taken, Flushing
<1> QED
  BY Zenon, <1>1, <1>2, <1>3 DEF Taken

LEMMA FewerOne ==
  ASSUME OneFlush, blame \subseteq blame', \A t \in Threads : Flushing(t)' => Flushing(t)
  PROVE  OneFlush'
BY DEF OneFlush

LEMMA TouchedClean ==
  ASSUME QueueInv, DirtyOK, OneFlush, NEW t \in Threads, update_index(t) \/ remove_file_from_index(t)
  PROVE  DirtyOK' /\ OneFlush'
<1>0. IndexTypeOK
  BY DEF QueueInv
<1>1. CASE update_index(t)
  <2> DEFINE k == job[t].field
             f == job[t].file
  <2>1. /\ k \in Fields /\ indexes'[k] \in Index /\ \A other \in Fields \ {k} : indexes'[other] = indexes[other]
        /\ \/ /\ deletedKeys' = deletedKeys \ {k} /\ dirtyKeys' = dirtyKeys \cup {k} /\ pending' = TRUE
              /\ UNCHANGED <<flush, blame>>
           \/ Taken(t, dirtyKeys \cup {k}, deletedKeys \ {k})
    BY Zenon, <1>0, <1>1, UpdateMoves
  <2> HIDE DEF k, f
  <2>2. CASE dirtyKeys' = dirtyKeys \cup {k} /\ pending' = TRUE /\ UNCHANGED <<flush, blame>>
    <3>1. DirtyOK'
      BY Zenon, <1>0, <2>1, <2>2, NoIndexIsNone DEF DirtyOK, DirtyIsPending, IndexTypeOK
    <3> QED
      BY Zenon, <3>1, <2>2 DEF OneFlush, Flushing
  <2> QED
    BY Zenon, <2>1, <2>2, TakenClean, TakenOne
<1>2. CASE remove_file_from_index(t)
  <2> DEFINE k == job[t].field
             f == job[t].file
  <2>1. /\ k \in Fields /\ \A other \in Fields \ {k} : indexes'[other] = indexes[other]
        /\ indexes'[k] = indexes[k] \/ indexes'[k] \in Index
        /\ \E dirty \in {dirtyKeys, dirtyKeys \cup {k}} :
             /\ dirty # dirtyKeys => indexes'[k] # NoIndex
             /\ \/ /\ dirtyKeys' = dirty /\ pending' \in BOOLEAN
                   /\ pending \/ dirty # dirtyKeys => pending'
                   /\ UNCHANGED <<deletedKeys, flush, blame>>
                \/ Taken(t, dirty, deletedKeys)
    BY Zenon, <1>0, <1>2, RemoveMoves
  <2> HIDE DEF k, f
  <2>2. PICK dirty \in {dirtyKeys, dirtyKeys \cup {k}} :
             /\ dirty # dirtyKeys => indexes'[k] # NoIndex
             /\ \/ /\ dirtyKeys' = dirty /\ pending' \in BOOLEAN
                   /\ pending \/ dirty # dirtyKeys => pending'
                   /\ UNCHANGED <<deletedKeys, flush, blame>>
                \/ Taken(t, dirty, deletedKeys)
    BY Zenon, <2>1
  <2>3. CASE dirtyKeys' = dirty /\ (pending \/ dirty # dirtyKeys => pending') /\ UNCHANGED <<deletedKeys, flush, blame>>
    <3>1. \A d \in dirtyKeys' : indexes'[d] # NoIndex
      BY Zenon, <1>0, <2>1, <2>2, <2>3, NoIndexIsNone DEF DirtyOK, IndexTypeOK
    <3>2. DirtyIsPending'
      BY Zenon, <2>2, <2>3 DEF DirtyOK, DirtyIsPending
    <3> QED
      BY Zenon, <3>1, <3>2, <2>3 DEF DirtyOK, OneFlush, Flushing
  <2> QED
    BY Zenon, <2>2, <2>3, TakenClean, TakenOne
<1> QED
  BY <1>1, <1>2

\* A failed flush is put back.
LEMMA RestoreMoves ==
  ASSUME QueueInv, NEW t \in Threads, restore_failed_flush(t)
  PROVE  /\ Flushing(t) /\ UNCHANGED <<indexRest, indexes, disk, job, blame>>
         /\ dirtyKeys' = dirtyKeys \cup {k \in DOMAIN flush[t].saves : indexes[k] # NoIndex /\ k \notin deletedKeys}
         /\ deletedKeys' = deletedKeys \cup {k \in flush[t].deletes : indexes[k] = NoIndex} /\ pending' = TRUE
         /\ \A u \in Threads \ {t} : flush'[u] = flush[u]
         /\ flush'[t].unsaved = {} /\ flush'[t].undeleted = {} /\ flush'[t].deletes = {} /\ DOMAIN flush'[t].saves = {}
         /\ flush'[t].failed <=> t = "worker"
<1>1. PICK new \in {NoFlush, FailedFlush} : flush' = [flush EXCEPT ![t] = new] /\ (new.failed <=> t = "worker")
  <2>1. NoFlush.failed = FALSE /\ FailedFlush.failed = TRUE
    BY IdleTyped DEF NoFlush, FailedFlush
  <2> QED
    BY Zenon, <2>1 DEF restore_failed_flush
<1>2. IndexTypeOK
  BY DEF QueueInv
<1>3. /\ \A u \in Threads \ {t} : flush'[u] = flush[u]
      /\ flush'[t].unsaved = {} /\ flush'[t].undeleted = {} /\ flush'[t].deletes = {} /\ DOMAIN flush'[t].saves = {}
      /\ flush'[t].failed = new.failed
  BY ZenonT(30), <1>1, <1>2, ClearMoves
<1> QED
  BY Zenon, <1>1, <1>3 DEF restore_failed_flush, indexRest

LEMMA BufferStepClean ==
  ASSUME QueueInv, DirtyOK, OneFlush, NEW t \in Threads, BufferStep(t)
  PROVE  DirtyOK' /\ OneFlush'
<1>0. IndexTypeOK /\ FlushesOK
  BY DEF QueueInv
<1> USE DEF bufferVars
<1>1. CASE LoadForUpdate(t) \/ LoadForRemove(t)
  BY Zenon, <1>0, <1>1, LoadMoves DEF DirtyOK, DirtyIsPending, OneFlush, Flushing
<1>2. CASE remove_file_from_index(t) \/ update_index(t)
  BY <1>2, TouchedClean
<1>3. CASE t = "timer" /\ FlushTimer
  <2>1. Taken("timer", dirtyKeys, deletedKeys)
    BY Zenon, <1>0, <1>3, SnapshotTaken DEF FlushTimer, IndexTypeOK
  <2> QED
    BY Zenon, <1>3, <2>1, TakenClean, TakenOne
<1>4. CASE write_flush_snapshot(t)
  <2>1. UNCHANGED <<bufferVars, blame>> /\ \E k \in Fields : WriteStep(t, k)
    BY Zenon, <1>0, <1>4, WriteMoves
  <2>2. \A u \in Threads : Flushing(u)' => Flushing(u)
    BY Zenon, <2>1 DEF WriteStep, Flushing
  <2> QED
    BY Zenon, <2>1, <2>2, FewerOne DEF DirtyOK, DirtyIsPending
<1>5. CASE restore_failed_flush(t)
  <2>1. /\ UNCHANGED <<indexes, blame>> /\ pending' = TRUE
        /\ dirtyKeys' = dirtyKeys \cup {k \in DOMAIN flush[t].saves : indexes[k] # NoIndex /\ k \notin deletedKeys}
        /\ \A u \in Threads \ {t} : flush'[u] = flush[u]
        /\ flush'[t].unsaved = {} /\ flush'[t].undeleted = {}
    BY Zenon, <1>5, RestoreMoves
  <2>2. \A u \in Threads : Flushing(u)' => Flushing(u)
    BY Zenon, <2>1 DEF Flushing
  <2> QED
    BY Zenon, <2>1, <2>2, FewerOne DEF DirtyOK, DirtyIsPending
<1> QED
  BY Zenon, <1>1, <1>2, <1>3, <1>4, <1>5 DEF BufferStep, ThreadStep

LEMMA BufferClean ==
  ASSUME QueueInv, DirtyOK, OneFlush, [Next]_vars
  PROVE  DirtyOK' /\ OneFlush'
<1> USE DEF bufferVars
<1>1. CASE SameBuffer
  BY Zenon, <1>1 DEF SameBuffer, DirtyOK, DirtyIsPending, OneFlush, Flushing
<1>2. CASE WorkerUpdate
  BY Zenon, <1>2, TouchedClean DEF WorkerUpdate, Threads
<1>3. CASE Retire
  <2>1. PICK stale \in {list_indexes \ load_config} :
          /\ indexes' = [k \in Fields |-> IF k \in stale THEN NoIndex ELSE indexes[k]]
          /\ dirtyKeys' = dirtyKeys \ stale /\ deletedKeys' = deletedKeys \cup stale
          /\ pending' = (pending \/ stale # {})
    BY Zenon, <1>3 DEF Retire
  <2>2. flush' = flush /\ blame \subseteq blame'
    BY Zenon, <1>3 DEF Retire
  <2>3. \A k \in dirtyKeys' : indexes'[k] # NoIndex
    BY Zenon, <2>1 DEF DirtyOK, QueueInv, IndexTypeOK
  <2>4. DirtyIsPending'
    BY Zenon, <2>1 DEF DirtyOK, DirtyIsPending
  <2> QED
    BY Zenon, <2>2, <2>3, <2>4, FewerOne DEF DirtyOK, Flushing
<1>4. CASE FlushStarts
  <2>1. UNCHANGED indexes /\ "worker" \in Threads
    BY Zenon, <1>4, FlushStartsMoves DEF Threads
  <2>2. CASE Taken("worker", dirtyKeys, deletedKeys)
    BY <2>1, <2>2, TakenClean, TakenOne
  <2>3. CASE UNCHANGED <<flush, dirtyKeys, deletedKeys, pending>> /\ blame \subseteq blame'
    BY Zenon, <2>1, <2>3, FewerOne DEF DirtyOK, DirtyIsPending, Flushing
  <2> QED
    BY Zenon, <1>4, <2>2, <2>3, FlushStartsMoves
<1>5. CASE FlushEnds
  <2>1. UNCHANGED bufferVars /\ blame \subseteq blame' /\ flush' = [flush EXCEPT !["worker"] = NoFlush] /\ "worker" \in Threads
    BY Zenon, <1>5 DEF FlushEnds, Threads
  <2>2. /\ \A u \in Threads \ {"worker"} : flush'[u] = flush[u]
        /\ flush'["worker"].unsaved = {} /\ flush'["worker"].undeleted = {}
    BY Zenon, <2>1, ClearMoves DEF QueueInv
  <2>3. \A u \in Threads : Flushing(u)' => Flushing(u)
    BY Zenon, <2>2 DEF Flushing
  <2> QED
    BY Zenon, <2>1, <2>3, FewerOne DEF DirtyOK, DirtyIsPending
<1>6. CASE Crash \/ ShutdownDone
  <2>1. dirtyKeys' = {} /\ deletedKeys' = {} /\ \A t \in Threads : flush'[t] = NoFlush
    BY Zenon, <1>6 DEF Crash, ShutdownDone, Restart, LoseMemory
  <2>2. \A t \in Threads : ~Flushing(t)'
    BY <2>1 DEF Flushing, NoFlush
  <2> QED
    BY Zenon, <2>1, <2>2 DEF DirtyOK, DirtyIsPending, OneFlush
<1> QED
  BY Zenon, <1>1, <1>2, <1>3, <1>4, <1>5, <1>6, BufferKinds, BufferStepClean

-----------------------------------------------------------------------------
(* What a job is to write is current.                                      *)

SameFiles == UNCHANGED <<content, clock, cleanup, job>> /\ blame \subseteq blame' /\ indexed' \subseteq indexed

LEMMA FileKinds ==
  ASSUME QueueInv, [Next]_vars
  PROVE  \/ SameFiles
         \/ \E c \in Clients : StoreFile(c) \/ DeleteFile(c)
         \/ \E t \in Threads : BufferStep(t)
         \/ WorkerUpdate \/ Cleaner \/ IndexFile \/ Crash \/ ShutdownDone
<1>1. ASSUME NEW c \in Clients, ClientStep(c) \/ RequestStep(c), ~StoreFile(c), ~DeleteFile(c)
      PROVE  SameFiles
  <2>1. CASE PutConfig(c) \/ EvictCaches(c)
    BY Zenon, <2>1 DEF PutConfig, EvictCaches, SameFiles
  <2>2. CASE CancelTask(c) \/ TriggerTask(c) \/ CancelRead(c) \/ CancelStore(c) \/ EnqueueStore(c) \/ EnqueueRegister(c)
    BY Zenon, <2>2 DEF CancelTask, TriggerTask, CancelRead, CancelStore, EnqueueStore, EnqueueRegister, SameFiles, indexVars
  <2> QED
    BY Zenon, <1>1, <2>1, <2>2 DEF ClientStep, RequestStep
<1>2. ASSUME WorkerStep, ~WorkerUpdate, ~IndexFile
      PROVE  SameFiles
  <2>1. CASE Dequeue \/ ExecuteOther \/ ListFiles \/ NoFlushAfterFile \/ CheckpointRead \/ CheckpointStore \/ PruneLoad
    BY Zenon, <2>1 DEF Dequeue, ExecuteOther, ListFiles, NoFlushAfterFile, CheckpointRead, CheckpointStore, PruneLoad,
       SameFiles, indexVars
  <2>2. CASE Claim \/ Finish \/ PruneSave \/ WorkerUpdateFails
    BY Zenon, <2>2 DEF Claim, Finish, PruneSave, WorkerUpdateFails, SameFiles
  <2>3. CASE Retire
    BY Zenon, <2>3 DEF Retire, SameFiles
  <2>4. CASE FlushStarts
    <3>1. UNCHANGED <<content, clock, cleanup, job, indexed>>
      BY Zenon, <2>4, FlushStartsMoves DEF indexRest
    <3>2. blame \subseteq blame'
      BY Zenon, <2>4, FlushStartsMoves DEF Taken
    <3> QED
      BY Zenon, <3>1, <3>2 DEF SameFiles
  <2>5. CASE Retired \/ Flushed \/ FinalFlushed
    BY Zenon, <2>5, RetiredKeepsQueue, FlushedKeepsQueue DEF SameFiles, indexRest
  <2> QED
    BY Zenon, <1>2, <2>1, <2>2, <2>3, <2>4, <2>5 DEF WorkerStep, FlushStarts
<1>3. CASE Shutdown \/ UNCHANGED vars
  BY Zenon, <1>3 DEF Shutdown, vars, indexVars, taskVars, SameFiles
<1> QED
  BY Zenon, <1>1, <1>2, <1>3 DEF Next

\* A request on a file nobody is busy with leaves what is to be written current.
LEMMA OthersCurrent ==
  ASSUME IndexTypeOK, NEW f \in Files, ~Busy(f), NEW t \in Threads, Current(t), job'[t] = job[t],
         \A g \in Files \ {f} : content'[g] = content[g]
  PROVE  Current(t)'
<1>1. CASE job[t] = IdleJob
  BY <1>1 DEF Current, IdleJob
<1>2. CASE job[t] \in Job /\ job[t].file = f
  BY Zenon, <1>2 DEF Busy, Current
<1>3. CASE job[t] \in Job /\ job[t].file # f
  <2>1. content'[job[t].file] = content[job[t].file]
    BY Zenon, <1>3 DEF Job
  <2> QED
    BY Zenon, <2>1 DEF Current
<1> QED
  BY Zenon, <1>1, <1>2, <1>3 DEF IndexTypeOK

LEMMA RequestsCurrent ==
  ASSUME QueueInv, JobsCurrent, VersionsOK, NEW c \in Clients, StoreFile(c) \/ DeleteFile(c)
  PROVE  /\ JobsCurrent' /\ VersionsOK'
         /\ \A t \in Threads : job'[t] = job[t] \/ job'[t].field = NoField
         /\ "overlap" \notin blame' => \A e \in indexed : Live(e)' => Live(e)
<1>0. IndexTypeOK /\ indexed' = indexed /\ indexed \subseteq Update /\ c \in Threads
  BY Zenon DEF QueueInv, QueueTypeOK, StoreFile, DeleteFile, Threads
<1>1. content \in [Files -> Versions] /\ clock \in Nat /\ \A g \in Files : content[g] \in Nat
  BY <1>0, IndexBufferAssumption DEF IndexTypeOK, Versions
<1>2. \A e \in indexed : e.file \in Files /\ e.version \in Nat \ {0}
  BY <1>0, IndexBufferAssumption DEF Update, Versions
<1>3. ASSUME NEW f \in Files, store_file(c, f)
      PROVE  /\ JobsCurrent' /\ VersionsOK'
             /\ \A t \in Threads : job'[t] = job[t] \/ job'[t].field = NoField
             /\ "overlap" \notin blame' => \A e \in indexed : Live(e)' => Live(e)
  <2>1. /\ clock' = clock + 1 /\ content' = [content EXCEPT ![f] = clock + 1] /\ cleanup' = cleanup
        /\ StartUpdate(c, f, MetaFields, 0) /\ blame \subseteq blame' /\ (Busy(f) => "overlap" \in blame')
    BY Zenon, <1>3 DEF store_file
  <2>2. MetaFields \in SUBSET Fields /\ 0 \in Versions
    BY IndexBufferAssumption DEF Versions
  <2>3. /\ \A u \in Threads \ {c} : job'[u] = job[u]
        /\ job'[c] = IdleJob \/ (/\ job'[c].op = "update" /\ job'[c].data = 0 /\ job'[c].field = NoField)
    <3>1. StartUpdate(c, f, MetaFields, 0)
      BY Zenon, <2>1
    <3> QED
      BY ZenonT(30), <1>0, <2>2, <3>1, StartTyped, IndexBufferAssumption
  <2>4. content'[f] = clock + 1 /\ \A g \in Files \ {f} : content'[g] = content[g]
    BY <1>1, <2>1
  <2>5. Current(c)' /\ job'[c].field = NoField
    BY <2>3 DEF Current, IdleJob
  <2>6. JobsCurrent'
    <3>1. SUFFICES ASSUME "overlap" \notin blame'
                   PROVE  (\A t \in Threads : Current(t)') /\ \A g \in cleanup : content'[g] = 0
      BY Zenon, <2>1 DEF JobsCurrent
    <3>2. ~Busy(f) /\ (\A t \in Threads : Current(t)) /\ \A g \in cleanup : content[g] = 0 /\ g # f /\ g \in Files
      BY Zenon, <1>0, <2>1, <3>1 DEF JobsCurrent, Busy, IndexTypeOK
    <3>3. \A t \in Threads : Current(t)'
      BY Zenon, <1>0, <2>3, <2>4, <2>5, <3>2, OthersCurrent
    <3> QED
      BY Zenon, <2>4, <3>2, <3>3
  <2>7. VersionsOK'
    <3>1. \A g \in Files : content'[g] <= clock'
      BY <1>1, <2>1, <2>4 DEF VersionsOK
    <3>2. ASSUME "overlap" \notin blame', NEW e \in indexed
          PROVE  e.version <= clock'
      BY <1>1, <1>2, <2>1, <3>2 DEF VersionsOK
    <3> QED
      BY Zenon, <1>0, <3>1, <3>2 DEF VersionsOK
  <2>8. ASSUME "overlap" \notin blame', NEW e \in indexed, content'[e.file] = e.version
        PROVE  content[e.file] = e.version
    <3>1. e.version <= clock
      BY Zenon, <2>1, <2>8 DEF VersionsOK
    <3> QED
      BY <1>1, <1>2, <2>4, <2>8, <3>1
  <2> QED
    BY Zenon, <2>3, <2>5, <2>6, <2>7, <2>8 DEF Live
<1>4. ASSUME NEW f \in Files, delete_file(c, f)
      PROVE  /\ JobsCurrent' /\ VersionsOK' /\ job' = job
             /\ \A e \in indexed : Live(e)' => Live(e)
  <2>1. /\ clock' = clock /\ content' = [content EXCEPT ![f] = 0] /\ cleanup' = cleanup \cup {f}
        /\ job' = job /\ blame \subseteq blame' /\ (Busy(f) => "overlap" \in blame')
    BY Zenon, <1>4 DEF delete_file
  <2>2. content'[f] = 0 /\ \A g \in Files \ {f} : content'[g] = content[g]
    BY <1>1, <2>1
  <2>3. JobsCurrent'
    <3>1. SUFFICES ASSUME "overlap" \notin blame'
                   PROVE  (\A t \in Threads : Current(t)') /\ \A g \in cleanup' : content'[g] = 0
      BY Zenon DEF JobsCurrent
    <3>2. ~Busy(f) /\ (\A t \in Threads : Current(t)) /\ \A g \in cleanup : content[g] = 0 /\ g \in Files
      BY Zenon, <1>0, <2>1, <3>1 DEF JobsCurrent, IndexTypeOK
    <3>3. \A t \in Threads : Current(t)'
      BY Zenon, <1>0, <2>1, <2>2, <3>2, OthersCurrent
    <3> QED
      BY Zenon, <2>1, <2>2, <3>2, <3>3
  <2>4. VersionsOK'
    <3>1. \A g \in Files : content'[g] <= clock'
      BY <1>1, <2>1, <2>2 DEF VersionsOK
    <3> QED
      BY Zenon, <1>0, <2>1, <3>1 DEF VersionsOK
  <2>5. ASSUME NEW e \in indexed, content'[e.file] = e.version
        PROVE  content[e.file] = e.version
    BY Zenon, <1>2, <2>2, <2>5
  <2> QED
    BY Zenon, <2>1, <2>3, <2>4, <2>5 DEF Live
<1> QED
  BY Zenon, <1>3, <1>4 DEF StoreFile, DeleteFile

\* What a step of a job or a flush does to the jobs.
LEMMA BufferJobs ==
  ASSUME QueueInv, NEW t \in Threads, BufferStep(t) \/ (t = "worker" /\ WorkerUpdate)
  PROVE  /\ UNCHANGED <<content, clock, cleanup>> /\ blame \subseteq blame'
         /\ \A u \in Threads \ {t} : job'[u] = job[u]
         /\ \/ job'[t] = job[t]
            \/ /\ JobGoesOn(t)
               /\ \/ job'[t].field = NoField
                  \/ /\ ~Flushing(t) /\ UNCHANGED <<bufferVars, disk, flush>>
                     /\ job'[t].op = "update" =>
                          job'[t].value # 0 /\ (job'[t].value = content[job[t].file] \/ job'[t].value = job[t].data)
<1>0. IndexTypeOK /\ FlushesOK /\ JobOK(t) /\ (t = "timer" => job[t] = IdleJob)
  BY Zenon DEF QueueInv, JobsOK
<1>1. UNCHANGED <<content, clock, cleanup>>
  BY Zenon DEF BufferStep, ThreadStep, LoadForUpdate, LoadForRemove, remove_file_from_index, FlushTimer,
     write_flush_snapshot, restore_failed_flush, WorkerUpdate
<1>2. (\A u \in Threads \ {t} : job'[u] = job[u]) /\ blame \subseteq blame'
  BY Zenon, <1>0, StepJobs DEF BufferStep, WorkerUpdate
<1>3. CASE LoadForUpdate(t) \/ LoadForRemove(t)
  BY Zenon, <1>0, <1>1, <1>2, <1>3, LoadMoves
<1>4. CASE update_index(t)
  BY Zenon, <1>0, <1>1, <1>2, <1>4, UpdateMoves
<1>5. CASE remove_file_from_index(t)
  <2>1. JobGoesOn(t) /\ job'[t].field = NoField
    BY Zenon, <1>0, <1>5, RemoveMoves
  <2> QED
    BY ZenonT(30), <1>1, <1>2, <2>1
<1>6. CASE (t = "timer" /\ FlushTimer) \/ write_flush_snapshot(t) \/ restore_failed_flush(t)
  <2>1. job' = job
    BY Zenon, <1>6 DEF FlushTimer, write_flush_snapshot, restore_failed_flush
  <2> QED
    BY Zenon, <1>1, <1>2, <2>1
<1> QED
  BY Zenon, <1>3, <1>4, <1>5, <1>6 DEF BufferStep, ThreadStep, WorkerUpdate

LEMMA GoesOnCurrent ==
  ASSUME QueueInv, NEW t \in Threads, BufferStep(t) \/ (t = "worker" /\ WorkerUpdate), Current(t)
  PROVE  Current(t)'
<1>0. content' = content
  BY Zenon, BufferJobs
<1>1. CASE job'[t] = job[t]
  BY Zenon, <1>0, <1>1 DEF Current
<1>2. CASE job'[t] = IdleJob
  BY <1>2 DEF Current, IdleJob
<1>3. CASE job'[t] # job[t] /\ job'[t] # IdleJob
  <2>1. /\ job'[t].op = job[t].op /\ job'[t].file = job[t].file /\ job'[t].data = job[t].data
        /\ \/ job'[t].field = NoField
           \/ job'[t].op = "update" =>
                job'[t].value # 0 /\ (job'[t].value = content[job[t].file] \/ job'[t].value = job[t].data)
    BY Zenon, <1>3, BufferJobs DEF JobGoesOn
  <2> QED
    BY Zenon, <1>0, <2>1 DEF Current
<1> QED
  BY Zenon, <1>1, <1>2, <1>3

LEMMA JobsStayCurrent ==
  ASSUME QueueInv, JobsCurrent, VersionsOK, [Next]_vars
  PROVE  JobsCurrent' /\ VersionsOK'
<1>1. CASE SameFiles
  <2>1. JobsCurrent'
    BY Zenon, <1>1 DEF SameFiles, JobsCurrent, Current
  <2>2. VersionsOK'
    BY Zenon, <1>1 DEF SameFiles, VersionsOK
  <2> QED
    BY <2>1, <2>2
<1>2. ASSUME NEW t \in Threads, BufferStep(t) \/ (t = "worker" /\ WorkerUpdate)
      PROVE  JobsCurrent'
  <2>1. /\ UNCHANGED <<content, cleanup>> /\ blame \subseteq blame'
        /\ \A u \in Threads \ {t} : job'[u] = job[u]
    BY Zenon, <1>2, BufferJobs
  <2>2. ASSUME NEW u \in Threads, Current(u)
        PROVE  Current(u)'
    <3>1. CASE u = t
      BY Zenon, <1>2, <2>2, <3>1, GoesOnCurrent
    <3>2. CASE u # t
      BY Zenon, <2>1, <2>2, <3>2 DEF Current
    <3> QED
      BY <3>1, <3>2
  <2> QED
    BY Zenon, <2>1, <2>2 DEF JobsCurrent
<1>3. ASSUME NEW t \in Threads, BufferStep(t)
      PROVE  VersionsOK'
  <2>1. UNCHANGED <<content, clock, indexed>> /\ blame \subseteq blame'
    BY Zenon, <1>3, BufferJobs DEF BufferStep, taskVars
  <2> QED
    BY Zenon, <2>1 DEF VersionsOK
<1>4. CASE WorkerUpdate
  <2>1. "worker" \in Threads
    BY Zenon DEF Threads
  <2>2. UNCHANGED <<content, clock>> /\ blame \subseteq blame' /\ job["worker"].op = "update" /\ job["worker"].field # NoField
    BY Zenon, <1>4, <2>1, BufferJobs DEF WorkerUpdate, update_index
  <2>3. PICK e \in Update : /\ indexed' = indexed \cup {e} /\ e.file = job["worker"].file
                            /\ e.version = job["worker"].value
    BY Zenon, <1>4, WorkerUpdateKeepsQueue
  <2>4. ASSUME "overlap" \notin blame'
        PROVE  e.version <= clock
    <3>1. e.version = content[e.file] /\ e.file \in Files
      BY Zenon, <2>1, <2>2, <2>3, <2>4 DEF JobsCurrent, Current, Update
    <3> QED
      BY Zenon, <3>1 DEF VersionsOK
  <2>5. VersionsOK'
    BY Zenon, <2>2, <2>3, <2>4 DEF VersionsOK
  <2> QED
    BY Zenon, <1>2, <1>4, <2>1, <2>5
<1>5. CASE Cleaner
  <2>1. UNCHANGED <<content, clock, blame, indexed>>
    BY Zenon, <1>5 DEF Cleaner, process_batch, taskVars
  <2>2. PICK f \in cleanup :
          /\ cleanup' = cleanup \ {f}
          /\ job'["cleaner"] = IdleJob \/ (/\ job'["cleaner"].op = "remove" /\ job'["cleaner"].file = f
                                           /\ job'["cleaner"].field = NoField)
          /\ \A u \in Threads \ {"cleaner"} : job'[u] = job[u]
    BY Zenon, <1>5, CleanerKeepsQueue
  <2>3. ASSUME "overlap" \notin blame'
        PROVE  (\A u \in Threads : Current(u)') /\ \A g \in cleanup' : content'[g] = 0
    <3>1. (\A u \in Threads : Current(u)) /\ \A g \in cleanup : content[g] = 0
      BY Zenon, <2>1, <2>3 DEF JobsCurrent
    <3>2. CASE job'["cleaner"] = IdleJob
      BY <2>1, <2>2, <3>1, <3>2 DEF Current, IdleJob
    <3>3. CASE job'["cleaner"].op = "remove" /\ job'["cleaner"].file = f /\ job'["cleaner"].field = NoField
      BY ZenonT(30), <2>1, <2>2, <3>1, <3>3 DEF Current
    <3> QED
      BY Zenon, <2>2, <3>2, <3>3
  <2> QED
    BY Zenon, <2>1, <2>3 DEF JobsCurrent, VersionsOK
<1>6. CASE IndexFile
  <2>1. UNCHANGED <<content, clock, cleanup, indexed>> /\ blame \subseteq blame'
    BY Zenon, <1>6, IndexFileKeepsQueue
  <2>2. /\ \A u \in Threads \ {"worker"} : job'[u] = job[u]
        /\ \/ job'["worker"] = IdleJob
           \/ /\ job'["worker"].op = "update" /\ job'["worker"].field = NoField
              /\ job'["worker"].data \in {0, content[job'["worker"].file]}
    BY Zenon, <1>6, IndexFileKeepsQueue
  <2>3. Current("worker")'
    BY <2>1, <2>2 DEF Current, IdleJob
  <2>4. \A u \in Threads : Current(u) => Current(u)'
    BY ZenonT(30), <2>1, <2>2, <2>3 DEF Current
  <2> QED
    BY Zenon, <2>1, <2>4 DEF JobsCurrent, VersionsOK
<1>7. CASE Crash \/ ShutdownDone
  <2>1. /\ UNCHANGED <<content, clock>> /\ indexed' \subseteq indexed /\ cleanup' = {} /\ blame \subseteq blame'
        /\ \A t \in Threads : job'[t] = IdleJob
    BY Zenon, <1>7 DEF Crash, ShutdownDone, Restart, LoseMemory
  <2>2. \A t \in Threads : Current(t)'
    BY <2>1 DEF Current, IdleJob
  <2> QED
    BY Zenon, <2>1, <2>2 DEF JobsCurrent, VersionsOK
<1> QED
  BY Zenon, <1>1, <1>2, <1>3, <1>4, <1>5, <1>6, <1>7, FileKinds, RequestsCurrent

-----------------------------------------------------------------------------
(* What the requests read and store.                                       *)

ReadsSame == \A d \in Clients : client'[d].pc = "cancel_store" => client'[d] = client[d]

LEMMA LeftRequest ==
  ASSUME NEW x, "pc" \in DOMAIN x, NEW left
  PROVE  AfterCancel(x, left).pc # "cancel_store"
<1> DEFINE pc == IF left # {} THEN "cancel" ELSE "enqueue"
<1>1. pc # "cancel_store" /\ IdleClient.pc # "cancel_store"
  BY Zenon DEF IdleClient
<1>2. [x EXCEPT !.pc = pc, !.cancel = left, !.id = 0, !.got = NoTask].pc = pc
  OBVIOUS
<1> QED
  BY <1>1, <1>2 DEF AfterCancel

LEMMA ReadsKept ==
  ASSUME QueueInv, NEW c \in Clients,
         \/ PutConfig(c) \/ CancelTask(c) \/ TriggerTask(c) \/ CancelStore(c) \/ EnqueueStore(c)
         \/ EnqueueRegister(c) \/ EvictCaches(c)
  PROVE  ReadsSame
<1>1. client \in [Clients -> Client]
  BY Zenon DEF QueueInv, QueueTypeOK
<1>2. SUFFICES \E x : client' = [client EXCEPT ![c] = x] /\ x.pc # "cancel_store"
  BY Zenon, <1>1 DEF ReadsSame
<1>3. CASE PutConfig(c)
  <2>1. PICK cfg \in Configs \ {config} :
          client' = [client EXCEPT ![c] = AfterCancel(
            [IdleClient EXCEPT !.config = TRUE, !.task = NewTask("reindex", cfg \subseteq MetaFields)],
            {id \in registry : IsActive(id) /\ tasks[id].type = "reindex"})]
    BY Zenon, <1>3 DEF PutConfig
  <2> DEFINE x == [IdleClient EXCEPT !.config = TRUE, !.task = NewTask("reindex", cfg \subseteq MetaFields)]
  <2>2. "pc" \in DOMAIN x
    BY DEF IdleClient
  <2> HIDE DEF x
  <2> QED
    BY Zenon, <2>1, <2>2, LeftRequest DEF x
<1>4. CASE CancelTask(c) \/ TriggerTask(c)
  <2>1. /\ \A id : [IdleClient EXCEPT !.pc = "cancel", !.cancel = {id}].pc # "cancel_store"
        /\ \A task : [IdleClient EXCEPT !.pc = "enqueue", !.task = task].pc # "cancel_store"
    BY DEF IdleClient
  <2> QED
    BY Zenon, <1>4, <2>1 DEF CancelTask, TriggerTask
<1>5. CASE CancelStore(c)
  <2>1. client' = [client EXCEPT ![c] = AfterCancel(client[c], client[c].cancel \ {client[c].id})]
    BY Zenon, <1>1, <1>5 DEF CancelStore
  <2>2. "pc" \in DOMAIN client[c]
    BY Zenon, <1>1 DEF Client
  <2> QED
    BY Zenon, <2>1, <2>2, LeftRequest
<1>6. CASE EnqueueStore(c)
  <2>1. client' = [client EXCEPT ![c] = [client[c] EXCEPT !.pc = "register", !.id = nextId, !.registry = registry]]
    BY Zenon, <1>1, <1>6 DEF EnqueueStore
  <2>2. [client[c] EXCEPT !.pc = "register", !.id = nextId, !.registry = registry].pc = "register"
    BY <1>1 DEF Client
  <2> QED
    BY Zenon, <2>1, <2>2
<1>7. CASE EnqueueRegister(c) \/ EvictCaches(c)
  <2>1. IdleClient.pc # "cancel_store" /\ [IdleClient EXCEPT !.pc = "evict"].pc # "cancel_store"
    BY DEF IdleClient
  <2> QED
    BY Zenon, <1>7, <2>1 DEF EnqueueRegister, EvictCaches
<1> QED
  BY Zenon, <1>3, <1>4, <1>5, <1>6, <1>7

\* A canceller reads a record.
LEMMA CancelReads ==
  ASSUME QueueInv, NEW c \in Clients, CancelRead(c)
  PROVE  \A d \in Clients : client'[d].pc = "cancel_store" =>
           client'[d] = client[d] \/ (tasks[client'[d].id] # NoTask /\ client'[d].got = tasks[client'[d].id])
<1>1. client \in [Clients -> Client] /\ "pc" \in DOMAIN client[c]
  BY Zenon DEF QueueInv, QueueTypeOK, Client
<1>2. PICK id \in client[c].cancel :
        client' = [client EXCEPT ![c] =
             IF tasks[id] = NoTask THEN AfterCancel(client[c], client[c].cancel \ {id})
             ELSE [client[c] EXCEPT !.pc = "cancel_store", !.id = id, !.got = tasks[id]]]
  BY Zenon, <1>1 DEF CancelRead
<1>3. CASE tasks[id] = NoTask
  BY Zenon, <1>1, <1>2, <1>3, LeftRequest
<1>4. CASE tasks[id] # NoTask
  <2> DEFINE new == [client[c] EXCEPT !.pc = "cancel_store", !.id = id, !.got = tasks[id]]
  <2>1. new.id = id /\ new.got = tasks[id]
    BY <1>1 DEF Client
  <2>2. client' = [client EXCEPT ![c] = new]
    BY <1>2, <1>4
  <2> HIDE DEF new
  <2> QED
    BY Zenon, <1>1, <1>4, <2>1, <2>2
<1> QED
  BY Zenon, <1>3, <1>4

-----------------------------------------------------------------------------
(* Checkpoints stay before the files still to do.                          *)

SettlesKept == \A e \in indexed' : MustSettle(e)' => MustSettle(e)
WorkerGoesOn ==
  \/ worker'.pc \in OffTask
  \/ OnTask /\ worker'.id = worker.id /\ \A n \in Nat : Before(worker, n) => Before(worker', n)

LEMMA CheckpointTyped ==
  ASSUME NEW task \in Task
  PROVE  task.checkpoint \in Nat /\ task # NoTask
<1>1. task.checkpoint \in {0} \cup Files
  BY Zenon DEF Task
<1>2. {0} \cup Files \subseteq Nat
  BY IndexBufferAssumption
<1> QED
  BY Zenon, <1>1, <1>2, TaskQueueAssumption

LEMMA RecordsTyped ==
  ASSUME QueueInv
  PROVE  /\ \A id \in Ids : tasks[id] # NoTask => tasks[id].checkpoint \in Nat
         /\ \A c \in Clients : client[c].pc = "cancel_store" =>
              /\ client[c].id \in Ids /\ client[c].id < nextId
              /\ client[c].got # NoTask /\ client[c].got.checkpoint \in Nat
         /\ \A e \in indexed : e.task \in Ids /\ e.task < nextId /\ e.file \in Nat \ {0} /\ e.field \in Fields
         /\ nextId \in Nat /\ Ids \subseteq Nat
<1>1. \A id \in Ids : tasks[id] # NoTask => tasks[id].checkpoint \in Nat
  BY Zenon, CheckpointTyped DEF QueueInv, QueueTypeOK
<1>2. \A c \in Clients : client[c].got # NoTask => client[c].got \in Task
  BY Zenon DEF QueueInv, QueueTypeOK, Client
<1>3. \A c \in Clients : client[c].pc = "cancel_store" =>
        client[c].id \in Ids /\ client[c].id < nextId /\ client[c].got # NoTask /\ client[c].got.checkpoint \in Nat
  BY Zenon, <1>2, CheckpointTyped DEF QueueInv, QueueOK, IdsInOrder, ClientsOK, ClientOK
<1>4. \A e \in indexed : e.task \in Ids /\ e.task < nextId /\ e.file \in Nat \ {0} /\ e.field \in Fields
  BY Zenon, IndexBufferAssumption DEF QueueInv, QueueTypeOK, QueueOK, IdsInOrder, Update
<1>5. nextId \in Nat /\ Ids \subseteq Nat
  BY TaskQueueAssumption DEF QueueInv, QueueTypeOK, Ids
<1> QED
  BY Zenon, <1>1, <1>3, <1>4, <1>5

LEMMA SameMarks ==
  ASSUME PendingOK, MarksBefore, UNCHANGED <<tasks, worker, indexed>>, ReadsSame
  PROVE  PendingOK' /\ MarksBefore' /\ SettlesKept
<1>1. PendingOK'
  BY Zenon DEF PendingOK, ReadsSame
<1>2. MarksBefore'
  BY Zenon DEF MarksBefore, OnTask, ReadsSame
<1>3. SettlesKept
  BY ZenonT(30), Zenon DEF SettlesKept, MustSettle, OnTask, ReadsSame
<1> QED
  BY <1>1, <1>2, <1>3

LEMMA WorkerMarks ==
  ASSUME QueueInv, PendingOK, MarksBefore, UNCHANGED <<tasks, client>>, WorkerGoesOn,
         \A e \in indexed' : e \in indexed \/ (OnTask /\ worker.pc # "claim" /\ e.task = worker.id)
  PROVE  PendingOK' /\ MarksBefore'
<1>1. PendingOK'
  BY Zenon DEF PendingOK, QueueInv, QueueOK, IdsInOrder
<1>2. MarksBefore'
  <2>1. SUFFICES ASSUME OnTask'
                 PROVE  /\ Before(worker', tasks[worker'.id].checkpoint)
                        /\ \A c \in Clients : client[c].pc = "cancel_store" /\ client[c].id = worker'.id =>
                             Before(worker', client[c].got.checkpoint)
    BY Zenon DEF MarksBefore
  <2>2. OnTask /\ worker'.id = worker.id /\ \A n \in Nat : Before(worker, n) => Before(worker', n)
    BY Zenon, <2>1 DEF WorkerGoesOn, OnTask, OffTask
  <2>3. tasks[worker.id].checkpoint \in Nat
    BY ZenonT(30), <2>2, RecordsTyped DEF QueueInv, QueueOK, IdsInOrder
  <2> QED
    BY Zenon, <2>2, <2>3, RecordsTyped DEF MarksBefore
<1> QED
  BY Zenon, <1>1, <1>2

LEMMA WorkerSettles ==
  ASSUME UNCHANGED <<tasks, client>>, indexed' \subseteq indexed,
         worker'.pc \in OffTask \/ worker'.own = TRUE \/ (OnTask /\ worker'.id = worker.id /\ worker'.own = worker.own)
  PROVE  SettlesKept
BY Zenon DEF SettlesKept, MustSettle, OnTask, OffTask

LEMMA CancelReadMarks ==
  ASSUME QueueInv, PendingOK, MarksBefore, NEW c \in Clients, CancelRead(c)
  PROVE  PendingOK' /\ MarksBefore' /\ SettlesKept
<1>1. UNCHANGED <<tasks, worker, indexed>>
  BY Zenon DEF CancelRead
<1>2. \A d \in Clients : client'[d].pc = "cancel_store" =>
        \/ client'[d] = client[d]
        \/ tasks[client'[d].id] # NoTask /\ client'[d].got = tasks[client'[d].id]
  BY Zenon, CancelReads
<1>3. PendingOK'
  <2>1. ASSUME NEW id \in Ids, tasks[id] # NoTask, tasks[id].status = "pending",
               NEW d \in Clients, client'[d].pc = "cancel_store", client'[d].id = id
        PROVE  client'[d].got.checkpoint <= tasks[id].checkpoint
    <3>1. tasks[id].checkpoint \in Nat
      BY Zenon, <2>1, RecordsTyped
    <3>2. CASE client'[d] = client[d]
      BY Zenon, <2>1, <3>2 DEF PendingOK
    <3>3. CASE client'[d].got = tasks[id]
      BY <3>1, <3>3
    <3> QED
      BY Zenon, <1>2, <2>1, <3>2, <3>3
  <2> QED
    BY Zenon, <1>1, <2>1 DEF PendingOK
<1>4. MarksBefore'
  BY Zenon, <1>1, <1>2 DEF MarksBefore, OnTask
<1>5. SettlesKept
  BY ZenonT(60), <1>1, <1>2 DEF SettlesKept, MustSettle, OnTask
<1> QED
  BY Zenon, <1>3, <1>4, <1>5

LEMMA CancelStoreMarks ==
  ASSUME QueueInv, PendingOK, MarksBefore, NEW c \in Clients, CancelStore(c)
  PROVE  PendingOK' /\ MarksBefore' /\ SettlesKept
<1>1. UNCHANGED <<worker, indexed>> /\ client[c].pc = "cancel_store" /\ ReadsSame
  BY Zenon, ReadsKept DEF CancelStore
<1>2. PICK task \in Task : /\ Stored(client[c].id, task) /\ task.status = "cancelled"
                           /\ task.checkpoint = client[c].got.checkpoint
  BY Zenon, CancelStoreKeepsQueue
<1>3. client[c].id \in Ids
  BY Zenon, <1>1, RecordsTyped
<1>4. \A id \in Ids : tasks'[id] = tasks[id] \/ (/\ id = client[c].id /\ tasks'[id].status # "pending"
                                                 /\ tasks'[id].checkpoint = client[c].got.checkpoint)
  BY Zenon, <1>2, <1>3 DEF Stored
<1>5. PendingOK'
  BY Zenon, <1>1, <1>4 DEF PendingOK, ReadsSame
<1>6. MarksBefore'
  <2>1. OnTask => worker.id \in Ids
    BY Zenon DEF QueueInv, QueueOK, IdsInOrder
  <2>2. OnTask => Before(worker, tasks'[worker.id].checkpoint)
    BY Zenon, <1>1, <1>4, <2>1 DEF MarksBefore
  <2> QED
    BY Zenon, <1>1, <2>2 DEF MarksBefore, OnTask, ReadsSame
<1>7. ASSUME NEW e \in indexed, MustSettle(e)'
      PROVE  MustSettle(e)
  <2>1. e.task \in Ids
    BY Zenon, RecordsTyped
  <2>2. CASE tasks'[e.task] # NoTask /\ e.file <= tasks'[e.task].checkpoint
    BY Zenon, <1>1, <1>4, <2>1, <2>2 DEF MustSettle
  <2>3. CASE OnTask' /\ worker'.id = e.task /\ ~worker'.own
    BY Zenon, <1>1, <2>3 DEF MustSettle, OnTask
  <2> QED
    BY Zenon, <1>1, <1>7, <2>2, <2>3 DEF MustSettle, ReadsSame
<1> QED
  BY Zenon, <1>1, <1>5, <1>6, <1>7 DEF SettlesKept

LEMMA EnqueueStoreMarks ==
  ASSUME QueueInv, PendingOK, MarksBefore, NEW c \in Clients, EnqueueStore(c)
  PROVE  PendingOK' /\ MarksBefore' /\ SettlesKept
<1>1. UNCHANGED <<worker, indexed>> /\ ReadsSame /\ nextId \in Ids
  BY Zenon, ReadsKept DEF EnqueueStore
<1>2. Stored(nextId, client[c].task) /\ tasks[nextId] = NoTask /\ client[c].task.checkpoint = 0
  BY Zenon, EnqueueStoreKeepsQueue DEF IsNew
<1>3. \A id \in Ids \ {nextId} : tasks'[id] = tasks[id]
  BY Zenon, <1>2 DEF Stored
<1>4. /\ \A d \in Clients : client[d].pc = "cancel_store" => client[d].id # nextId
      /\ \A e \in indexed : e.task \in Ids /\ e.task # nextId
      /\ OnTask => worker.id \in Ids /\ worker.id # nextId
  BY <1>2, RecordsTyped DEF QueueInv, QueueOK, IdsInOrder
<1>5. PendingOK'
  BY Zenon, <1>1, <1>3, <1>4 DEF PendingOK, ReadsSame
<1>6. MarksBefore'
  BY Zenon, <1>1, <1>3, <1>4 DEF MarksBefore, OnTask, ReadsSame
<1>7. SettlesKept
  BY ZenonT(60), <1>1, <1>3, <1>4 DEF SettlesKept, MustSettle, OnTask, ReadsSame
<1> QED
  BY <1>5, <1>6, <1>7

\* The worker on its task.
LEMMA WorkerTyped ==
  ASSUME NEW w \in Worker
  PROVE  /\ w.from \in Nat /\ w.i \in Nat /\ w.list \in Seq(Files)
         /\ \A m \in 1..Len(w.list) : w.list[m] \in Nat
<1>1. w.from \in {0} \cup Files /\ w.i \in Nat /\ w.list \in Seq(Files)
  BY Zenon DEF Worker
<1>2. {0} \cup Files \subseteq Nat
  BY IndexBufferAssumption
<1>3. ASSUME NEW list \in Seq(Files), NEW m \in 1..Len(list)
      PROVE  list[m] \in Files
  OBVIOUS
<1> QED
  BY Zenon, <1>1, <1>2, <1>3

LEMMA AdvancedBefore ==
  ASSUME NEW w \in Worker, NEW r, ListOK(w), Advanced(w, r), NEW n \in Nat, n <= w.list[w.i]
  PROVE  Before(r, n)
<1>1. w.i \in 1..Len(w.list) /\ w.i \in Nat /\ r.list = w.list /\ \A m \in 1..Len(w.list) : w.list[m] \in Nat
  BY Zenon, WorkerTyped DEF ListOK, Advanced
<1>2. CASE r.pc = "finish"
  BY Zenon, <1>2 DEF Before, EarlyAt, ListAt
<1>3. CASE r.pc = "file" /\ r.i = w.i + 1 /\ r.i \in 1..Len(w.list)
  <2>1. w.list[w.i] < w.list[w.i + 1]
    BY <1>1, <1>3 DEF ListOK
  <2>2. n < r.list[r.i]
    BY <1>1, <1>3, <2>1
  <2>3. n <= r.list[r.i]
    BY <1>1, <1>3, <2>2
  <2> QED
    BY Zenon, <1>3, <2>2, <2>3 DEF Before, EarlyAt
<1>4. CASE r.pc \in {"final_flush", "checkpoint"} /\ r.i = w.i
  BY Zenon, <1>1, <1>4 DEF Before, EarlyAt
<1> QED
  BY Zenon, <1>2, <1>3, <1>4 DEF Advanced

LEMMA FinishBefore ==
  ASSUME NEW w, w.pc = "finish", NEW n
  PROVE  Before(w, n)
BY Zenon DEF Before, EarlyAt, ListAt

\* The steps of the worker that store no record.
LEMMA WorkerKeepsMarks ==
  ASSUME QueueInv,
         \/ ExecuteOther \/ Retire \/ FlushStarts \/ Retired \/ Flushed \/ FinalFlushed \/ ListFiles \/ IndexFile
         \/ WorkerUpdate \/ WorkerUpdateFails \/ NoFlushAfterFile \/ CheckpointRead \/ PruneLoad
  PROVE  UNCHANGED <<tasks, client>> /\ WorkerGoesOn
<1>0. worker \in Worker
  BY Zenon DEF QueueInv, QueueTypeOK
<1>1. CASE ExecuteOther
  <2>1. UNCHANGED <<tasks, client>>
    BY Zenon, <1>1 DEF ExecuteOther
  <2> QED
    BY Zenon, <1>1, <2>1, ExecuteOtherKeepsQueue, FinishBefore DEF WorkerGoesOn
<1>2. CASE Retire
  <2>1. UNCHANGED <<tasks, client>>
    BY Zenon, <1>2 DEF Retire
  <2>2. /\ worker.pc = "execute" /\ worker'.pc \in {"retire_flush", "list"} /\ worker'.id = worker.id
        /\ worker'.from = worker.from
    BY Zenon, <1>2, RetireKeepsQueue
  <2> QED
    BY Zenon, <2>1, <2>2 DEF WorkerGoesOn, OnTask, Before, EarlyAt, ListAt
<1>3. CASE FlushStarts
  <2>1. UNCHANGED <<tasks, client>> /\ OnTask /\ Place(worker')
    BY Zenon, <1>3, FlushStartsMoves
  <2>2. \/ worker.pc = "retire_flush" /\ worker'.pc = "retired"
        \/ worker.pc \in {"indexing", "final_flush"} /\ worker'.pc \in {"flushed", "final_flushed"}
    BY Zenon, <1>3, FlushStartsMoves
  <2> QED
    BY Zenon, <2>1, <2>2 DEF WorkerGoesOn, Before, EarlyAt, ListAt, Place
<1>4. CASE Retired
  <2>1. UNCHANGED <<tasks, client>> /\ worker.pc = "retired" /\ worker'.id = worker.id
    BY Zenon, <1>4, RetiredKeepsQueue
  <2>2. worker'.pc = "finish" \/ (worker'.pc = "list" /\ Place(worker'))
    BY Zenon, <1>4, RetiredKeepsQueue
  <2> QED
    BY Zenon, <2>1, <2>2 DEF WorkerGoesOn, OnTask, Before, EarlyAt, ListAt, Place
<1>5. CASE Flushed \/ FinalFlushed
  <2>1. UNCHANGED <<tasks, client>> /\ worker.pc \in {"flushed", "final_flushed"} /\ worker'.id = worker.id
    BY Zenon, <1>5, FlushedKeepsQueue
  <2>2. worker'.pc = "finish" \/ (worker'.pc = "checkpoint" /\ Place(worker'))
    BY Zenon, <1>5, FlushedKeepsQueue
  <2> QED
    BY Zenon, <2>1, <2>2 DEF WorkerGoesOn, OnTask, Before, EarlyAt, ListAt, Place
<1>6. CASE ListFiles
  <2>1. UNCHANGED <<tasks, client>> /\ worker.pc = "list" /\ OnTask /\ worker'.id = worker.id
    BY Zenon, <1>6, ListFilesKeepsQueue DEF ListFiles, At
  <2>2. worker'.pc = "finish" \/ (worker'.pc = "file" /\ worker'.list[worker'.i] > worker.from)
    BY Zenon, <1>6, ListFilesKeepsQueue
  <2>3. CASE worker'.pc = "finish"
    BY Zenon, <2>1, <2>3, FinishBefore DEF WorkerGoesOn
  <2>4. CASE worker'.pc = "file" /\ worker'.list[worker'.i] > worker.from
    <3>1. worker'.list[worker'.i] \in Nat /\ worker.from \in Nat
      <4>1. worker' \in Worker /\ worker'.i \in 1..Len(worker'.list)
        BY Zenon, <1>6, <2>4, ListFilesKeepsQueue DEF QueueInv, QueueTypeOK, QueueOK, WorkerOK, ListAt
      <4> QED
        BY Zenon, <1>0, <4>1, WorkerTyped
    <3>2. ASSUME NEW n \in Nat, Before(worker, n)
          PROVE  n < worker'.list[worker'.i] /\ n <= worker'.list[worker'.i]
      <4>1. n <= worker.from
        BY Zenon, <2>1, <3>2 DEF Before, EarlyAt
      <4> QED
        BY <2>4, <3>1, <4>1
    <3>3. \A n \in Nat : Before(worker, n) => Before(worker', n)
      BY Zenon, <2>4, <3>2 DEF Before, EarlyAt
    <3> QED
      BY Zenon, <2>1, <3>3 DEF WorkerGoesOn
  <2> QED
    BY Zenon, <2>2, <2>3, <2>4
<1>7. CASE IndexFile
  <2>1. UNCHANGED <<tasks, client>> /\ worker.pc = "file" /\ worker'.id = worker.id
    BY Zenon, <1>7, IndexFileKeepsQueue
  <2>2. OnTask /\ \A n : Before(worker, n) => n < worker.list[worker.i] /\ n <= worker.list[worker.i]
    BY Zenon, <2>1 DEF OnTask, Before, ListAt
  <2>3. CASE worker'.pc = "indexing" /\ worker'.list = worker.list /\ worker'.i = worker.i
    BY Zenon, <2>1, <2>2, <2>3 DEF WorkerGoesOn, Before, EarlyAt
  <2>4. ASSUME NEW w \in Worker, ListOK(w), w.list = worker.list, w.i = worker.i, Advanced(w, worker')
        PROVE  \A n \in Nat : Before(worker, n) => Before(worker', n)
    BY Zenon, <2>2, <2>4, AdvancedBefore
  <2>5. \/ worker'.pc = "indexing" /\ worker'.list = worker.list /\ worker'.i = worker.i
        \/ \E w \in Worker : ListOK(w) /\ w.list = worker.list /\ w.i = worker.i /\ Advanced(w, worker')
    BY Zenon, <1>7, IndexFileKeepsQueue
  <2> QED
    BY Zenon, <2>1, <2>2, <2>3, <2>4, <2>5 DEF WorkerGoesOn
<1>8. CASE WorkerUpdate \/ WorkerUpdateFails
  <2>1. UNCHANGED <<tasks, client>>
    BY Zenon, <1>8 DEF WorkerUpdate, WorkerUpdateFails
  <2>2. worker.pc = "indexing" /\ worker'.pc = "indexing" /\ Place(worker')
    BY Zenon, <1>8, WorkerUpdateKeepsQueue, WorkerUpdateFailsKeepsQueue
  <2> QED
    BY Zenon, <2>1, <2>2 DEF WorkerGoesOn, OnTask, Before, EarlyAt, ListAt, Place
<1>9. CASE NoFlushAfterFile
  <2>1. UNCHANGED <<tasks, client>> /\ worker.pc = "indexing"
    BY Zenon, <1>9 DEF NoFlushAfterFile, At
  <2>2. OnTask /\ ListOK(worker) /\ Advanced(worker, worker')
    BY Zenon, <1>9, NoFlushAfterFileKeepsQueue
  <2>3. worker'.id = worker.id /\ \A n : Before(worker, n) => n <= worker.list[worker.i]
    BY Zenon, <2>1, <2>2 DEF Before, ListAt, Advanced
  <2> QED
    BY Zenon, <1>0, <2>1, <2>2, <2>3, AdvancedBefore DEF WorkerGoesOn
<1>10. CASE CheckpointRead
  <2>1. UNCHANGED <<tasks, client>>
    BY Zenon, <1>10 DEF CheckpointRead
  <2>2. /\ worker.pc = "checkpoint" /\ worker'.pc = "checkpoint_store" /\ worker'.id = worker.id
        /\ worker'.list = worker.list /\ worker'.i = worker.i
    BY Zenon, <1>10, CheckpointReadKeepsQueue
  <2> QED
    BY ZenonT(30), <2>1, <2>2 DEF WorkerGoesOn, OnTask, Before, EarlyAt, ListAt
<1>11. CASE PruneLoad
  <2>1. UNCHANGED <<tasks, client>>
    BY Zenon, <1>11 DEF PruneLoad
  <2> QED
    BY Zenon, <1>11, <2>1, PruneLoadKeepsQueue DEF WorkerGoesOn, OffTask
<1> QED
  BY Zenon, <1>1, <1>2, <1>3, <1>4, <1>5, <1>6, <1>7, <1>8, <1>9, <1>10, <1>11

\* The steps that store a record or start a task.
LEMMA DequeueMarks ==
  ASSUME QueueInv, PendingOK, MarksBefore, Dequeue
  PROVE  PendingOK' /\ MarksBefore' /\ SettlesKept
<1>1. UNCHANGED <<tasks, client, indexed>>
  BY Zenon DEF Dequeue
<1>2. /\ worker'.pc = "claim" /\ worker'.id \in Ids /\ worker'.own = FALSE /\ tasks[worker'.id] # NoTask
      /\ tasks[worker'.id].status = "pending" /\ worker'.from = tasks[worker'.id].checkpoint
  BY Zenon, DequeueKeepsQueue
<1>3. \A n : n <= worker'.from => Before(worker', n)
  BY Zenon, <1>2 DEF Before, ListAt
<1>4. worker'.from <= worker'.from
  BY <1>2, RecordsTyped
<1>5. MarksBefore'
  BY Zenon, <1>1, <1>2, <1>3, <1>4 DEF MarksBefore, PendingOK
<1>6. SettlesKept
  BY Zenon, <1>1, <1>2 DEF SettlesKept, MustSettle, PendingOK
<1> QED
  BY Zenon, <1>1, <1>5, <1>6 DEF PendingOK

\* A record of the worker's task is stored, not pending.
LEMMA StoringMarks ==
  ASSUME QueueInv, PendingOK, MarksBefore, OnTask, NEW task \in Task, Stored(worker.id, task), task.status # "pending",
         UNCHANGED <<client, indexed>>, WorkerGoesOn,
         worker'.pc \notin OffTask => Before(worker', task.checkpoint) /\ worker'.own = worker.own,
         task.checkpoint = tasks[worker.id].checkpoint \/ ~worker.own
  PROVE  PendingOK' /\ MarksBefore' /\ SettlesKept
<1>1. worker.id \in Ids /\ tasks[worker.id] # NoTask
  BY Zenon DEF QueueInv, QueueOK, IdsInOrder
<1>2. tasks'[worker.id] = task /\ \A id \in Ids \ {worker.id} : tasks'[id] = tasks[id]
  BY Zenon DEF Stored
<1>3. PendingOK'
  BY Zenon, <1>2 DEF PendingOK
<1>4. MarksBefore'
  <2>1. SUFFICES ASSUME OnTask'
                 PROVE  /\ Before(worker', tasks'[worker'.id].checkpoint)
                        /\ \A c \in Clients : client[c].pc = "cancel_store" /\ client[c].id = worker'.id =>
                             Before(worker', client[c].got.checkpoint)
    BY Zenon DEF MarksBefore
  <2>2. /\ worker'.pc \notin OffTask /\ worker'.id = worker.id
        /\ \A n \in Nat : Before(worker, n) => Before(worker', n)
    BY Zenon, <2>1 DEF WorkerGoesOn, OnTask, OffTask
  <2> QED
    BY Zenon, <1>2, <2>2, RecordsTyped DEF MarksBefore
<1>5. ASSUME NEW e \in indexed, MustSettle(e)'
      PROVE  MustSettle(e)
  <2>1. e.task \in Ids
    BY Zenon, RecordsTyped
  <2>2. CASE tasks'[e.task] # NoTask /\ e.file <= tasks'[e.task].checkpoint
    BY Zenon, <1>1, <1>2, <2>1, <2>2 DEF MustSettle
  <2>3. CASE OnTask' /\ worker'.id = e.task /\ ~worker'.own
    BY Zenon, <2>3 DEF MustSettle, OnTask, OffTask, WorkerGoesOn
  <2> QED
    BY Zenon, <1>5, <2>2, <2>3 DEF MustSettle
<1> QED
  BY Zenon, <1>3, <1>4, <1>5 DEF SettlesKept

LEMMA ClaimMarks ==
  ASSUME QueueInv, PendingOK, MarksBefore, Claim
  PROVE  PendingOK' /\ MarksBefore' /\ SettlesKept
<1>1. UNCHANGED <<client, indexed>> /\ OnTask /\ worker.pc = "claim"
  BY Zenon, ClaimKeepsQueue DEF Claim, At
<1>2. PICK task \in Task : /\ Stored(worker.id, task) /\ task.status = "running"
                           /\ task.checkpoint = tasks[worker.id].checkpoint
  BY Zenon, ClaimKeepsQueue
<1>3. worker'.pc = "execute" /\ worker'.id = worker.id /\ worker'.from = worker.from /\ worker'.own = worker.own
  BY Zenon, ClaimKeepsQueue
<1>4. \A n : Before(worker, n) => Before(worker', n)
  BY Zenon, <1>1, <1>3 DEF Before, EarlyAt, ListAt
<1>5. WorkerGoesOn /\ Before(worker', task.checkpoint)
  BY Zenon, <1>1, <1>2, <1>3, <1>4 DEF WorkerGoesOn, MarksBefore
<1>6. task.status # "pending"
  BY Zenon, <1>2
<1> QED
  BY Zenon, <1>1, <1>2, <1>3, <1>5, <1>6, StoringMarks

LEMMA FinishMarks ==
  ASSUME QueueInv, PendingOK, MarksBefore, Finish
  PROVE  PendingOK' /\ MarksBefore' /\ SettlesKept
<1>1. UNCHANGED <<client, indexed>> /\ OnTask /\ worker'.pc = "prune"
  BY Zenon, FinishKeepsQueue DEF Finish
<1>2. PICK task \in Task : /\ Stored(worker.id, task) /\ task.status \in {"completed", "failed"}
                           /\ task.checkpoint = tasks[worker.id].checkpoint
  BY Zenon, FinishKeepsQueue
<1>3. worker'.pc \in OffTask /\ task.status # "pending"
  BY Zenon, <1>1, <1>2 DEF OffTask
<1> QED
  BY Zenon, <1>1, <1>2, <1>3, StoringMarks DEF WorkerGoesOn

LEMMA CheckpointStoreMarks ==
  ASSUME QueueInv, PendingOK, MarksBefore, CheckpointStore
  PROVE  PendingOK' /\ MarksBefore' /\ SettlesKept
<1>1. UNCHANGED <<client, indexed>>
  BY Zenon DEF CheckpointStore
<1>2. /\ OnTask /\ worker.pc = "checkpoint_store" /\ ListOK(worker)
      /\ worker'.id = worker.id /\ worker'.own = worker.own
  BY Zenon, CheckpointStoreKeepsQueue
<1>3. PICK task \in Task : /\ Stored(worker.id, task) /\ task.status # "pending" /\ task.checkpoint = worker.last
  BY Zenon, CheckpointStoreKeepsQueue
<1>4. worker.last = worker.list[worker.i] /\ ~worker.own /\ task.checkpoint \in Nat
  BY Zenon, <1>2, CheckpointTyped DEF ListOK, QueueInv, QueueOK, WorkerOK
<1>5. task.checkpoint <= worker.list[worker.i] /\ \A n : Before(worker, n) => n <= worker.list[worker.i]
  BY <1>2, <1>3, <1>4 DEF Before, ListAt
<1>6. \A n \in Nat : n <= worker.list[worker.i] => Before(worker', n)
  <2>1. \/ worker'.pc = "finish"
        \/ \E w \in Worker : ListOK(w) /\ w.list = worker.list /\ w.i = worker.i /\ Advanced(w, worker')
    BY Zenon, CheckpointStoreKeepsQueue
  <2> QED
    BY Zenon, <2>1, FinishBefore, AdvancedBefore
<1>7. WorkerGoesOn /\ Before(worker', task.checkpoint)
  BY Zenon, <1>2, <1>4, <1>5, <1>6 DEF WorkerGoesOn
<1> QED
  BY Zenon, <1>1, <1>2, <1>3, <1>4, <1>7, StoringMarks

LEMMA PruneSaveMarks ==
  ASSUME QueueInv, PendingOK, MarksBefore, PruneSave
  PROVE  PendingOK' /\ MarksBefore' /\ SettlesKept
<1>1. UNCHANGED <<client, indexed>> /\ worker' = IdleWorker
  BY Zenon DEF PruneSave
<1>2. \A id \in Ids : tasks'[id] = NoTask \/ tasks'[id] = tasks[id]
  BY Zenon, PruneSaveKeepsQueue
<1>3. ~OnTask'
  BY Zenon, <1>1, IdleRecords DEF OnTask
<1>4. PendingOK'
  BY Zenon, <1>1, <1>2 DEF PendingOK
<1>5. SettlesKept
  BY Zenon, <1>1, <1>2, <1>3, RecordsTyped DEF SettlesKept, MustSettle
<1> QED
  BY Zenon, <1>3, <1>4, <1>5 DEF MarksBefore

LEMMA RestartMarks ==
  ASSUME QueueInv, PendingOK, Restart
  PROVE  /\ PendingOK' /\ MarksBefore' /\ ~OnTask'
         /\ \A e \in indexed' : MustSettle(e)
<1>1. /\ worker' = IdleWorker /\ tasks' = ResetTasks /\ \A c \in Clients : client'[c] = IdleClient
      /\ indexed' = {e \in indexed : tasks[e.task] # NoTask /\ e.file <= tasks[e.task].checkpoint}
  BY Zenon DEF Restart
<1>2. ~OnTask' /\ \A c \in Clients : client'[c].pc # "cancel_store"
  BY Zenon, <1>1, IdleRecords DEF OnTask
<1>3. \A id \in Ids : \/ tasks'[id] = tasks[id]
                      \/ tasks[id] # NoTask /\ tasks'[id].checkpoint = tasks[id].checkpoint
  BY Zenon, <1>1, ResetMoves DEF QueueInv
<1>4. \A e \in indexed' : e.file <= tasks[e.task].checkpoint /\ MustSettle(e)
  BY Zenon, <1>1 DEF MustSettle
<1>5. PendingOK'
  BY Zenon, <1>2, <1>3, <1>4 DEF PendingOK
<1> QED
  BY Zenon, <1>2, <1>4, <1>5 DEF MarksBefore

LEMMA OthersMarks ==
  ASSUME QueueInv, PendingOK, MarksBefore,
         \/ \E c \in Clients : ClientStep(c) \/ RequestStep(c)
         \/ \E t \in Threads : BufferStep(t)
         \/ Cleaner \/ Shutdown \/ UNCHANGED vars
  PROVE  PendingOK' /\ MarksBefore' /\ SettlesKept /\ worker' = worker /\ indexed' = indexed
<1>1. ASSUME UNCHANGED <<tasks, worker, client, indexed>>
      PROVE  PendingOK' /\ MarksBefore' /\ SettlesKept /\ worker' = worker /\ indexed' = indexed
  BY Zenon, <1>1, SameMarks DEF ReadsSame
<1>2. ASSUME NEW c \in Clients, ClientStep(c) \/ RequestStep(c)
      PROVE  PendingOK' /\ MarksBefore' /\ SettlesKept /\ worker' = worker /\ indexed' = indexed
  <2>1. CASE StoreFile(c) \/ DeleteFile(c)
    BY Zenon, <1>1, <2>1 DEF StoreFile, DeleteFile
  <2>2. CASE PutConfig(c) \/ CancelTask(c) \/ TriggerTask(c) \/ EnqueueRegister(c) \/ EvictCaches(c)
    <3>1. UNCHANGED <<tasks, worker, indexed>>
      BY Zenon, <2>2 DEF PutConfig, CancelTask, TriggerTask, EnqueueRegister, EvictCaches
    <3> QED
      BY Zenon, <2>2, <3>1, ReadsKept, SameMarks
  <2>3. CASE CancelRead(c) \/ CancelStore(c) \/ EnqueueStore(c)
    BY Zenon, <2>3, CancelReadMarks, CancelStoreMarks, EnqueueStoreMarks DEF CancelRead, CancelStore, EnqueueStore
  <2> QED
    BY Zenon, <1>2, <2>1, <2>2, <2>3 DEF ClientStep, RequestStep
<1>3. CASE (\E t \in Threads : BufferStep(t)) \/ Cleaner \/ Shutdown \/ UNCHANGED vars
  BY Zenon, <1>1, <1>3 DEF BufferStep, Cleaner, Shutdown, vars, taskVars
<1> QED
  BY Zenon, <1>2, <1>3

LEMMA MarksKept ==
  ASSUME QueueInv, PendingOK, MarksBefore, [Next]_vars
  PROVE  PendingOK' /\ MarksBefore'
<1>1. CASE \/ \E c \in Clients : ClientStep(c) \/ RequestStep(c)
           \/ \E t \in Threads : BufferStep(t)
           \/ Cleaner \/ Shutdown \/ UNCHANGED vars
  BY Zenon, <1>1, OthersMarks
<1>2. CASE Dequeue \/ Claim \/ Finish \/ CheckpointStore \/ PruneSave
  BY Zenon, <1>2, DequeueMarks, ClaimMarks, FinishMarks, CheckpointStoreMarks, PruneSaveMarks
<1>3. CASE WorkerUpdate
  <2>1. \A e \in indexed' : e \in indexed \/ (worker.pc = "indexing" /\ e.task = worker.id)
    BY Zenon, <1>3, WorkerUpdateKeepsQueue
  <2>2. \A e \in indexed' : e \in indexed \/ (OnTask /\ worker.pc # "claim" /\ e.task = worker.id)
    BY Zenon, <2>1 DEF OnTask
  <2> QED
    BY Zenon, <1>3, <2>2, WorkerKeepsMarks, WorkerMarks
<1>4. CASE \/ ExecuteOther \/ Retire \/ FlushStarts \/ Retired \/ Flushed \/ FinalFlushed \/ ListFiles \/ IndexFile
           \/ WorkerUpdateFails \/ NoFlushAfterFile \/ CheckpointRead \/ PruneLoad
  <2>1. indexed' \subseteq indexed
    BY Zenon, <1>4 DEF ExecuteOther, Retire, FlushStarts, RetireFlush, FlushAfterFile, FinalFlush, ForcedFlush, Retired, Flushed,
       FinalFlushed, FlushEnded, ListFiles, IndexFile, WorkerUpdateFails, NoFlushAfterFile, CheckpointRead, PruneLoad
  <2> QED
    BY Zenon, <1>4, <2>1, WorkerKeepsMarks, WorkerMarks
<1>5. CASE Crash \/ ShutdownDone
  BY Zenon, <1>5, RestartMarks DEF Crash, ShutdownDone
<1> QED
  BY Zenon, <1>1, <1>2, <1>3, <1>4, <1>5 DEF Next, WorkerStep, FlushStarts

-----------------------------------------------------------------------------
(* A step keeps an update.                                                 *)

\* What every step does to an update that is kept.
Stays(e) ==
  /\ Kept(e)'
  /\ Settled(e) => Settled(e)'
  /\ InFlush(e, "worker") => InFlush(e, "worker")' \/ Settled(e)' \/ flush'["worker"].failed

\* Nobody starts to read the index.
NoReads == \A u \in Threads : job'[u] = job[u] \/ job'[u].field = NoField

LEMMA SameStays ==
  ASSUME SameBuffer, NoReads, NEW e, e.field \in Fields, NoField \notin Fields, Kept(e)
  PROVE  Stays(e)
<1>1. Settled(e)' <=> Settled(e)
  BY Zenon DEF SameBuffer, Settled
<1>2. \A u \in Threads : InFlush(e, u)' <=> InFlush(e, u)
  BY Zenon DEF SameBuffer, InFlush
<1>3. "worker" \in Threads
  BY Zenon DEF Threads
<1>4. Kept(e)'
  BY Zenon, <1>1, <1>2 DEF SameBuffer, NoReads, Kept
<1> QED
  BY Zenon, <1>1, <1>2, <1>3, <1>4 DEF Stays

\* The buffer changes so that the update is still seen, and no flush is taken.
LEMMA ChangedStays ==
  ASSUME NoReads, NEW e, e.field \in Fields, NoField \notin Fields, Kept(e), UNCHANGED <<disk, flush>>,
         e.field \in dirtyKeys => e.field \in dirtyKeys', e.field \notin deletedKeys',
         indexes'[e.field] # NoIndex => Has(indexes'[e.field], e),
         indexes'[e.field] = NoIndex => indexes[e.field] = NoIndex
  PROVE  Stays(e)
<1>1. Settled(e)' <=> Settled(e)
  BY Zenon DEF Settled
<1>2. \A u \in Threads : InFlush(e, u)' <=> InFlush(e, u)
  BY Zenon DEF InFlush
<1>3. "worker" \in Threads
  BY Zenon DEF Threads
<1>4. Kept(e)'
  BY Zenon, <1>1, <1>2 DEF NoReads, Kept
<1> QED
  BY ZenonT(30), <1>1, <1>2, <1>3, <1>4 DEF Stays

\* The same when a flush is taken: a dirty index goes into it.
LEMMA TakenStays ==
  ASSUME NoReads, NEW e, e.field \in Fields, NoField \notin Fields, Kept(e), UNCHANGED disk,
         NEW t \in Threads, ~Flushing(t), NEW dirty, NEW deleted, Taken(t, dirty, deleted),
         dirtyKeys \subseteq dirty, e.field \notin deleted,
         indexes'[e.field] # NoIndex => Has(indexes'[e.field], e),
         indexes'[e.field] = NoIndex => indexes[e.field] = NoIndex /\ e.field \notin dirty
  PROVE  Stays(e) /\ (e.field \in dirty => InFlush(e, t)')
<1>1. e.field \in flush'[t].unsaved => Has(flush'[t].saves[e.field], e)
  BY Zenon DEF Taken
<1>2. e.field \in dirty => InFlush(e, t)'
  BY Zenon, <1>1 DEF Taken, InFlush
<1>3. Settled(e) => Settled(e)'
  <2>1. ASSUME Settled(e), NEW u \in Threads
        PROVE  /\ e.field \in flush'[u].unsaved => Has(flush'[u].saves[e.field], e)
               /\ e.field \notin flush'[u].undeleted
    BY ZenonT(30), <1>1, <2>1 DEF Taken, Settled
  <2> QED
    BY Zenon, <2>1 DEF Settled
<1>4. \A u \in Threads : InFlush(e, u) => InFlush(e, u)'
  <2>1. ~InFlush(e, t)
    BY Zenon DEF InFlush, Flushing
  <2> QED
    BY Zenon, <2>1 DEF Taken, InFlush
<1>5. e.field \in dirtyKeys' \/ (\E u \in Threads : InFlush(e, u)') \/ Settled(e)'
  BY Zenon, <1>2, <1>3, <1>4 DEF Kept
<1>6. ASSUME indexes'[e.field] = NoIndex
      PROVE  /\ Has(disk'[e.field], e)
             /\ \A u \in Threads : /\ e.field \notin flush'[u].deletes \cup DOMAIN flush'[u].saves
                                   /\ job'[u].field = e.field => Has(job'[u].held, e)
  <2>1. Has(disk[e.field], e) /\ \A u \in Threads : /\ e.field \notin flush[u].deletes \cup DOMAIN flush[u].saves
                                                    /\ job[u].field = e.field => Has(job[u].held, e)
    BY Zenon, <1>6 DEF Kept
  <2>2. e.field \notin flush'[t].deletes \cup DOMAIN flush'[t].saves
    BY Zenon, <1>6 DEF Taken
  <2> QED
    BY ZenonT(30), <2>1, <2>2 DEF Taken, NoReads
<1>7. Kept(e)'
  <2>1. e.field \notin deletedKeys'
    BY Zenon DEF Taken
  <2> QED
    BY Zenon, <1>5, <1>6, <2>1 DEF Kept
<1>8. "worker" \in Threads
  BY Zenon DEF Threads
<1> QED
  BY Zenon, <1>2, <1>3, <1>4, <1>7, <1>8 DEF Stays

\* An update or a removal of another entry keeps it.
LEMMA UpdateStays ==
  ASSUME QueueInv, DirtyOK, NEW t \in Threads, update_index(t), Current(t), UNCHANGED disk,
         NEW e \in Update, Live(e), Kept(e)
  PROVE  Stays(e)
<1>k. PICK k, f : k = job[t].field /\ f = job[t].file
  BY Zenon
<1>0. IndexTypeOK /\ e.field \in Fields /\ e.file \in Files /\ NoField \notin Fields
  BY Zenon, IndexBufferAssumption DEF QueueInv, Update
<1>1. /\ JobGoesOn(t) /\ job'[t].field = NoField /\ job[t].op = "update" /\ k \in Fields
      /\ \A other \in Fields \ {k} : indexes'[other] = indexes[other]
      /\ indexes'[k] \in Index /\ Entered(t, k, f)
  BY Zenon, <1>k, <1>0, UpdateMoves
<1>2. \/ /\ deletedKeys' = deletedKeys \ {k} /\ dirtyKeys' = dirtyKeys \cup {k} /\ UNCHANGED flush
      \/ Taken(t, dirtyKeys \cup {k}, deletedKeys \ {k})
  BY Zenon, <1>k, <1>0, UpdateMoves
<1>3. job[t].value = content[f] /\ ~Flushing(t) /\ NoReads
  <2>1. k # NoField
    BY Zenon, <1>0, <1>1
  <2> QED
    BY Zenon, <1>k, <1>1, <2>1 DEF Current, JobGoesOn, NoReads, QueueInv, JobsOK, JobOK
<1>4. indexes'[e.field] # NoIndex => Has(indexes'[e.field], e)
  <2>1. CASE e.field # k
    BY Zenon, <1>0, <1>1, <2>1 DEF Kept
  <2>2. CASE e.field = k /\ e.file = f
    BY Zenon, <1>1, <1>3, <2>2, NoIndexIsNone DEF Has, Live, Entered
  <2>3. CASE e.field = k /\ e.file # f
    <3>1. CASE indexes[k] # NoIndex
      BY Zenon, <1>0, <1>1, <2>3, <3>1 DEF Has, Kept, Entered
    <3>2. CASE indexes[k] = NoIndex
      <4>1. Has(job[t].held, e)
        BY Zenon, <1>k, <2>3, <3>2 DEF Kept
      <4> QED
        BY Zenon, <1>0, <1>1, <2>3, <3>2, <4>1 DEF Has, Entered
    <3> QED
      BY Zenon, <3>1, <3>2
  <2> QED
    BY Zenon, <2>1, <2>2, <2>3
<1>5. indexes'[e.field] = NoIndex => indexes[e.field] = NoIndex /\ e.field \notin dirtyKeys \cup {k}
  BY Zenon, <1>0, <1>1, NoIndexIsNone DEF DirtyOK
<1>6. e.field \notin deletedKeys \ {k} /\ dirtyKeys \subseteq dirtyKeys \cup {k}
  BY Zenon DEF Kept
<1>7. CASE deletedKeys' = deletedKeys \ {k} /\ dirtyKeys' = dirtyKeys \cup {k} /\ UNCHANGED flush
  BY Zenon, <1>0, <1>3, <1>4, <1>5, <1>6, <1>7, ChangedStays
<1>8. CASE Taken(t, dirtyKeys \cup {k}, deletedKeys \ {k})
  BY Zenon, <1>0, <1>3, <1>4, <1>5, <1>6, <1>8, TakenStays
<1> QED
  BY Zenon, <1>2, <1>7, <1>8

LEMMA RemoveStays ==
  ASSUME QueueInv, DirtyOK, NEW t \in Threads, remove_file_from_index(t), Current(t),
         NEW e \in Update, Live(e), Kept(e)
  PROVE  Stays(e)
<1>k. PICK k, f : k = job[t].field /\ f = job[t].file
  BY Zenon
<1>0. IndexTypeOK /\ e.field \in Fields /\ e.file \in Files /\ e.version # 0 /\ NoField \notin Fields
  BY Zenon, IndexBufferAssumption DEF QueueInv, Update
<1>1. /\ JobGoesOn(t) /\ job'[t].field = NoField /\ job[t].op = "remove" /\ k \in Fields /\ UNCHANGED disk
      /\ \A other \in Fields \ {k} : indexes'[other] = indexes[other]
      /\ indexes'[k] = indexes[k] \/ indexes'[k] \in Index
      /\ Removed(t, k, f)
  BY Zenon, <1>k, <1>0, RemoveMoves
<1>2. \E dirty \in {dirtyKeys, dirtyKeys \cup {k}} :
        /\ dirty # dirtyKeys => indexes'[k] # NoIndex
        /\ \/ dirtyKeys' = dirty /\ UNCHANGED <<deletedKeys, flush>>
           \/ Taken(t, dirty, deletedKeys)
  BY <1>k, <1>0, RemoveMoves
<1>3. content[f] = 0 /\ ~Flushing(t) /\ NoReads
  <2>1. k # NoField
    BY Zenon, <1>0, <1>1
  <2> QED
    BY Zenon, <1>k, <1>1, <2>1 DEF Current, JobGoesOn, NoReads, QueueInv, JobsOK, JobOK
<1>4. e.file # f
  BY Zenon, <1>0, <1>3 DEF Live
<1>5. indexes'[e.field] # NoIndex => Has(indexes'[e.field], e)
  <2>1. CASE e.field # k \/ indexes'[k] = indexes[k]
    BY Zenon, <1>0, <1>1, <2>1 DEF Kept
  <2>2. CASE e.field = k /\ indexes'[k] # indexes[k]
    <3>1. CASE indexes[k] # NoIndex
      BY Zenon, <1>0, <1>1, <1>4, <2>2, <3>1 DEF Has, Kept, Removed
    <3>2. CASE indexes[k] = NoIndex
      <4>1. Has(job[t].held, e)
        BY Zenon, <1>k, <2>2, <3>2 DEF Kept
      <4> QED
        BY Zenon, <1>0, <1>1, <1>4, <2>2, <3>2, <4>1 DEF Has, Removed
    <3> QED
      BY Zenon, <3>1, <3>2
  <2> QED
    BY Zenon, <2>1, <2>2
<1>6. PICK dirty \in {dirtyKeys, dirtyKeys \cup {k}} :
        /\ dirty # dirtyKeys => indexes'[k] # NoIndex
        /\ \/ dirtyKeys' = dirty /\ UNCHANGED <<deletedKeys, flush>>
           \/ Taken(t, dirty, deletedKeys)
  BY Zenon, <1>2
<1>7. indexes'[e.field] = NoIndex => indexes[e.field] = NoIndex /\ e.field \notin dirty
  <2>1. indexes'[e.field] = NoIndex => indexes[e.field] = NoIndex
    BY Zenon, <1>0, <1>1, NoIndexIsNone
  <2> QED
    BY Zenon, <1>6, <2>1 DEF DirtyOK
<1>8. e.field \notin deletedKeys /\ dirtyKeys \subseteq dirty
  BY Zenon, <1>6 DEF Kept
<1>9. CASE dirtyKeys' = dirty /\ UNCHANGED <<deletedKeys, flush>>
  BY Zenon, <1>0, <1>1, <1>3, <1>5, <1>7, <1>8, <1>9, ChangedStays
<1>10. CASE Taken(t, dirty, deletedKeys)
  BY Zenon, <1>0, <1>1, <1>3, <1>5, <1>7, <1>8, <1>10, TakenStays
<1> QED
  BY Zenon, <1>6, <1>9, <1>10

\* A flush of what is dirty keeps it, and takes it when it is dirty.
LEMMA FlushStays ==
  ASSUME DirtyOK, NEW t \in Threads, ~Flushing(t), Taken(t, dirtyKeys, deletedKeys), UNCHANGED <<indexes, disk, job>>,
         NEW e \in Update, Kept(e)
  PROVE  Stays(e) /\ (e.field \in dirtyKeys => InFlush(e, t)')
<1>1. e.field \in Fields /\ NoField \notin Fields /\ NoReads
  BY Zenon, IndexBufferAssumption DEF Update, NoReads
<1>2. /\ indexes'[e.field] # NoIndex => Has(indexes'[e.field], e)
      /\ indexes'[e.field] = NoIndex => indexes[e.field] = NoIndex /\ e.field \notin dirtyKeys
      /\ e.field \notin deletedKeys
  BY Zenon DEF Kept, DirtyOK
<1> QED
  BY Zenon, <1>1, <1>2, TakenStays

\* A job that reads the index reads it.
LEMMA LoadStays ==
  ASSUME QueueInv, NEW t \in Threads, LoadForUpdate(t) \/ LoadForRemove(t), NEW e \in Update, Kept(e)
  PROVE  Stays(e)
<1>0. IndexTypeOK /\ e.field \in Fields /\ NoField \notin Fields /\ "worker" \in Threads
  BY Zenon, IndexBufferAssumption DEF QueueInv, Update, Threads
<1>1. /\ UNCHANGED <<indexes, dirtyKeys, deletedKeys, disk, flush>>
      /\ \A u \in Threads \ {t} : job'[u] = job[u]
      /\ job'[t].field # NoField /\ indexes[job'[t].field] = NoIndex /\ job'[t].field \notin deletedKeys =>
           job'[t].held = disk[job'[t].field]
  BY Zenon, <1>0, LoadMoves DEF JobGoesOn, bufferVars
<1>2. Settled(e)' <=> Settled(e)
  BY Zenon, <1>1 DEF Settled
<1>3. \A u \in Threads : InFlush(e, u)' <=> InFlush(e, u)
  BY Zenon, <1>1 DEF InFlush
<1>4. ASSUME indexes[e.field] = NoIndex, NEW u \in Threads, job'[u].field = e.field
      PROVE  Has(job'[u].held, e)
  <2>1. CASE u = t
    BY Zenon, <1>0, <1>1, <1>4, <2>1 DEF Kept
  <2>2. CASE u # t
    BY Zenon, <1>1, <1>4, <2>2 DEF Kept
  <2> QED
    BY Zenon, <2>1, <2>2
<1>5. Kept(e)'
  BY Zenon, <1>1, <1>2, <1>3, <1>4 DEF Kept
<1> QED
  BY Zenon, <1>0, <1>2, <1>3, <1>5 DEF Stays

\* A write of the only flush under way keeps it, and settles it when it is in it.
LEMMA WriteStays ==
  ASSUME QueueInv, OneFlush, "flusher" \notin blame, NEW t \in Threads, write_flush_snapshot(t), NEW e \in Update, Kept(e)
  PROVE  Stays(e)
<1>0. IndexTypeOK /\ FlushesOK /\ FlushOK(t) /\ e.field \in Fields /\ "worker" \in Threads
  BY Zenon DEF QueueInv, FlushesOK, Update, Threads
<1>1. UNCHANGED <<bufferVars, job>> /\ \E k \in Fields : WriteStep(t, k)
  BY ZenonT(30), <1>0, WriteMoves
<1>2. PICK k \in Fields : WriteStep(t, k)
  BY Zenon, <1>1
<1>3. \A u \in Threads \ {t} : flush'[u] = flush[u] /\ flush[u].unsaved = {} /\ flush[u].undeleted = {}
  <2>1. Flushing(t)
    BY Zenon, <1>2 DEF WriteStep, Flushing
  <2>2. \A u \in Threads \ {t} : ~Flushing(u)
    BY Zenon, <2>1 DEF OneFlush
  <2> QED
    BY Zenon, <1>2, <2>2 DEF WriteStep, Flushing
<1>4. /\ flush'[t].unsaved \subseteq flush[t].unsaved /\ flush'[t].undeleted \subseteq flush[t].undeleted
      /\ flush'[t].saves = flush[t].saves /\ flush'[t].deletes = flush[t].deletes
      /\ k \in DOMAIN flush[t].saves \cup flush[t].deletes
  BY Zenon, <1>0, <1>2 DEF WriteStep, FlushOK
<1>5. e.field # k => disk'[e.field] = disk[e.field]
  BY Zenon, <1>0, <1>2 DEF WriteStep
<1>6. Settled(e) => Settled(e)'
  <2>1. Settled(e) => Has(disk'[e.field], e)
    BY ZenonT(30), <1>2, <1>5 DEF WriteStep, Settled
  <2>2. ASSUME Settled(e), NEW u \in Threads
        PROVE  /\ e.field \in flush'[u].unsaved => Has(flush'[u].saves[e.field], e)
               /\ e.field \notin flush'[u].undeleted
    BY Zenon, <1>3, <1>4, <2>2 DEF Settled
  <2> QED
    BY Zenon, <2>1, <2>2 DEF Settled
<1>7. InFlush(e, t) => InFlush(e, t)' \/ Settled(e)'
  <2>1. SUFFICES ASSUME InFlush(e, t)
                 PROVE  InFlush(e, t)' \/ Settled(e)'
    BY Zenon
  <2>2. /\ k \in flush[t].unsaved /\ disk'[k] = flush[t].saves[k]
        /\ flush'[t].unsaved = flush[t].unsaved \ {k} /\ flush'[t].undeleted = flush[t].undeleted
    BY Zenon, <1>2, <2>1 DEF WriteStep, InFlush
  <2>3. CASE e.field # k
    BY Zenon, <1>4, <2>1, <2>2, <2>3 DEF InFlush
  <2>4. CASE e.field = k
    <3>1. Has(disk'[e.field], e)
      BY Zenon, <2>1, <2>2, <2>4 DEF InFlush
    <3>2. e.field \notin flush'[t].unsaved /\ e.field \notin flush'[t].undeleted
      BY Zenon, <1>0, <2>2, <2>4 DEF FlushOK
    <3>3. \A u \in Threads : e.field \notin flush'[u].unsaved /\ e.field \notin flush'[u].undeleted
      BY Zenon, <1>3, <3>2
    <3> QED
      BY Zenon, <3>1, <3>3 DEF Settled
  <2> QED
    BY Zenon, <2>3, <2>4
<1>8. \A u \in Threads : InFlush(e, u) => InFlush(e, u)' \/ Settled(e)'
  BY Zenon, <1>3, <1>7 DEF InFlush
<1>9. Kept(e)'
  <2>1. ASSUME indexes[e.field] = NoIndex
        PROVE  /\ Has(disk'[e.field], e)
               /\ \A u \in Threads : /\ e.field \notin flush'[u].deletes \cup DOMAIN flush'[u].saves
                                     /\ job[u].field = e.field => Has(job[u].held, e)
    <3>1. Has(disk[e.field], e) /\ \A u \in Threads : /\ e.field \notin flush[u].deletes \cup DOMAIN flush[u].saves
                                                      /\ job[u].field = e.field => Has(job[u].held, e)
      BY Zenon, <2>1 DEF Kept
    <3>2. e.field # k
      BY Zenon, <1>4, <3>1
    <3> QED
      BY Zenon, <1>3, <1>4, <1>5, <3>1, <3>2
  <2> QED
    BY Zenon, <1>1, <1>6, <1>8, <2>1 DEF Kept, bufferVars
<1> QED
  BY Zenon, <1>0, <1>6, <1>8, <1>9 DEF Stays

\* A flush that is dropped: everything in it is put back, or was written.
LEMMA DroppedStays ==
  ASSUME QueueInv, NEW t \in Threads, UNCHANGED <<indexes, disk, job>>, NEW e \in Update, Kept(e),
         \A u \in Threads \ {t} : flush'[u] = flush[u],
         flush'[t].unsaved = {}, flush'[t].undeleted = {}, flush'[t].deletes = {}, DOMAIN flush'[t].saves = {},
         dirtyKeys \subseteq dirtyKeys', e.field \notin deletedKeys',
         InFlush(e, t) => e.field \in dirtyKeys', InFlush(e, t) /\ t = "worker" => flush'["worker"].failed
  PROVE  Stays(e)
<1>1. Settled(e) => Settled(e)'
  <2>1. ASSUME Settled(e), NEW u \in Threads
        PROVE  /\ e.field \in flush'[u].unsaved => Has(flush'[u].saves[e.field], e)
               /\ e.field \notin flush'[u].undeleted
    <3>1. CASE u = t
      BY Zenon, <3>1
    <3>2. CASE u # t
      BY Zenon, <2>1, <3>2 DEF Settled
    <3> QED
      BY Zenon, <3>1, <3>2
  <2> QED
    BY Zenon, <2>1 DEF Settled
<1>2. \A u \in Threads \ {t} : InFlush(e, u) => InFlush(e, u)'
  BY Zenon DEF InFlush
<1>3. ASSUME indexes[e.field] = NoIndex
      PROVE  /\ Has(disk[e.field], e)
             /\ \A u \in Threads : /\ e.field \notin flush'[u].deletes \cup DOMAIN flush'[u].saves
                                   /\ job[u].field = e.field => Has(job[u].held, e)
  <2>1. Has(disk[e.field], e) /\ \A u \in Threads : /\ e.field \notin flush[u].deletes \cup DOMAIN flush[u].saves
                                                    /\ job[u].field = e.field => Has(job[u].held, e)
    BY Zenon, <1>3 DEF Kept
  <2>2. e.field \notin flush'[t].deletes \cup DOMAIN flush'[t].saves
    BY Zenon
  <2> QED
    BY Zenon, <2>1, <2>2
<1>4. e.field \in dirtyKeys' \/ (\E u \in Threads : InFlush(e, u)') \/ Settled(e)'
  BY Zenon, <1>1, <1>2 DEF Kept
<1>5. Kept(e)'
  BY Zenon, <1>3, <1>4 DEF Kept
<1>6. "worker" \in Threads
  BY Zenon DEF Threads
<1> QED
  BY Zenon, <1>1, <1>2, <1>5, <1>6 DEF Stays

LEMMA RestoreStays ==
  ASSUME QueueInv, NEW t \in Threads, restore_failed_flush(t), NEW e \in Update, Kept(e)
  PROVE  Stays(e)
<1>1. /\ UNCHANGED <<indexes, disk, job>>
      /\ dirtyKeys' = dirtyKeys \cup {k \in DOMAIN flush[t].saves : indexes[k] # NoIndex /\ k \notin deletedKeys}
      /\ deletedKeys' = deletedKeys \cup {k \in flush[t].deletes : indexes[k] = NoIndex}
      /\ \A u \in Threads \ {t} : flush'[u] = flush[u]
      /\ flush'[t].unsaved = {} /\ flush'[t].undeleted = {} /\ flush'[t].deletes = {} /\ DOMAIN flush'[t].saves = {}
      /\ flush'[t].failed <=> t = "worker"
  BY Zenon, RestoreMoves
<1>2. /\ e.field \notin deletedKeys
      /\ indexes[e.field] = NoIndex => e.field \notin flush[t].deletes \cup DOMAIN flush[t].saves
  BY Zenon DEF Kept
<1>3. InFlush(e, t) => e.field \in DOMAIN flush[t].saves
  BY Zenon DEF InFlush, QueueInv, FlushesOK, FlushOK
<1>4. e.field \notin deletedKeys' /\ dirtyKeys \subseteq dirtyKeys' /\ (InFlush(e, t) => e.field \in dirtyKeys')
  BY Zenon, <1>1, <1>2, <1>3
<1> QED
  BY Zenon, <1>1, <1>4, DroppedStays

LEMMA BufferStays ==
  ASSUME QueueInv, DirtyOK, OneFlush, NEW t \in Threads, BufferStep(t), Current(t), "flusher" \notin blame,
         NEW e \in Update, Live(e), Kept(e)
  PROVE  Stays(e)
<1>1. CASE LoadForUpdate(t) \/ LoadForRemove(t)
  BY Zenon, <1>1, LoadStays
<1>2. CASE remove_file_from_index(t)
  BY Zenon, <1>2, RemoveStays
<1>3. CASE update_index(t) /\ UNCHANGED disk
  BY Zenon, <1>3, UpdateStays
<1>4. CASE t = "timer" /\ FlushTimer
  <2>1. Taken("timer", dirtyKeys, deletedKeys)
    BY Zenon, <1>4, SnapshotTaken DEF FlushTimer, QueueInv, IndexTypeOK
  <2>2. UNCHANGED <<indexes, disk, job>> /\ ~Flushing(t)
    BY Zenon, <1>4 DEF FlushTimer
  <2> QED
    BY Zenon, <1>4, <2>1, <2>2, FlushStays
<1>5. CASE write_flush_snapshot(t)
  BY Zenon, <1>5, WriteStays
<1>6. CASE restore_failed_flush(t)
  BY Zenon, <1>6, RestoreStays
<1> QED
  BY Zenon, <1>1, <1>2, <1>3, <1>4, <1>5, <1>6 DEF BufferStep, ThreadStep

-----------------------------------------------------------------------------
(* A step keeps the updates.                                               *)

LEMMA GoodStays ==
  ASSUME NEW e, Good(e), Stays(e), MustSettle(e)' => MustSettle(e), OwnFlush(e)' => OwnFlush(e)
  PROVE  Good(e)'
<1>1. Kept(e)' /\ (Settled(e) => Settled(e)')
  BY Zenon DEF Stays
<1>2. OwnFlush(e)' => ~flush'["worker"].failed
  BY Zenon DEF OwnFlush
<1>3. MustSettle(e)' => Settled(e)'
  BY Zenon, <1>1 DEF Good
<1>4. OwnFlush(e)' => Settled(e)' \/ InFlush(e, "worker")'
  BY Zenon, <1>1, <1>2 DEF Good, Stays
<1> QED
  BY Zenon, <1>1, <1>3, <1>4 DEF Good

LEMMA UpdateTyped ==
  ASSUME NEW e \in Update
  PROVE  e.field \in Fields /\ NoField \notin Fields /\ "worker" \in Threads
BY Zenon, IndexBufferAssumption DEF Update, Threads

\* A step that leaves the buffer alone.
LEMMA QuietUpdates ==
  ASSUME QueueInv, UpdatesKept, SameBuffer, NoReads, SettlesKept, indexed' = indexed,
         worker' = worker \/ worker'.pc \notin {"flushed", "final_flushed"},
         "overlap" \notin blame' => \A e \in indexed : Live(e)' => Live(e)
  PROVE  UpdatesKept'
<1>1. ASSUME Fine', NEW e \in indexed, Live(e)'
      PROVE  Good(e)'
  <2>1. Fine /\ "overlap" \notin blame'
    BY Zenon, <1>1 DEF Fine, SameBuffer
  <2>2. Live(e) /\ Good(e)
    BY Zenon, <1>1, <2>1 DEF UpdatesKept
  <2>3. e \in Update /\ Kept(e)
    BY Zenon, <1>1, <2>2 DEF Good, QueueInv, QueueTypeOK
  <2>4. Stays(e)
    BY Zenon, <2>3, UpdateTyped, SameStays
  <2>5. MustSettle(e)' => MustSettle(e)
    BY Zenon, <1>1 DEF SettlesKept
  <2>6. OwnFlush(e)' => OwnFlush(e)
    BY Zenon DEF OwnFlush, SameBuffer
  <2> QED
    BY Zenon, <2>2, <2>4, <2>5, <2>6, GoodStays
<1> QED
  BY Zenon, <1>1 DEF UpdatesKept

LEMMA OthersUpdates ==
  ASSUME QueueInv, ReindexInv,
         \/ \E c \in Clients : ClientStep(c) \/ RequestStep(c)
         \/ Cleaner \/ Shutdown \/ UNCHANGED vars
  PROVE  UpdatesKept'
<1> USE DEF ReindexInv
<1>1. SettlesKept /\ indexed' = indexed /\ worker' = worker
  BY Zenon, OthersMarks
<1>2. ASSUME UNCHANGED <<content, job>>
      PROVE  NoReads /\ \A e \in indexed : Live(e)' => Live(e)
  BY Zenon, <1>2 DEF NoReads, Live
<1>3. ASSUME NEW c \in Clients, ClientStep(c) \/ RequestStep(c)
      PROVE  UpdatesKept'
  <2>1. SameBuffer
    BY Zenon, <1>3, RequestsSameBuffer
  <2>2. CASE StoreFile(c) \/ DeleteFile(c)
    <3>1. NoReads /\ ("overlap" \notin blame' => \A e \in indexed : Live(e)' => Live(e))
      BY Zenon, <2>2, RequestsCurrent DEF NoReads
    <3> QED
      BY Zenon, <1>1, <2>1, <3>1, QuietUpdates
  <2>3. CASE PutConfig(c) \/ CancelTask(c) \/ TriggerTask(c) \/ CancelRead(c) \/ CancelStore(c) \/ EnqueueStore(c)
             \/ EnqueueRegister(c) \/ EvictCaches(c)
    <3>1. UNCHANGED <<content, job>>
      BY Zenon, <2>3 DEF PutConfig, CancelTask, TriggerTask, CancelRead, CancelStore, EnqueueStore, EnqueueRegister, EvictCaches,
         indexVars
    <3> QED
      BY Zenon, <1>1, <1>2, <2>1, <3>1, QuietUpdates
  <2> QED
    BY Zenon, <1>3, <2>2, <2>3 DEF ClientStep, RequestStep
<1>4. CASE Cleaner
  <2>1. SameBuffer /\ UNCHANGED content
    BY Zenon, <1>4 DEF Cleaner, process_batch, SameBuffer, bufferVars
  <2>2. NoReads
    <3>1. IdleJob.field = NoField
      BY Zenon DEF IdleJob
    <3> QED
      BY Zenon, <1>4, <3>1, CleanerKeepsQueue DEF NoReads
  <2>3. \A e \in indexed : Live(e)' => Live(e)
    BY Zenon, <2>1 DEF Live
  <2> QED
    BY ZenonT(30), <1>1, <2>1, <2>2, <2>3, QuietUpdates
<1>5. CASE Shutdown \/ UNCHANGED vars
  <2>1. SameBuffer /\ UNCHANGED <<content, job>>
    BY Zenon, <1>5 DEF Shutdown, vars, indexVars, SameBuffer, bufferVars
  <2> QED
    BY Zenon, <1>1, <1>2, <2>1, QuietUpdates
<1> QED
  BY Zenon, <1>3, <1>4, <1>5

\* The worker's steps outside the buffer.
LEMMA WorkerUpdates ==
  ASSUME QueueInv, ReindexInv,
         \/ Dequeue \/ Claim \/ ExecuteOther \/ ListFiles \/ IndexFile \/ NoFlushAfterFile
         \/ CheckpointRead \/ CheckpointStore \/ Finish \/ PruneLoad \/ PruneSave
  PROVE  UpdatesKept'
<1> USE DEF ReindexInv
<1>1. SameBuffer
  BY Zenon, WorkerSameBuffer
<1>2. indexed' = indexed /\ UNCHANGED content
  BY Zenon DEF Dequeue, Claim, ExecuteOther, ListFiles, IndexFile, NoFlushAfterFile, CheckpointRead, CheckpointStore, Finish,
     PruneLoad, PruneSave, indexVars
<1>3. NoReads
  <2>1. CASE IndexFile
    <3>1. \A u \in Threads \ {"worker"} : job'[u] = job[u]
      BY Zenon, <2>1, IndexFileKeepsQueue
    <3>2. job'["worker"] = IdleJob \/ job'["worker"].field = NoField
      BY Zenon, <2>1, IndexFileKeepsQueue
    <3>3. IdleJob.field = NoField
      BY Zenon DEF IdleJob
    <3> QED
      BY Zenon, <3>1, <3>2, <3>3 DEF NoReads
  <2>2. CASE UNCHANGED job
    BY Zenon, <2>2 DEF NoReads
  <2> QED
    BY Zenon, <2>1, <2>2 DEF Dequeue, Claim, ExecuteOther, ListFiles, NoFlushAfterFile, CheckpointRead, CheckpointStore, Finish,
       PruneLoad, PruneSave, indexVars
<1>4. SettlesKept /\ worker'.pc \notin {"flushed", "final_flushed"}
  <2>1. CASE Dequeue
    <3>1. worker'.pc = "claim"
      BY Zenon, <2>1, DequeueKeepsQueue
    <3> QED
      BY Zenon, <2>1, <3>1, DequeueMarks
  <2>2. CASE Claim
    <3>1. worker'.pc = "execute"
      BY Zenon, <2>2 DEF Claim, Goto, QueueInv, QueueTypeOK, Worker
    <3> QED
      BY Zenon, <2>2, <3>1, ClaimMarks
  <2>3. CASE Finish \/ PruneSave
    <3>1. worker'.pc \in {"prune", "idle"}
      BY Zenon, <2>3, IdleRecords DEF Finish, PruneSave, IdleWorker
    <3> QED
      BY Zenon, <2>3, <3>1, FinishMarks, PruneSaveMarks
  <2>4. CASE CheckpointStore
    <3>1. worker'.pc \notin {"flushed", "final_flushed"}
      BY Zenon, <2>4, CheckpointStoreKeepsQueue DEF Advanced
    <3> QED
      BY Zenon, <2>4, <3>1, CheckpointStoreMarks
  <2>5. CASE ExecuteOther \/ ListFiles \/ IndexFile \/ NoFlushAfterFile \/ CheckpointRead \/ PruneLoad
    <3>1. UNCHANGED <<tasks, client>>
      BY Zenon, <2>5, WorkerKeepsMarks
    <3>2. \/ worker'.pc = "prune_save"
          \/ /\ OnTask /\ worker'.id = worker.id /\ worker'.own = worker.own
             /\ worker'.pc \notin {"flushed", "final_flushed"}
      <4>1. CASE ExecuteOther \/ ListFiles \/ PruneLoad
        BY Zenon, <4>1, ExecuteOtherKeepsQueue, ListFilesKeepsQueue, PruneLoadKeepsQueue
      <4>2. CASE CheckpointRead
        BY Zenon, <4>2, CheckpointReadKeepsQueue DEF OnTask
      <4>3. CASE NoFlushAfterFile
        BY Zenon, <4>3, NoFlushAfterFileKeepsQueue DEF Advanced
      <4>4. CASE IndexFile
        BY Zenon, <4>4, IndexFileKeepsQueue DEF Advanced, OnTask
      <4> QED
        BY Zenon, <2>5, <4>1, <4>2, <4>3, <4>4
    <3> QED
      BY Zenon, <1>2, <3>1, <3>2, WorkerSettles DEF OffTask
  <2> QED
    BY Zenon, <2>1, <2>2, <2>3, <2>4, <2>5
<1>5. \A e \in indexed : Live(e)' => Live(e)
  BY Zenon, <1>2 DEF Live
<1> QED
  BY Zenon, <1>1, <1>2, <1>3, <1>4, <1>5, QuietUpdates

\* A step of a thread in the buffer.
LEMMA BufferUpdates ==
  ASSUME QueueInv, ReindexInv, NEW t \in Threads, BufferStep(t)
  PROVE  UpdatesKept'
<1> USE DEF ReindexInv
<1>1. SettlesKept /\ worker' = worker /\ indexed' = indexed
  BY Zenon, OthersMarks
<1>2. UNCHANGED content /\ blame \subseteq blame'
  BY Zenon, BufferJobs
<1>3. flush["worker"].failed => flush'["worker"].failed
  <2>1. CASE t = "worker"
    BY Zenon, <2>1 DEF BufferStep
  <2>2. CASE t # "worker"
    <3>1. ThreadStep(t) \/ update_index(t)
      BY Zenon DEF BufferStep
    <3>2. JobOK(t) /\ (t = "timer" => job[t] = IdleJob) /\ "worker" \in Threads
      BY Zenon DEF QueueInv, JobsOK, Threads
    <3>3. \A u \in Threads \ {t} : flush'[u] = flush[u]
      BY Zenon, <3>1, <3>2, StepJobs DEF QueueInv
    <3> QED
      BY Zenon, <2>2, <3>2, <3>3
  <2> QED
    BY Zenon, <2>1, <2>2
<1>4. ASSUME Fine', NEW e \in indexed, Live(e)'
      PROVE  Good(e)'
  <2>1. Fine /\ "overlap" \notin blame /\ "flusher" \notin blame
    BY Zenon, <1>2, <1>4 DEF Fine
  <2>2. Live(e)
    BY Zenon, <1>2, <1>4 DEF Live
  <2>3. Good(e) /\ Kept(e) /\ e \in Update
    BY Zenon, <1>4, <2>1, <2>2 DEF UpdatesKept, Good, QueueInv, QueueTypeOK
  <2>4. Current(t)
    BY Zenon, <2>1 DEF JobsCurrent
  <2>5. Stays(e)
    BY Zenon, <2>1, <2>2, <2>3, <2>4, BufferStays
  <2>6. MustSettle(e)' => MustSettle(e)
    BY Zenon, <1>1, <1>4 DEF SettlesKept
  <2>7. OwnFlush(e)' => OwnFlush(e)
    BY Zenon, <1>1, <1>3 DEF OwnFlush
  <2> QED
    BY Zenon, <2>3, <2>5, <2>6, <2>7, GoodStays
<1> QED
  BY Zenon, <1>1, <1>4 DEF UpdatesKept

\* The update the worker makes is in the buffer, or in the flush it is due for,
\* and its file is after every checkpoint.
LEMMA NewUpdate ==
  ASSUME QueueInv, MarksBefore, WorkerUpdate, NEW e \in Update, e.task = worker.id, e.file = job["worker"].file,
         e.version = job["worker"].value, e.field = job["worker"].field
  PROVE  Good(e)'
<1>0. IndexTypeOK /\ update_index("worker") /\ UNCHANGED <<tasks, client>> /\ "worker" \in Threads
  BY Zenon, UpdateTyped DEF QueueInv, WorkerUpdate
<1>1. PICK k, f : k = job["worker"].field /\ f = job["worker"].file
  BY Zenon
<1>2. /\ indexes'[k] \in Index /\ Entered("worker", k, f) /\ k \in Fields
      /\ \/ deletedKeys' = deletedKeys \ {k} /\ dirtyKeys' = dirtyKeys \cup {k}
         \/ Taken("worker", dirtyKeys \cup {k}, deletedKeys \ {k})
  BY Zenon, <1>0, <1>1, UpdateMoves
<1>3. indexes'[k] # NoIndex /\ Has(indexes'[k], e)
  <2>1. indexes'[k] # NoIndex
    BY Zenon, <1>2, NoIndexIsNone
  <2> QED
    BY Zenon, <1>1, <1>2, <2>1 DEF Entered, Has
<1>4. k \notin deletedKeys' /\ (k \in dirtyKeys' \/ InFlush(e, "worker")')
  <2>1. CASE deletedKeys' = deletedKeys \ {k} /\ dirtyKeys' = dirtyKeys \cup {k}
    BY Zenon, <2>1
  <2>2. CASE Taken("worker", dirtyKeys \cup {k}, deletedKeys \ {k})
    <3>1. k \in flush'["worker"].unsaved /\ deletedKeys' = {}
      BY Zenon, <1>3, <2>2 DEF Taken
    <3>2. flush'["worker"].saves[k] = indexes'[k]
      BY Zenon, <2>2, <3>1 DEF Taken
    <3> QED
      BY Zenon, <1>1, <1>3, <3>1, <3>2 DEF InFlush
  <2> QED
    BY Zenon, <1>2, <2>1, <2>2
<1>5. Kept(e)'
  BY ZenonT(30), <1>0, <1>1, <1>3, <1>4 DEF Kept
<1>6. worker.pc = "indexing" /\ worker'.pc = "indexing" /\ worker'.own = TRUE /\ job["worker"].file = worker.list[worker.i]
  BY Zenon, WorkerUpdateKeepsQueue
<1>7. \A n : Before(worker, n) => n < e.file
  BY Zenon, <1>6 DEF Before
<1>8. OnTask /\ worker.id \in Ids /\ tasks[worker.id] # NoTask
  BY Zenon, <1>6 DEF OnTask, QueueInv, QueueOK, IdsInOrder
<1>9. e.file \in Nat
  BY Zenon, IndexBufferAssumption DEF Update
<1>10. ~(e.file <= tasks[worker.id].checkpoint)
  <2>1. tasks[worker.id].checkpoint \in Nat
    BY Zenon, <1>8, RecordsTyped
  <2>2. tasks[worker.id].checkpoint < e.file
    BY Zenon, <1>7, <1>8 DEF MarksBefore
  <2> QED
    BY <1>9, <2>1, <2>2
<1>11. ASSUME NEW c \in Clients, client[c].pc = "cancel_store", client[c].id = worker.id
       PROVE  ~(e.file <= client[c].got.checkpoint)
  <2>1. client[c].got.checkpoint \in Nat
    BY Zenon, <1>11, RecordsTyped
  <2>2. client[c].got.checkpoint < e.file
    BY Zenon, <1>7, <1>8, <1>11 DEF MarksBefore
  <2> QED
    BY <1>9, <2>1, <2>2
<1>12. ~MustSettle(e)'
  BY Zenon, <1>0, <1>6, <1>10, <1>11 DEF MustSettle
<1>13. ~OwnFlush(e)'
  BY Zenon, <1>6 DEF OwnFlush
<1> QED
  BY Zenon, <1>5, <1>12, <1>13 DEF Good

LEMMA WorkerUpdateUpdates ==
  ASSUME QueueInv, ReindexInv, WorkerUpdate
  PROVE  UpdatesKept'
<1> USE DEF ReindexInv
<1>1. UNCHANGED <<content, disk, tasks, client>> /\ blame \subseteq blame' /\ update_index("worker") /\ "worker" \in Threads
  <2>1. "worker" \in Threads
    BY DEF Threads
  <2> QED
    BY Zenon, <2>1, BufferJobs DEF WorkerUpdate
<1>2. worker'.pc = "indexing" /\ worker'.own = TRUE
  BY Zenon, WorkerUpdateKeepsQueue
<1>3. PICK new \in Update : /\ indexed' = indexed \cup {new} /\ new.task = worker.id /\ new.file = job["worker"].file
                            /\ new.version = job["worker"].value /\ new.field = job["worker"].field
  BY Zenon, WorkerUpdateKeepsQueue
<1>4. Good(new)'
  BY Zenon, <1>3, NewUpdate
<1>5. ASSUME Fine', NEW e \in indexed, Live(e)'
      PROVE  Good(e)'
  <2>1. Fine /\ "overlap" \notin blame
    BY Zenon, <1>1, <1>5 DEF Fine
  <2>2. Live(e)
    BY Zenon, <1>1, <1>5 DEF Live
  <2>3. Good(e) /\ Kept(e) /\ e \in Update
    BY Zenon, <1>5, <2>1, <2>2 DEF UpdatesKept, Good, QueueInv, QueueTypeOK
  <2>4. Current("worker")
    BY Zenon, <1>1, <2>1 DEF JobsCurrent
  <2>5. Stays(e)
    BY Zenon, <1>1, <2>2, <2>3, <2>4, UpdateStays
  <2>6. MustSettle(e)' => MustSettle(e)
    BY Zenon, <1>1, <1>2 DEF MustSettle
  <2>7. ~OwnFlush(e)'
    BY Zenon, <1>2 DEF OwnFlush
  <2> QED
    BY Zenon, <2>3, <2>5, <2>6, <2>7, GoodStays
<1> QED
  BY Zenon, <1>3, <1>4, <1>5 DEF UpdatesKept

\* The indexes that are retired hold no update any more; the others stay.
LEMMA RetireUpdates ==
  ASSUME QueueInv, ReindexInv, Retire
  PROVE  UpdatesKept'
<1> USE DEF ReindexInv
<1>1. PICK stale \in {list_indexes \ load_config} :
        /\ indexes' = [k \in Fields |-> IF k \in stale THEN NoIndex ELSE indexes[k]]
        /\ dirtyKeys' = dirtyKeys \ stale /\ deletedKeys' = deletedKeys \cup stale
        /\ indexed' = {e \in indexed : e.field \notin stale}
  BY Zenon DEF Retire
<1>2. UNCHANGED <<content, disk, job, flush, tasks, client>> /\ (blame' = blame \/ blame' = blame \cup {"config"})
  BY Zenon DEF Retire
<1>3. worker.pc = "execute" /\ worker'.pc \in {"retire_flush", "list"} /\ worker'.id = worker.id /\ worker'.own = worker.own
  BY Zenon, RetireKeepsQueue
<1>4. SettlesKept
  <2>1. OnTask /\ indexed' \subseteq indexed
    BY Zenon, <1>1, <1>3 DEF OnTask
  <2> QED
    BY Zenon, <1>2, <1>3, <2>1, WorkerSettles
<1>5. ASSUME Fine', NEW e \in indexed', Live(e)'
      PROVE  Good(e)'
  <2>1. Fine
    BY Zenon, <1>2, <1>5 DEF Fine
  <2>2. Live(e) /\ e \in indexed /\ e.field \notin stale
    BY Zenon, <1>1, <1>2, <1>5 DEF Live
  <2>3. Good(e) /\ Kept(e) /\ e \in Update
    BY Zenon, <2>1, <2>2 DEF UpdatesKept, Good, QueueInv, QueueTypeOK
  <2>4. e.field \in Fields /\ NoField \notin Fields
    BY Zenon, <2>3, UpdateTyped
  <2>5. /\ indexes'[e.field] = indexes[e.field] /\ (e.field \in dirtyKeys => e.field \in dirtyKeys')
        /\ (e.field \notin deletedKeys => e.field \notin deletedKeys')
    BY Zenon, <1>1, <2>2, <2>4
  <2>6. e.field \notin deletedKeys /\ (indexes[e.field] # NoIndex => Has(indexes[e.field], e))
    BY Zenon, <2>3 DEF Kept
  <2>7. NoReads
    BY Zenon, <1>2 DEF NoReads
  <2>8. Stays(e)
    BY Zenon, <1>2, <2>3, <2>4, <2>5, <2>6, <2>7, ChangedStays
  <2>9. MustSettle(e)' => MustSettle(e)
    BY Zenon, <1>4, <1>5 DEF SettlesKept
  <2>10. ~OwnFlush(e)'
    BY Zenon, <1>3 DEF OwnFlush
  <2> QED
    BY Zenon, <2>3, <2>8, <2>9, <2>10, GoodStays
<1> QED
  BY Zenon, <1>5 DEF UpdatesKept

\* What was dirty goes into the worker's flush; nothing is in another one.
LEMMA FlushStartsUpdates ==
  ASSUME QueueInv, ReindexInv, FlushStarts
  PROVE  UpdatesKept'
<1> USE DEF ReindexInv
<1>1. UNCHANGED <<content, indexes, disk, job, tasks, client, indexed>> /\ ~Flushing("worker") /\ OnTask
        /\ worker'.id = worker.id /\ worker'.own = worker.own
  BY Zenon, FlushStartsMoves DEF indexRest, Place
<1>2. \/ Taken("worker", dirtyKeys, deletedKeys)
      \/ /\ UNCHANGED <<flush, dirtyKeys, deletedKeys, pending>> /\ dirtyKeys = {}
         /\ blame \subseteq blame' /\ ("flusher" \notin blame' => \A t \in Threads : ~Flushing(t))
  BY Zenon, FlushStartsMoves
<1>3. blame \subseteq blame' /\ ("flusher" \notin blame' => \A t \in Threads : ~Flushing(t))
  BY Zenon, <1>1, <1>2 DEF Taken
<1>4. SettlesKept
  BY Zenon, <1>1, WorkerSettles
<1>5. ASSUME Fine', NEW e \in indexed, Live(e)'
      PROVE  Good(e)'
  <2>1. Fine /\ \A t \in Threads : ~Flushing(t)
    BY Zenon, <1>3, <1>5 DEF Fine
  <2>2. Live(e)
    BY Zenon, <1>1, <1>5 DEF Live
  <2>3. Good(e) /\ Kept(e) /\ e \in Update
    BY Zenon, <1>5, <2>1, <2>2 DEF UpdatesKept, Good, QueueInv, QueueTypeOK
  <2>4. e.field \in Fields /\ NoField \notin Fields /\ "worker" \in Threads
    BY Zenon, <2>3, UpdateTyped
  <2>5. Stays(e) /\ (e.field \in dirtyKeys => InFlush(e, "worker")')
    <3>1. CASE Taken("worker", dirtyKeys, deletedKeys)
      BY Zenon, <1>1, <2>3, <2>4, <3>1, FlushStays
    <3>2. CASE UNCHANGED <<flush, dirtyKeys, deletedKeys, pending>> /\ dirtyKeys = {}
      <4>1. SameBuffer /\ NoReads
        BY Zenon, <1>1, <1>3, <3>2 DEF SameBuffer, NoReads
      <4>2. Stays(e)
        BY ZenonT(30), <2>3, <2>4, <4>1, SameStays
      <4> QED
        BY Zenon, <3>2, <4>2
    <3> QED
      BY Zenon, <1>2, <3>1, <3>2
  <2>6. e.field \in dirtyKeys \/ Settled(e)
    <3>1. \A t \in Threads : ~InFlush(e, t)
      BY Zenon, <2>1 DEF InFlush, Flushing
    <3> QED
      BY Zenon, <2>3, <3>1 DEF Kept
  <2>7. Settled(e)' \/ InFlush(e, "worker")'
    BY Zenon, <2>5, <2>6 DEF Stays
  <2>8. MustSettle(e)' => Settled(e)'
    BY Zenon, <1>1, <1>4, <1>5, <2>3, <2>5 DEF SettlesKept, Good, Stays
  <2> QED
    BY Zenon, <2>5, <2>7, <2>8 DEF Good, Stays
<1> QED
  BY Zenon, <1>1, <1>5 DEF UpdatesKept

\* Its flush written, everything of the worker's task is settled.
LEMMA FlushEndsUpdates ==
  ASSUME QueueInv, ReindexInv, Retired \/ Flushed \/ FinalFlushed
  PROVE  UpdatesKept'
<1> USE DEF ReindexInv
<1>1. /\ UNCHANGED <<content, bufferVars, disk, job, tasks, client, indexed, blame>>
      /\ ~Flushing("worker") /\ flush' = [flush EXCEPT !["worker"] = NoFlush] /\ worker'.id = worker.id
  BY Zenon, RetiredKeepsQueue, FlushedKeepsQueue DEF indexRest
<1>2. \/ worker'.own = worker.own /\ worker'.pc \in {"finish", "list"}
      \/ worker.pc \in {"flushed", "final_flushed"} /\ worker'.pc = "checkpoint" /\ ~flush["worker"].failed
  BY Zenon, RetiredKeepsQueue, FlushedKeepsQueue
<1>3. OnTask /\ worker'.pc \notin {"flushed", "final_flushed"}
  <2>1. worker.pc \in {"retired", "flushed", "final_flushed"}
    BY Zenon, RetiredKeepsQueue, FlushedKeepsQueue
  <2> QED
    BY Zenon, <1>2, <2>1 DEF OnTask
<1>4. "worker" \in Threads
  BY DEF Threads
<1>5. /\ \A u \in Threads \ {"worker"} : flush'[u] = flush[u]
      /\ flush'["worker"].unsaved = {} /\ flush'["worker"].undeleted = {} /\ flush'["worker"].deletes = {}
      /\ DOMAIN flush'["worker"].saves = {}
  BY Zenon, <1>1, <1>4, ClearMoves DEF QueueInv
<1>6. ASSUME Fine', NEW e \in indexed, Live(e)'
      PROVE  Good(e)'
  <2>1. Fine /\ Live(e)
    BY Zenon, <1>1, <1>6 DEF Fine, Live
  <2>2. Good(e) /\ Kept(e) /\ e \in Update
    BY Zenon, <1>6, <2>1 DEF UpdatesKept, Good, QueueInv, QueueTypeOK
  <2>3. ~InFlush(e, "worker")
    BY Zenon, <1>1 DEF InFlush, Flushing
  <2>4. e.field \notin deletedKeys' /\ dirtyKeys \subseteq dirtyKeys'
    BY Zenon, <1>1, <2>2 DEF Kept, bufferVars
  <2>5. Stays(e)
    BY Zenon, <1>1, <1>4, <1>5, <2>2, <2>3, <2>4, DroppedStays DEF bufferVars
  <2>6. MustSettle(e)' => Settled(e)
    <3>1. CASE worker'.own = worker.own
      BY Zenon, <1>1, <1>3, <2>2, <3>1 DEF MustSettle, Good
    <3>2. CASE worker.pc \in {"flushed", "final_flushed"} /\ ~flush["worker"].failed
      <4>1. worker.id = e.task => Settled(e)
        BY Zenon, <2>2, <2>3, <3>2 DEF OwnFlush, Good
      <4> QED
        BY Zenon, <1>1, <2>2, <4>1 DEF MustSettle, Good
    <3> QED
      BY Zenon, <1>2, <3>1, <3>2
  <2>7. ~OwnFlush(e)'
    BY Zenon, <1>3 DEF OwnFlush
  <2> QED
    BY Zenon, <2>5, <2>6, <2>7 DEF Good, Stays
<1> QED
  BY Zenon, <1>1, <1>6 DEF UpdatesKept

\* What the next process still counts on is on disk.
LEMMA RestartUpdates ==
  ASSUME QueueInv, ReindexInv, Crash \/ ShutdownDone
  PROVE  UpdatesKept'
<1> USE DEF ReindexInv
<1>1. Restart /\ blame \subseteq blame'
  BY Zenon DEF Crash, ShutdownDone
<1>2. /\ UNCHANGED content /\ indexes' = [k \in Fields |-> NoIndex] /\ dirtyKeys' = {} /\ deletedKeys' = {}
      /\ \A t \in Threads : job'[t] = IdleJob /\ flush'[t] = NoFlush
      /\ indexed' \subseteq indexed /\ worker' = IdleWorker
  BY Zenon, <1>1 DEF Restart, LoseMemory
<1>3. IdleJob.field = NoField /\ NoFlush.unsaved = {} /\ NoFlush.undeleted = {} /\ NoFlush.deletes = {} /\ DOMAIN NoFlush.saves = {}
  BY Zenon DEF IdleJob, NoFlush
<1>4. ASSUME Fine', NEW e \in indexed', Live(e)'
      PROVE  Good(e)'
  <2>1. Fine /\ Live(e) /\ e \in indexed
    BY Zenon, <1>1, <1>2, <1>4 DEF Fine, Live
  <2>2. Good(e) /\ Kept(e) /\ e \in Update
    BY Zenon, <2>1 DEF UpdatesKept, Good, QueueInv, QueueTypeOK
  <2>3. e.field \in Fields /\ NoField \notin Fields
    BY Zenon, <2>2, UpdateTyped
  <2>4. Settled(e)
    BY Zenon, <1>1, <1>4, <2>2, RestartMarks DEF Good
  <2>5. Has(disk'[e.field], e)
    <3>1. CASE Crash
      BY Zenon, <2>4, <3>1 DEF Crash, Settled
    <3>2. CASE ShutdownDone
      <4>1. disk'[e.field] = View(e.field)
        BY Zenon, <2>3, <3>2 DEF ShutdownDone
      <4>2. View(e.field) = IF indexes[e.field] # NoIndex THEN indexes[e.field] ELSE disk[e.field]
        BY Zenon, <2>2 DEF View, Kept
      <4> QED
        BY Zenon, <2>2, <4>1, <4>2 DEF Kept
    <3> QED
      BY Zenon, <3>1, <3>2
  <2>6. \A t \in Threads : /\ e.field \notin flush'[t].unsaved /\ e.field \notin flush'[t].undeleted
                           /\ e.field \notin flush'[t].deletes \cup DOMAIN flush'[t].saves /\ job'[t].field # e.field
    BY Zenon, <1>2, <1>3, <2>3
  <2>7. Settled(e)'
    BY Zenon, <2>5, <2>6 DEF Settled
  <2>8. indexes'[e.field] = NoIndex /\ e.field \notin deletedKeys'
    BY Zenon, <1>2, <2>3
  <2>9. Kept(e)'
    BY Zenon, <2>5, <2>6, <2>7, <2>8 DEF Kept
  <2> QED
    BY Zenon, <2>7, <2>9 DEF Good
<1> QED
  BY Zenon, <1>4 DEF UpdatesKept

LEMMA UpdatesStay ==
  ASSUME QueueInv, ReindexInv, [Next]_vars
  PROVE  UpdatesKept'
<1>1. CASE \/ \E c \in Clients : ClientStep(c) \/ RequestStep(c)
           \/ Cleaner \/ Shutdown \/ UNCHANGED vars
  BY Zenon, <1>1, OthersUpdates
<1>2. CASE \E t \in Threads : BufferStep(t)
  BY Zenon, <1>2, BufferUpdates
<1>3. CASE \/ Dequeue \/ Claim \/ ExecuteOther \/ ListFiles \/ IndexFile \/ NoFlushAfterFile
           \/ CheckpointRead \/ CheckpointStore \/ Finish \/ PruneLoad \/ PruneSave
  BY Zenon, <1>3, WorkerUpdates
<1>4. CASE Retire \/ FlushStarts \/ Retired \/ Flushed \/ FinalFlushed \/ WorkerUpdate
  BY Zenon, <1>4, RetireUpdates, FlushStartsUpdates, FlushEndsUpdates, WorkerUpdateUpdates
<1>5. CASE WorkerUpdateFails
  <2>1. ~Fine'
    BY Zenon, <1>5, WorkerUpdateFailsKeepsQueue DEF Fine
  <2> QED
    BY Zenon, <2>1 DEF UpdatesKept
<1>6. CASE Crash \/ ShutdownDone
  BY <1>6, RestartUpdates
<1> QED
  BY Zenon, <1>1, <1>2, <1>3, <1>4, <1>5, <1>6 DEF Next, WorkerStep, FlushStarts

-----------------------------------------------------------------------------
(* The invariant.                                                          *)

LEMMA ReindexInit ==
  Init => ReindexInv
<1> SUFFICES ASSUME Init PROVE ReindexInv
  BY Zenon
<1>1. /\ dirtyKeys = {} /\ deletedKeys = {} /\ indexed = {} /\ cleanup = {} /\ clock = 1 /\ worker = IdleWorker
      /\ \A id \in Ids : tasks[id] = NoTask
      /\ \A t \in Threads : job[t] = IdleJob /\ flush[t] = NoFlush
      /\ \A f \in Files : content[f] \in {0, 1}
  BY Zenon DEF Init, IndexInit
<1>2. DirtyOK
  BY Zenon, <1>1 DEF DirtyOK, DirtyIsPending
<1>3. PendingOK /\ MarksBefore
  BY ZenonT(30), <1>1, IdleRecords DEF PendingOK, MarksBefore, OnTask
<1>4. JobsCurrent
  BY <1>1 DEF JobsCurrent, Current, IdleJob
<1>5. OneFlush
  BY <1>1 DEF OneFlush, Flushing, NoFlush
<1>6. VersionsOK
  BY <1>1 DEF VersionsOK
<1>7. UpdatesKept
  BY Zenon, <1>1 DEF UpdatesKept
<1> QED
  BY Zenon, <1>2, <1>3, <1>4, <1>5, <1>6, <1>7 DEF ReindexInv

LEMMA ReindexStep ==
  ASSUME QueueInv, ReindexInv, [Next]_vars
  PROVE  ReindexInv'
<1>1. DirtyOK' /\ OneFlush'
  BY Zenon, BufferClean DEF ReindexInv
<1>2. PendingOK' /\ MarksBefore'
  BY Zenon, MarksKept DEF ReindexInv
<1>3. JobsCurrent' /\ VersionsOK'
  BY Zenon, JobsStayCurrent DEF ReindexInv
<1>4. UpdatesKept'
  BY Zenon, UpdatesStay
<1> QED
  BY ZenonT(30), <1>1, <1>2, <1>3, <1>4 DEF ReindexInv

\* A reindex that resumes from a checkpoint skips no update that could still be
\* lost: what it updated up to the checkpoint of its task is in the index file,
\* over interleaved stores, deletes, cancellations, flushes of other threads,
\* crashes and shutdowns (execute_reindex stores a checkpoint only when nothing
\* of its own is pending; write_flush_snapshot, restore_failed_flush).
THEOREM CheckpointsAreDurable ==
  Spec => []CheckpointDurable
<1>1. QueueInv /\ ReindexInv => CheckpointDurable
  <2>1. SUFFICES ASSUME ReindexInv, Fine, NEW e \in indexed, Live(e),
                        tasks[e.task] # NoTask, e.file <= tasks[e.task].checkpoint
                 PROVE  Has(disk[e.field], e)
    BY Zenon DEF CheckpointDurable, Fine, Live, Has
  <2>2. MustSettle(e) /\ Good(e)
    BY Zenon, <2>1 DEF MustSettle, ReindexInv, UpdatesKept
  <2> QED
    BY Zenon, <2>2 DEF Good, Settled
<1> QED
  BY <1>1, QueueInit, QueueStep, ReindexInit, ReindexStep, PTL DEF Spec

\* Whatever is dirty or deleted in the buffer is counted as pending, so the
\* timer, which looks at the count only, writes it: no update, removal, failed
\* flush or restart leaves a key behind (SharedIndexWriteBuffer::should_flush,
\* snapshot_flush and restore_failed_flush).
THEOREM DirtyIsCounted ==
  Spec => []DirtyIsPending
<1>1. ReindexInv => DirtyIsPending
  BY Zenon DEF ReindexInv, DirtyOK
<1> QED
  BY <1>1, QueueInit, QueueStep, ReindexInit, ReindexStep, PTL DEF Spec
=============================================================================
