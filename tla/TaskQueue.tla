----------------------------- MODULE TaskQueue -----------------------------
(***************************************************************************)
(* The persistent task queue (engine/task_queue.rs), the task worker and   *)
(* its resumable reindex (engine/task_worker.rs), the requests and the     *)
(* cron loop that enqueue and cancel tasks, and the restart that puts      *)
(* running tasks back, over the index write buffer of IndexBuffer.         *)
(*                                                                         *)
(* A task id is a number in order of creation.  The registry and the task  *)
(* records are separate entries of the storage engine; enqueue_lock covers *)
(* enqueue and dequeue only, so cancel, checkpoint and prune interleave    *)
(* with them between their read and their write.                           *)
(***************************************************************************)
EXTENDS IndexBuffer

CONSTANTS
  MaxTasks,      \* the tasks a workload enqueues at most
  BatchSize,     \* REINDEX_BATCH_SIZE
  PruneMaxCount, \* PRUNE_MAX_COUNT
  NoTask,        \* no task record under an id
  Nobody,        \* the enqueue lock is free
  Configs,       \* the index configs a client may store
  Workloads      \* bound: requests of each kind, and faults

RequestKinds == {"store", "delete", "config", "cancel", "reindex", "gc", "fault"}

Active == {"pending", "running"}
Terminal == {"completed", "failed", "cancelled"}
Task == [type : {"reindex", "gc"}, meta : BOOLEAN, status : Active \cup Terminal,
         checkpoint : {0} \cup Files]

ASSUME TaskQueueAssumption ==
  /\ {MaxTasks, BatchSize} \subseteq Nat \ {0}
  /\ PruneMaxCount \in Nat
  /\ Workloads \subseteq [RequestKinds -> Nat]
  /\ \A w \in Workloads : w["config"] + w["reindex"] + w["gc"] <= MaxTasks
  /\ Configs \subseteq SUBSET Fields
  /\ NoTask \notin Task /\ Nobody \notin Clients \cup {"worker"}

VARIABLES
  registry,   \* the persisted task ids; nothing depends on their order
  tasks,      \* the persisted task records
  nextId,     \* the id the next task gets: UUIDs, in order of creation
  cancelled,  \* ids cancelled in memory
  lock,       \* enqueue_lock
  worker,     \* the task worker
  client,     \* per client: the rest of the request it is in
  stopping,   \* the shutdown token is cancelled
  requests,   \* requests still to be made, by kind
  accepted,   \* history: ids whose enqueue returned
  indexed     \* history: what a reindex has updated and none has since retired

taskVars == <<registry, tasks, nextId, cancelled, lock, worker, client, stopping, requests, accepted, indexed>>
vars == <<indexVars, taskVars>>

Ids == 1..MaxTasks
WorkerAt == {"idle", "claim", "execute", "retire_flush", "retired", "list", "file", "indexing", "flushed",
             "checkpoint", "checkpoint_store", "final_flush", "final_flushed", "finish", "prune", "prune_save"}
Worker == [pc : WorkerAt, id : {0} \cup Ids, list : Seq(Files), i : Nat, from : {0} \cup Files,
           own : BOOLEAN, ownBefore : BOOLEAN, last : {0} \cup Files,
           then : {"idle", "file_end", "batch_end", "finish"}, got : Task \cup {NoTask},
           result : {"none", "completed", "failed"}, registry : SUBSET Ids, remove : SUBSET Ids]
IdleWorker == [pc |-> "idle", id |-> 0, list |-> <<>>, i |-> 1, from |-> 0, own |-> FALSE, ownBefore |-> FALSE,
               last |-> 0, then |-> "idle", got |-> NoTask, result |-> "none",
               registry |-> {}, remove |-> {}]
Client == [pc : {"idle", "cancel", "cancel_store", "enqueue", "register", "evict"}, cancel : SUBSET Ids,
           got : Task \cup {NoTask}, id : {0} \cup Ids, task : Task \cup {NoTask}, registry : SUBSET Ids,
           config : BOOLEAN]
IdleClient == [pc |-> "idle", cancel |-> {}, got |-> NoTask, id |-> 0,
               task |-> NoTask, registry |-> {}, config |-> FALSE]
Update == [task : Ids, file : Files, version : Versions \ {0}, field : Fields]

TypeOK ==
  /\ IndexTypeOK
  /\ registry \subseteq Ids
  /\ tasks \in [Ids -> Task \cup {NoTask}]
  /\ nextId \in 1..(MaxTasks + 1)
  /\ cancelled \subseteq Ids
  /\ lock \in Clients \cup {"worker", Nobody}
  /\ worker \in Worker
  /\ client \in [Clients -> Client]
  /\ stopping \in BOOLEAN
  /\ requests \in [RequestKinds -> Nat]
  /\ accepted \subseteq Ids
  /\ indexed \subseteq Update

Init ==
  /\ IndexInit
  /\ registry = {}
  /\ tasks = [id \in Ids |-> NoTask]
  /\ nextId = 1
  /\ cancelled = {}
  /\ lock = Nobody
  /\ worker = IdleWorker
  /\ client = [c \in Clients |-> IdleClient]
  /\ stopping = FALSE
  /\ requests \in Workloads
  /\ faults = requests["fault"]
  /\ accepted = {} /\ indexed = {}

\* list_tasks: the registered ids that have a record.
list_tasks == {id \in registry : tasks[id] # NoTask}
IsActive(id) == tasks[id] # NoTask /\ tasks[id].status \in Active

-----------------------------------------------------------------------------
(* Requests.                                                               *)

Request(c, kind) ==
  /\ Free(c) /\ client[c] = IdleClient /\ ~stopping /\ requests[kind] > 0
  /\ requests' = [requests EXCEPT ![kind] = @ - 1]
NewTask(type, meta) == [type |-> type, meta |-> meta, status |-> "pending", checkpoint |-> 0]

StoreFile(c) ==
  /\ Request(c, "store")
  /\ \E f \in Files : store_file(c, f)
  /\ UNCHANGED <<registry, tasks, nextId, cancelled, lock, worker, client, stopping, accepted, indexed>>

DeleteFile(c) ==
  /\ Request(c, "delete")
  /\ \E f \in Files : delete_file(c, f)
  /\ UNCHANGED <<registry, tasks, nextId, cancelled, lock, worker, client, stopping, accepted, indexed>>

\* What is left of a request once the given tasks are to be cancelled.
AfterCancel(request, left) ==
  IF left # {} \/ request.config
  THEN [request EXCEPT !.pc = IF left # {} THEN "cancel" ELSE "enqueue", !.cancel = left, !.id = 0, !.got = NoTask]
  ELSE IdleClient

\* engine_store_file on indexes.json, up to the reindex tasks it lists for
\* cancellation.  The config cache still holds the old config.
PutConfig(c) ==
  /\ Request(c, "config")
  /\ \E cfg \in Configs \ {config} :
       /\ config' = cfg
       /\ client' = [client EXCEPT ![c] = AfterCancel(
            [IdleClient EXCEPT !.config = TRUE, !.task = NewTask("reindex", cfg \subseteq MetaFields)],
            {id \in registry : IsActive(id) /\ tasks[id].type = "reindex"})]
  /\ UNCHANGED <<content, clock, cachedConfig, bufferVars, disk, job, flush, cleanup, faults,
                 blame, registry, tasks, nextId, cancelled, lock, worker, stopping, accepted, indexed>>

\* DELETE /admin/tasks/{id}.
CancelTask(c) ==
  /\ Request(c, "cancel")
  /\ \E id \in Ids :
       /\ tasks[id] # NoTask
       /\ client' = [client EXCEPT ![c] = [IdleClient EXCEPT !.pc = "cancel", !.cancel = {id}]]
  /\ UNCHANGED <<indexVars, registry, tasks, nextId, cancelled, lock, worker, stopping, accepted, indexed>>

\* trigger_reindex, trigger_gc and the cron loop, which first checks that no
\* equal task is pending or running.
TriggerTask(c) ==
  /\ \E kind \in {"reindex", "gc"} :
       /\ Request(c, kind)
       /\ kind = "gc" => ~\E id \in registry : IsActive(id) /\ tasks[id].type = "gc"
       /\ client' = [client EXCEPT ![c] = [IdleClient EXCEPT !.pc = "enqueue",
                                                            !.task = NewTask(kind, FALSE)]]
  /\ UNCHANGED <<indexVars, registry, tasks, nextId, cancelled, lock, worker, stopping, accepted, indexed>>

\* cancel: the in-memory flag, then update_status reads the record.
CancelRead(c) ==
  /\ client[c].pc = "cancel"
  /\ \E id \in client[c].cancel :
       /\ cancelled' = cancelled \cup {id}
       /\ client' = [client EXCEPT ![c] =
            IF tasks[id] = NoTask THEN AfterCancel(@, @.cancel \ {id})
            ELSE [@ EXCEPT !.pc = "cancel_store", !.id = id, !.got = tasks[id]]]
  /\ UNCHANGED <<indexVars, registry, tasks, lock, worker, stopping, nextId, requests, accepted, indexed>>

\* ... and stores it with the new status.
CancelStore(c) ==
  /\ client[c].pc = "cancel_store"
  /\ tasks' = [tasks EXCEPT ![client[c].id] = [client[c].got EXCEPT !.status = "cancelled"]]
  /\ client' = [client EXCEPT ![c] = AfterCancel(@, @.cancel \ {@.id})]
  /\ UNCHANGED <<indexVars, registry, cancelled, lock, worker, stopping, nextId, requests, accepted, indexed>>

\* enqueue under enqueue_lock: the record is stored and the registry read.
EnqueueStore(c) ==
  /\ client[c].pc = "enqueue" /\ lock = Nobody /\ nextId \in Ids
  /\ tasks' = [tasks EXCEPT ![nextId] = client[c].task]
  /\ nextId' = nextId + 1
  /\ client' = [client EXCEPT ![c] = [@ EXCEPT !.pc = "register", !.id = nextId,
                                               !.registry = registry]]
  /\ lock' = c
  /\ UNCHANGED <<indexVars, registry, cancelled, worker, stopping, requests, accepted, indexed>>

\* ... and the registry is saved with the new id.
EnqueueRegister(c) ==
  /\ client[c].pc = "register"
  /\ registry' = client[c].registry \cup {client[c].id}
  /\ lock' = Nobody
  /\ accepted' = accepted \cup {client[c].id}
  /\ client' = [client EXCEPT ![c] = IF @.config THEN [IdleClient EXCEPT !.pc = "evict"]
                                     ELSE IdleClient]
  /\ UNCHANGED <<indexVars, tasks, cancelled, worker, stopping, nextId, requests, indexed>>

\* evict_caches_for_path, the last thing the handler does.
EvictCaches(c) ==
  /\ client[c].pc = "evict"
  /\ cachedConfig' = NotCached
  /\ client' = [client EXCEPT ![c] = IdleClient]
  /\ UNCHANGED <<content, clock, config, bufferVars, disk, job, flush, cleanup, faults, blame,
                 registry, tasks, nextId, cancelled, lock, worker, stopping, requests, accepted, indexed>>

-----------------------------------------------------------------------------
(* The worker.                                                             *)

At(pc) == worker.pc = pc /\ ~Flushing("worker")
Goto(pc) == worker' = [worker EXCEPT !.pc = pc]

\* dequeue_next: the oldest pending task, found under the lock.
Dequeue ==
  /\ At("idle") /\ ~stopping /\ lock = Nobody
  /\ \E id \in list_tasks :
       /\ tasks[id].status = "pending"
       /\ \A other \in list_tasks : tasks[other].status = "pending" => id <= other
       /\ worker' = [IdleWorker EXCEPT !.pc = "claim", !.id = id, !.from = tasks[id].checkpoint]
  /\ lock' = "worker"
  /\ UNCHANGED <<indexVars, registry, tasks, cancelled, client, stopping, nextId, requests, accepted, indexed>>

\* ... and its update_status, whatever the record says by now.
Claim ==
  /\ At("claim")
  /\ tasks' = [tasks EXCEPT ![worker.id].status = "running"]
  /\ blame' = IF tasks[worker.id].status # "pending" THEN blame \cup {"claim"} ELSE blame
  /\ lock' = Nobody
  /\ Goto("execute")
  /\ UNCHANGED <<content, clock, config, cachedConfig, bufferVars, disk, job, flush, cleanup,
                 faults, registry, cancelled, client, stopping, nextId, requests, accepted, indexed>>

\* execute_gc, execute_backup and execute_cleanup run to an end of their own.
ExecuteOther ==
  /\ At("execute") /\ tasks[worker.id].type # "reindex"
  /\ \E result \in {"completed", "failed"} :
       worker' = [worker EXCEPT !.pc = "finish", !.result = result]
  /\ UNCHANGED <<indexVars, registry, tasks, nextId, cancelled, lock, client, stopping, requests, accepted, indexed>>

\* execute_reindex: load_config through the cache, then
\* delete_indexes_not_in_config.
Retire ==
  /\ At("execute") /\ tasks[worker.id].type = "reindex"
  /\ \E stale \in {list_indexes \ load_config} :
       /\ indexes' = [k \in Fields |-> IF k \in stale THEN NoIndex ELSE indexes[k]]
       /\ dirtyKeys' = dirtyKeys \ stale
       /\ deletedKeys' = deletedKeys \cup stale
       /\ pending' = (pending \/ stale # {})
       /\ indexed' = {e \in indexed : e.field \notin stale}
       /\ Goto(IF stale # {} THEN "retire_flush" ELSE "list")
  /\ cachedConfig' = load_config
  /\ blame' = IF load_config # config THEN blame \cup {"config"} ELSE blame
  /\ UNCHANGED <<content, clock, config, disk, job, flush, cleanup, faults, registry, tasks,
                 cancelled, lock, client, stopping, nextId, requests, accepted>>

\* flush_buffered_indexes by the worker: a snapshot when the buffer holds
\* anything, else nothing.  A flush another thread has under way is not
\* waited for.
ForcedFlush(after) ==
  /\ IF pending \/ dirtyKeys # {} \/ deletedKeys # {}
     THEN snapshot_flush("worker", indexes, dirtyKeys, deletedKeys)
     ELSE /\ blame' = IF \E t \in Threads : Flushing(t) THEN blame \cup {"flusher"} ELSE blame
          /\ UNCHANGED <<flush, dirtyKeys, deletedKeys, pending>>
  /\ worker' = [worker EXCEPT !.pc = after]
  /\ UNCHANGED <<content, clock, config, cachedConfig, indexes, disk, job, cleanup, faults,
                 registry, tasks, nextId, cancelled, lock, client, stopping, requests, accepted, indexed>>

RetireFlush == At("retire_flush") /\ ForcedFlush("retired")

\* The flush is over: an error ends the task.
FlushEnded(pc, good) ==
  /\ At(pc)
  /\ worker' = IF flush["worker"].failed
               THEN [worker EXCEPT !.pc = "finish", !.result = "failed"]
               ELSE good
  /\ flush' = [flush EXCEPT !["worker"] = NoFlush]
  /\ UNCHANGED <<content, clock, config, cachedConfig, bufferVars, disk, job, cleanup, faults,
                 blame, registry, tasks, nextId, cancelled, lock, client, stopping, requests, accepted, indexed>>

Retired == FlushEnded("retired", [worker EXCEPT !.pc = "list"])

\* The sequences that list a set of files in path order: there is one.
InOrder(files) ==
  {s \in UNION {[1..n -> files] : n \in 0..Cardinality(files)} :
     /\ \A i, j \in DOMAIN s : i < j => s[i] < s[j]
     /\ \A f \in files : \E i \in DOMAIN s : s[i] = f}

\* The files to do, in path order, after the checkpoint of the task.
ListFiles ==
  /\ At("list")
  /\ \E list \in InOrder({f \in Files : content[f] # 0 /\ f > worker.from}) :
       worker' = IF Len(list) = 0 THEN [worker EXCEPT !.pc = "finish", !.result = "completed"]
                 ELSE [worker EXCEPT !.pc = "file", !.from = 0, !.list = list]
  /\ UNCHANGED <<indexVars, registry, tasks, nextId, cancelled, lock, client, stopping, requests, accepted, indexed>>

\* After a batch the task's and the server's cancellation are looked at; the
\* next file, the final flush or the last checkpoint follows.
EndBatch(w) ==
  IF w.id \in cancelled \/ stopping THEN [w EXCEPT !.pc = "finish", !.result = "failed"]
  ELSE IF w.i < Len(w.list) THEN [w EXCEPT !.pc = "file", !.i = @ + 1]
  ELSE IF w.own THEN [w EXCEPT !.pc = "final_flush"]
  ELSE [w EXCEPT !.pc = "checkpoint", !.then = "finish", !.result = "completed"]

\* Mutant: the batch checkpoint does not wait for pending mutations.
EndFile_eager(w) ==
  IF w.i % BatchSize # 0 /\ w.i < Len(w.list) THEN [w EXCEPT !.pc = "file", !.i = @ + 1]
  ELSE [w EXCEPT !.pc = "checkpoint", !.then = "batch_end"]

\* After a file; at the end of a batch a checkpoint is made first when
\* nothing of the worker's own is pending.
EndFile(w) ==
  IF w.i % BatchSize # 0 /\ w.i < Len(w.list) THEN [w EXCEPT !.pc = "file", !.i = @ + 1]
  ELSE IF ~w.own THEN [w EXCEPT !.pc = "checkpoint", !.then = "batch_end"]
  ELSE EndBatch(w)

\* One file: its content is read for a full reindex (a file that is gone is
\* skipped), and the pipeline is run on it.
IndexFile ==
  /\ At("file")
  /\ \E f \in {worker.list[worker.i]}, meta \in {tasks[worker.id].meta} :
       IF ~meta /\ content[f] = 0
       THEN /\ worker' = EndFile([worker EXCEPT !.last = f])
            /\ UNCHANGED <<job, cachedConfig, blame>>
       ELSE /\ StartUpdate("worker", f, IF meta THEN MetaFields ELSE Fields,
                           IF meta THEN 0 ELSE content[f])
            /\ cachedConfig' = load_config
            /\ blame' = IF load_config # config THEN blame \cup {"config"} ELSE blame
            /\ worker' = [worker EXCEPT !.pc = "indexing", !.last = f]
  /\ UNCHANGED <<content, clock, config, bufferVars, disk, flush, cleanup, faults, registry,
                 tasks, cancelled, lock, client, stopping, nextId, requests, accepted, indexed>>

\* IndexWriteBuffer::update_index of the worker: its own count of pending
\* mutations goes up once the shared update, flush included, succeeded.
WorkerUpdate ==
  /\ update_index("worker")
  /\ worker' = [worker EXCEPT !.own = TRUE, !.ownBefore = worker.own]
  /\ indexed' = indexed \cup {[task |-> worker.id, file |-> job["worker"].file,
                               version |-> job["worker"].value, field |-> job["worker"].field]}
  /\ UNCHANGED <<content, clock, config, cachedConfig, disk, cleanup, faults,
                 registry, tasks, nextId, cancelled, lock, client, stopping, requests, accepted>>

\* A due flush inside that update fails: the mutation stays in the buffer,
\* the error is logged by the pipeline, and the worker does not count it.
WorkerUpdateFails ==
  /\ worker.pc = "indexing" /\ flush["worker"].failed
  /\ worker' = [worker EXCEPT !.own = worker.ownBefore, !.ownBefore = FALSE]
  /\ flush' = [flush EXCEPT !["worker"] = NoFlush]
  /\ blame' = blame \cup {"failure"}
  /\ UNCHANGED <<content, clock, config, cachedConfig, bufferVars, disk, job, cleanup, faults,
                 registry, tasks, nextId, cancelled, lock, client, stopping, requests, accepted, indexed>>

\* The file is done: flush_if_due, which may find the worker's own count due.
FlushAfterFile ==
  /\ At("indexing") /\ ~flush["worker"].failed /\ job["worker"] = IdleJob /\ worker.own
  /\ ForcedFlush("flushed")

NoFlushAfterFile ==
  /\ At("indexing") /\ ~flush["worker"].failed /\ job["worker"] = IdleJob
  /\ worker' = EndFile(worker)
  /\ UNCHANGED <<indexVars, registry, tasks, nextId, cancelled, lock, client, stopping, requests, accepted, indexed>>

Flushed == FlushEnded("flushed", [worker EXCEPT !.pc = "checkpoint", !.own = FALSE, !.then = "file_end"])

\* update_checkpoint: the record is read ...
CheckpointRead ==
  /\ At("checkpoint")
  /\ worker' = [worker EXCEPT !.pc = "checkpoint_store", !.got = tasks[worker.id]]
  /\ UNCHANGED <<indexVars, registry, tasks, nextId, cancelled, lock, client, stopping, requests, accepted, indexed>>

\* ... and stored with the last file done.
CheckpointStore ==
  /\ At("checkpoint_store")
  /\ tasks' = [tasks EXCEPT ![worker.id] = [worker.got EXCEPT !.checkpoint = worker.last]]
  /\ \E w \in {[worker EXCEPT !.then = "idle", !.got = NoTask]} :
       worker' = IF worker.then = "file_end" THEN EndFile(w)
                 ELSE IF worker.then = "batch_end" THEN EndBatch(w)
                 ELSE [w EXCEPT !.pc = "finish"]
  /\ UNCHANGED <<indexVars, registry, cancelled, lock, client, stopping, nextId, requests, accepted, indexed>>

FinalFlush == At("final_flush") /\ ForcedFlush("final_flushed")

FinalFlushed ==
  FlushEnded("final_flushed", [worker EXCEPT !.pc = "checkpoint", !.own = FALSE,
                                             !.then = "finish", !.result = "completed"])

\* update_status with the outcome, over whatever status the record has.
Finish ==
  /\ At("finish")
  /\ tasks' = [tasks EXCEPT ![worker.id].status = worker.result]
  /\ blame' = IF worker.result = "failed" /\ tasks[worker.id].type = "reindex"
              THEN blame \cup {"reindex"} ELSE blame
  /\ worker' = [IdleWorker EXCEPT !.pc = "prune", !.id = worker.id]
  /\ UNCHANGED <<content, clock, config, cachedConfig, bufferVars, disk, job, flush, cleanup,
                 faults, registry, cancelled, lock, client, stopping, nextId, requests, accepted, indexed>>

\* prune_completed: the registry and the records are read without the lock;
\* ended tasks beyond the count limit, or too old, are picked.
PruneLoad ==
  /\ At("prune")
  /\ \E ended \in {{id \in list_tasks : tasks[id].status \in Terminal}} :
     \E remove \in SUBSET ended :
       /\ Cardinality(ended \ remove) <= PruneMaxCount
       /\ PruneMaxCount > 0 => worker.id \notin remove
       /\ worker' = [worker EXCEPT !.pc = "prune_save", !.registry = registry,
                                   !.remove = remove]
  /\ UNCHANGED <<indexVars, registry, tasks, nextId, cancelled, lock, client, stopping, requests, accepted, indexed>>

\* Mutant: the registry is saved with the pruned tasks only.
PruneSave_inverted ==
  /\ At("prune_save")
  /\ tasks' = [id \in Ids |-> IF id \in worker.remove THEN NoTask ELSE tasks[id]]
  /\ registry' = worker.registry \cap worker.remove
  /\ blame' = IF registry # worker.registry THEN blame \cup {"prune"} ELSE blame
  /\ worker' = IdleWorker
  /\ UNCHANGED <<content, clock, config, cachedConfig, bufferVars, disk, job, flush, cleanup,
                 faults, nextId, cancelled, lock, client, stopping, requests, accepted, indexed>>

\* Their entries are deleted and the registry read before is saved without
\* them.
PruneSave ==
  /\ At("prune_save")
  /\ tasks' = [id \in Ids |-> IF id \in worker.remove THEN NoTask ELSE tasks[id]]
  /\ registry' = worker.registry \ worker.remove
  /\ blame' = IF registry # worker.registry THEN blame \cup {"prune"} ELSE blame
  /\ worker' = IdleWorker
  /\ UNCHANGED <<content, clock, config, cachedConfig, bufferVars, disk, job, flush, cleanup,
                 faults, cancelled, lock, client, stopping, nextId, requests, accepted, indexed>>

-----------------------------------------------------------------------------
(* Crash, shutdown, restart.                                               *)

\* The records of the tasks after a start that puts the given statuses back
\* to pending.
Reset(statuses) ==
  [id \in Ids |-> IF id \in list_tasks /\ tasks[id].status \in statuses
                  THEN [tasks[id] EXCEPT !.status = "pending"] ELSE tasks[id]]

\* Mutant: running tasks stay running over a restart.
ResetTasks_none == tasks

\* Mutant: every task that did not complete is put back.
ResetTasks_all == Reset({"running", "failed", "cancelled"})

\* commands/start.rs: list_tasks and update_status.
ResetTasks == Reset({"running"})

\* The next process finds what was stored, and resets the tasks.
Restart ==
  /\ LoseMemory
  /\ tasks' = ResetTasks
  /\ cancelled' = {}
  /\ lock' = Nobody
  /\ worker' = IdleWorker
  /\ client' = [c \in Clients |-> IdleClient]
  /\ stopping' = FALSE
  /\ indexed' = {e \in indexed : tasks[e.task] # NoTask /\ e.file <= tasks[e.task].checkpoint}
  /\ UNCHANGED <<content, clock, config, registry, nextId, requests, accepted>>

Crash ==
  /\ faults > 0
  /\ Restart
  /\ blame' = IF dirtyKeys = {} /\ deletedKeys = {} /\ cleanup = {}
                 /\ \A t \in Threads : Free(t)
                 /\ \A c \in Clients : client[c] = IdleClient
              THEN blame ELSE blame \cup {"crash"}
  /\ faults' = faults - 1
  /\ UNCHANGED disk

Shutdown ==
  /\ ~stopping /\ faults > 0
  /\ stopping' = TRUE
  /\ faults' = faults - 1
  /\ UNCHANGED <<content, clock, config, cachedConfig, bufferVars, disk, job, flush, cleanup,
                 blame, registry, tasks, nextId, cancelled, lock, worker, client, requests, accepted, indexed>>

\* The worker has returned and no request is left: the shutdown flushes the
\* index buffer and the process ends.
ShutdownDone ==
  /\ stopping /\ worker = IdleWorker /\ cleanup = {}
  /\ \A t \in Threads : Free(t)
  /\ \A c \in Clients : client[c] = IdleClient
  /\ disk' = [k \in Fields |-> View(k)]
  /\ Restart
  /\ UNCHANGED <<faults, blame>>

ClientStep(c) ==
  \/ StoreFile(c) \/ DeleteFile(c) \/ PutConfig(c) \/ CancelTask(c) \/ TriggerTask(c)

RequestStep(c) ==
  \/ CancelRead(c) \/ CancelStore(c)
  \/ EnqueueStore(c) \/ EnqueueRegister(c) \/ EvictCaches(c)

WorkerStep ==
  \/ Dequeue \/ Claim \/ ExecuteOther \/ Retire \/ RetireFlush \/ Retired \/ ListFiles
  \/ IndexFile \/ WorkerUpdate \/ WorkerUpdateFails \/ FlushAfterFile \/ NoFlushAfterFile
  \/ Flushed \/ CheckpointRead \/ CheckpointStore \/ FinalFlush
  \/ FinalFlushed \/ Finish \/ PruneLoad \/ PruneSave

\* The steps of a thread inside the index buffer; the worker waits for its
\* failed flushes with WorkerUpdateFails, other threads log and go on.
BufferStep(t) ==
  /\ ~(t = "worker" /\ flush[t].failed)
  /\ \/ ThreadStep(t)
     \/ /\ t # "worker"
        /\ update_index(t)
        /\ UNCHANGED <<content, clock, config, cachedConfig, disk, cleanup, faults>>
  /\ UNCHANGED taskVars

Cleaner == process_batch /\ UNCHANGED taskVars

Next ==
  \/ \E c \in Clients : ClientStep(c) \/ RequestStep(c)
  \/ \E t \in Threads : BufferStep(t)
  \/ Cleaner
  \/ WorkerStep
  \/ Crash \/ Shutdown \/ ShutdownDone

Fairness ==
  /\ WF_vars(WorkerStep) /\ WF_vars(Cleaner) /\ WF_vars(ShutdownDone)
  /\ \A t \in Threads : WF_vars(BufferStep(t))
  /\ \A c \in Clients : WF_vars(RequestStep(c))

Spec == Init /\ [][Next]_vars /\ Fairness

-----------------------------------------------------------------------------
(* Properties.                                                             *)

\* A reindex that resumes never skips an index update that could still be
\* lost: whatever a reindex updated up to the checkpoint of its task is in the
\* index file, unless the file was changed or the index retired since
\* (execute_reindex advances the checkpoint only past flushed mutations).  It
\* holds as long as no two threads were writing flushes at the same time, no
\* flush failed inside an update and no request overlapped another on a file.
CheckpointDurable ==
  blame \cap {"flusher", "failure", "overlap"} = {} =>
    \A e \in indexed :
      /\ tasks[e.task] # NoTask /\ e.file <= tasks[e.task].checkpoint
      /\ content[e.file] = e.version
      => disk[e.field] # NoIndex /\ disk[e.field][e.file] = e.version

\* Whatever is dirty or deleted in the buffer is counted as pending, so the
\* flush timer, which looks at the count only, will write it
\* (SharedIndexWriteBuffer::should_flush).
DirtyIsPending == dirtyKeys \cup deletedKeys # {} => pending

Quiet ==
  /\ cleanup = {} /\ \A t \in Threads : Free(t)
  /\ \A c \in Clients : client[c] = IdleClient
  /\ worker = IdleWorker /\ \A id \in Ids : ~IsActive(id)

\* When nothing is in progress every live file is in every configured
\* metadata index with its current value, and no deleted file is, unless a
\* listed hazard was met.
IndexComplete ==
  Quiet /\ blame \cap {"overlap", "crash", "flusher", "config", "reindex", "prune"} = {} =>
    \A k \in config \cap MetaFields, f \in Files :
      content[f] = IF View(k) = NoIndex THEN 0 ELSE View(k)[f]

\* A task that was enqueued is never lost: it stays registered until it has
\* ended, unless a prune saved a registry read before the enqueue.
NeverLost ==
  "prune" \notin blame =>
    \A id \in accepted : IsActive(id) => id \in registry

\* A task that has ended does not run again: its status leaves the terminal
\* ones only through the worker that is still on it, or through a claim that
\* overwrites a cancellation made since the dequeue listed the tasks.
EndedStaysEnded ==
  [][\A id \in Ids :
       tasks[id] # NoTask /\ tasks[id].status \in Terminal /\ tasks'[id] # NoTask =>
         \/ tasks'[id].status \in Terminal
         \/ worker.id = id /\ (worker.pc = "checkpoint_store" \/ "claim" \in blame')]_vars

\* Every registered task comes to an end, over crashes, restarts and
\* cancellations, unless a prune dropped it from the registry.
EveryTaskEnds ==
  \A id \in Ids :
    IsActive(id) /\ id \in registry ~> ~IsActive(id) \/ "prune" \in blame

\* What the buffer holds reaches the index files, over failed writes, unless
\* two threads wrote flushes at the same time: the older snapshot may then be
\* written last, and nothing is left dirty to correct it.
BufferDrains ==
  dirtyKeys # {} ~>
    \/ \A k \in Fields : indexes[k] # NoIndex /\ k \notin deletedKeys => disk[k] = indexes[k]
    \/ "flusher" \in blame

\* What the background threads owe: both of the above.
BackgroundWorkEnds == EveryTaskEnds /\ BufferDrains
=============================================================================
