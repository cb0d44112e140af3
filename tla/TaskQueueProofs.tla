---------------------------- MODULE TaskQueueProofs ----------------------------
(***************************************************************************)
(* What the task queue guarantees for any files, fields, clients and tasks,*)
(* over crashes, shutdowns and failed flushes: an enqueued task stays      *)
(* registered until it has ended, and an ended task does not run again.    *)
(***************************************************************************)
EXTENDS TaskQueue, IndexBufferProofs

-----------------------------------------------------------------------------
(* The queue.                                                              *)

\* The worker is on a task: from its dequeue to the update of its status.
OnTask == worker.pc \notin {"idle", "prune", "prune_save"}

\* Where the worker is in the list of files, and where before it.
EarlyAt == {"claim", "execute", "retire_flush", "retired", "list"}
ListAt == {"file", "indexing", "flushed", "checkpoint", "checkpoint_store", "final_flush", "final_flushed"}

\* Ids are given out in order, and the worker's task has a record, which is no
\* longer pending once it is claimed.
IdsInOrder ==
  /\ \A id \in Ids : id >= nextId => tasks[id] = NoTask
  /\ \A id \in accepted : id < nextId
  /\ \A c \in Clients : client[c].pc \in {"cancel_store", "register"} => client[c].id < nextId
  /\ \A e \in indexed : e.task < nextId
  /\ OnTask => /\ worker.id \in Ids /\ tasks[worker.id] # NoTask
               /\ worker.pc # "claim" => tasks[worker.id].status # "pending"

\* A record to be enqueued is a new one; a record to be cancelled was read.
IsNew(task) == task # NoTask /\ task.status = "pending" /\ task.checkpoint = 0
ClientOK(x) ==
  /\ x.config \/ x.pc = "enqueue" => IsNew(x.task)
  /\ x.pc = "cancel_store" => x.id \in Ids /\ x.got # NoTask
  /\ x.pc = "register" => x.id \in Ids
ClientsOK == \A c \in Clients : ClientOK(client[c])

\* The worker's place: a checkpoint is made only with nothing of its own
\* pending, an outcome is known when it is stored, and the files are in order.
WorkerOK(w) ==
  /\ w.pc = "checkpoint_store" => w.got # NoTask /\ w.got.status # "pending"
  /\ w.pc \in EarlyAt => w.i = 1
  /\ w.pc = "finish" \/ w.then = "finish" => w.result # "none"
  /\ w.pc \in {"checkpoint", "checkpoint_store"} => ~w.own /\ w.then # "idle"
  /\ w.pc \in ListAt => /\ w.i \in 1..Len(w.list)
                        /\ \A m, n \in 1..Len(w.list) : m < n => w.list[m] < w.list[n]
                        /\ w.pc # "file" => w.last = w.list[w.i]

\* enqueue_lock is held from a stored record to its registration, and from a
\* dequeue to its claim.
LockOK ==
  /\ \A c \in Clients : client[c].pc = "register" <=> lock = c
  /\ worker.pc = "claim" <=> lock = "worker"

\* Unless a prune saved an old registry: it only loses ids whose record goes,
\* so a copy about to be extended lacks none of them.
RegistryOK ==
  "prune" \notin blame =>
    /\ \A c \in Clients : client[c].pc = "register" => registry \subseteq client[c].registry
    /\ OnTask => worker.id \in registry
    /\ \A id \in accepted : IsActive(id) => id \in registry

-----------------------------------------------------------------------------
(* The buffer.                                                             *)

JobsOK ==
  /\ \A t \in Threads : JobOK(t)
  /\ job["timer"] = IdleJob
  /\ job["worker"] # IdleJob => worker.pc = "indexing" /\ job["worker"].file = worker.last

QueueTypeOK ==
  /\ registry \subseteq Ids /\ tasks \in [Ids -> Task \cup {NoTask}] /\ nextId \in 1..(MaxTasks + 1)
  /\ cancelled \subseteq Ids /\ lock \in Clients \cup {"worker", Nobody}
  /\ worker \in Worker /\ client \in [Clients -> Client] /\ stopping \in BOOLEAN
  /\ requests \in [RequestKinds -> Nat] /\ accepted \subseteq Ids /\ indexed \subseteq Update
QueueOK == IdsInOrder /\ ClientsOK /\ WorkerOK(worker) /\ LockOK /\ RegistryOK
QueueInv == IndexTypeOK /\ FlushesOK /\ QueueTypeOK /\ JobsOK /\ QueueOK

-----------------------------------------------------------------------------
(* The records of clients and of the worker.                               *)

\* Client c moves to the rest of its request, x.
Moves(c, x) == client' \in [Clients -> Client] /\ client'[c] = x /\ \A d \in Clients \ {c} : client'[d] = client[d]

LEMMA ClientMoves ==
  ASSUME QueueTypeOK, NEW c \in Clients, NEW x \in Client, client' = [client EXCEPT ![c] = x]
  PROVE  Moves(c, x)
BY Zenon DEF QueueTypeOK, Moves

LEMMA IdleRecords ==
  /\ IdleClient \in Client /\ ClientOK(IdleClient) /\ IdleClient.pc = "idle" /\ ~IdleClient.config
  /\ IdleWorker \in Worker /\ WorkerOK(IdleWorker) /\ IdleWorker.pc = "idle" /\ IdleWorker.then = "idle"
<1>1. IdleClient \in Client /\ ClientOK(IdleClient)
  BY DEF IdleClient, Client, ClientOK
<1>2. << >> \in Seq(Files) /\ 1 \in Nat
  OBVIOUS
<1>3. IdleWorker \in Worker
  BY <1>2 DEF IdleWorker, Worker, WorkerAt
<1>4. WorkerOK(IdleWorker)
  BY Zenon DEF IdleWorker, WorkerOK, ListAt, EarlyAt
<1> QED
  BY Zenon, <1>1, <1>3, <1>4 DEF IdleClient, IdleWorker

LEMMA NewTyped ==
  ASSUME NEW type \in {"reindex", "gc"}, NEW meta \in BOOLEAN
  PROVE  NewTask(type, meta) \in Task /\ IsNew(NewTask(type, meta))
<1>1. NewTask(type, meta) \in Task
  BY DEF NewTask, Task, Active
<1> QED
  BY <1>1, TaskQueueAssumption DEF NewTask, IsNew

\* What is left of a request once some tasks are to be cancelled.
LEMMA AfterCancelMoves ==
  ASSUME NEW x \in Client, x.config => IsNew(x.task), NEW left \in SUBSET Ids
  PROVE  /\ AfterCancel(x, left) \in Client /\ ClientOK(AfterCancel(x, left))
         /\ AfterCancel(x, left).pc \in {"idle", "cancel", "enqueue"}
<1>1. CASE left # {} \/ x.config
  <2> DEFINE pc == IF left # {} THEN "cancel" ELSE "enqueue"
             new == [x EXCEPT !.pc = pc, !.cancel = left, !.id = 0, !.got = NoTask]
  <2>1. AfterCancel(x, left) = new
    BY <1>1 DEF AfterCancel
  <2>2. pc \in {"cancel", "enqueue"} /\ (pc = "enqueue" => x.config)
    BY <1>1
  <2> HIDE DEF pc
  <2>3. new \in Client /\ new.pc = pc /\ new.config = x.config /\ new.task = x.task
    BY Zenon, <2>2 DEF Client
  <2> HIDE DEF new
  <2> QED
    BY <2>1, <2>2, <2>3 DEF ClientOK
<1>2. CASE ~(left # {} \/ x.config)
  BY <1>2, IdleRecords DEF AfterCancel
<1> QED
  BY <1>1, <1>2

\* The worker goes on after a file or a batch.
ListOK(w) ==
  /\ w.i \in 1..Len(w.list) /\ \A m, n \in 1..Len(w.list) : m < n => w.list[m] < w.list[n]
  /\ w.last = w.list[w.i] /\ (w.then = "finish" => w.result # "none")
Advanced(w, r) ==
  /\ r \in Worker /\ WorkerOK(r)
  /\ r.id = w.id /\ r.list = w.list /\ r.own = w.own
  /\ \/ r.pc = "finish"
     \/ r.pc = "file" /\ r.i = w.i + 1 /\ r.i \in 1..Len(w.list)
     \/ r.pc \in {"final_flush", "checkpoint"} /\ r.i = w.i

LEMMA NextFile ==
  ASSUME NEW w \in Worker, ListOK(w), w.i < Len(w.list)
  PROVE  Advanced(w, [w EXCEPT !.pc = "file", !.i = @ + 1])
<1> DEFINE i == w.i + 1
           new == [w EXCEPT !.pc = "file", !.i = i]
<1>1. i \in 1..Len(w.list) /\ i \in Nat
  BY DEF ListOK, Worker
<1> HIDE DEF i
<1>2. new \in Worker
  BY ZenonT(30), <1>1 DEF Worker, WorkerAt
<1>3. new.pc = "file" /\ new.i = i /\ new.list = w.list /\ new.id = w.id /\ new.own = w.own
        /\ new.then = w.then /\ new.result = w.result
  BY DEF Worker
<1> HIDE DEF new
<1>4. WorkerOK(new)
  BY Zenon, <1>1, <1>3 DEF WorkerOK, ListOK, ListAt, EarlyAt
<1>5. Advanced(w, new)
  BY <1>1, <1>2, <1>3, <1>4 DEF Advanced, i
<1> QED
  BY <1>5 DEF new, i

LEMMA EndBatchMoves ==
  ASSUME NEW w \in Worker, ListOK(w)
  PROVE  Advanced(w, EndBatch(w))
<1>1. CASE w.id \in cancelled \/ stopping
  <2> DEFINE new == [w EXCEPT !.pc = "finish", !.result = "failed"]
  <2>0. {"finish", "final_flush", "checkpoint"} \subseteq WorkerAt
    BY DEF WorkerAt
  <2>1. new \in Worker
    BY Zenon, <2>0 DEF Worker
  <2>2. new.pc = "finish" /\ new.result = "failed" /\ new.list = w.list /\ new.id = w.id /\ new.own = w.own
    BY DEF Worker
  <2>3. EndBatch(w) = new
    BY <1>1 DEF EndBatch
  <2> HIDE DEF new
  <2> QED
    BY Zenon, <2>1, <2>2, <2>3 DEF Advanced, WorkerOK, ListAt, EarlyAt
<1>2. CASE ~(w.id \in cancelled \/ stopping) /\ w.i < Len(w.list)
  BY Zenon, <1>2, NextFile DEF EndBatch
<1>3. CASE ~(w.id \in cancelled \/ stopping) /\ ~(w.i < Len(w.list)) /\ w.own
  <2> DEFINE new == [w EXCEPT !.pc = "final_flush"]
  <2>0. {"finish", "final_flush", "checkpoint"} \subseteq WorkerAt
    BY DEF WorkerAt
  <2>1. new \in Worker
    BY Zenon, <2>0 DEF Worker
  <2>2. new.pc = "final_flush" /\ new.result = w.result /\ new.then = w.then /\ new.list = w.list /\ new.id = w.id
          /\ new.own = w.own /\ new.i = w.i /\ new.last = w.last
    BY DEF Worker
  <2>3. EndBatch(w) = new
    BY <1>3 DEF EndBatch
  <2> HIDE DEF new
  <2> QED
    BY Zenon, <2>1, <2>2, <2>3 DEF Advanced, WorkerOK, ListAt, EarlyAt, ListOK
<1>4. CASE ~(w.id \in cancelled \/ stopping) /\ ~(w.i < Len(w.list)) /\ ~w.own
  <2> DEFINE new == [w EXCEPT !.pc = "checkpoint", !.then = "finish", !.result = "completed"]
  <2>0. "checkpoint" \in WorkerAt
    BY DEF WorkerAt
  <2>1. new \in Worker
    BY Zenon, <2>0 DEF Worker
  <2>2. new.pc = "checkpoint" /\ new.result = "completed" /\ new.then = "finish" /\ new.list = w.list /\ new.id = w.id
          /\ new.own = w.own /\ new.i = w.i /\ new.last = w.last
    BY DEF Worker
  <2>3. EndBatch(w) = new
    BY <1>4 DEF EndBatch
  <2> HIDE DEF new
  <2> QED
    BY Zenon, <1>4, <2>1, <2>2, <2>3 DEF Advanced, WorkerOK, ListAt, EarlyAt, ListOK
<1> QED
  BY <1>1, <1>2, <1>3, <1>4

LEMMA EndFileMoves ==
  ASSUME NEW w \in Worker, ListOK(w)
  PROVE  Advanced(w, EndFile(w))
<1>1. CASE w.i % BatchSize # 0 /\ w.i < Len(w.list)
  BY Zenon, <1>1, NextFile DEF EndFile
<1>2. CASE ~(w.i % BatchSize # 0 /\ w.i < Len(w.list)) /\ ~w.own
  <2> DEFINE new == [w EXCEPT !.pc = "checkpoint", !.then = "batch_end"]
  <2>0. "checkpoint" \in WorkerAt
    BY DEF WorkerAt
  <2>1. new \in Worker
    BY Zenon, <2>0 DEF Worker
  <2>2. new.pc = "checkpoint" /\ new.then = "batch_end" /\ new.list = w.list /\ new.id = w.id
          /\ new.own = w.own /\ new.i = w.i /\ new.last = w.last
    BY DEF Worker
  <2>3. EndFile(w) = new
    BY <1>2 DEF EndFile
  <2> HIDE DEF new
  <2> QED
    BY Zenon, <1>2, <2>1, <2>2, <2>3 DEF Advanced, WorkerOK, ListAt, EarlyAt, ListOK
<1>3. CASE ~(w.i % BatchSize # 0 /\ w.i < Len(w.list)) /\ w.own
  BY <1>3, EndBatchMoves DEF EndFile
<1> QED
  BY <1>1, <1>2, <1>3

-----------------------------------------------------------------------------
(* The queue invariant, action by action.                                  *)

LEMMA RequestTyped ==
  ASSUME QueueTypeOK, NEW c \in Clients, NEW kind \in RequestKinds, Request(c, kind)
  PROVE  requests' \in [RequestKinds -> Nat]
<1>1. requests[kind] \in Nat /\ requests[kind] > 0 /\ requests' = [requests EXCEPT ![kind] = requests[kind] - 1]
  BY DEF QueueTypeOK, Request
<1>2. requests[kind] - 1 \in Nat
  BY <1>1
<1> QED
  BY <1>1, <1>2 DEF QueueTypeOK

\* Steps that leave the buffer and its threads alone, and the worker's place.
LEMMA QuietTypes ==
  ASSUME IndexTypeOK, FlushesOK, UNCHANGED <<content, clock, indexes, dirtyKeys, deletedKeys, pending, disk, flush, cleanup, faults>>,
         job' \in [Threads -> Job \cup {IdleJob}], cachedConfig' \in (SUBSET Fields) \cup {NotCached}, config' \subseteq Fields
  PROVE  IndexTypeOK' /\ FlushesOK'
<1>1. IndexTypeOK'
  BY DEF IndexTypeOK
<1>2. FlushesOK'
  BY Zenon DEF FlushesOK, FlushOK
<1> QED
  BY <1>1, <1>2

LEMMA QuietBuffer ==
  ASSUME IndexTypeOK, FlushesOK, JobsOK, UNCHANGED <<content, clock, indexes, dirtyKeys, deletedKeys, pending, disk, job, flush, cleanup, faults>>,
         cachedConfig' \in (SUBSET Fields) \cup {NotCached}, config' \subseteq Fields, worker' = worker
  PROVE  IndexTypeOK' /\ FlushesOK' /\ JobsOK'
<1>1. IndexTypeOK' /\ FlushesOK'
  BY Zenon, QuietTypes DEF IndexTypeOK
<1>2. JobsOK'
  BY Zenon DEF JobsOK, JobOK, Flushing
<1> QED
  BY <1>1, <1>2

\* A step of client c's request that stores no task record keeps the queue.
LEMMA ClientKeepsQueue ==
  ASSUME QueueTypeOK, QueueOK, NEW c \in Clients, NEW x \in Client, Moves(c, x), ClientOK(x),
         client[c].pc # "register", x.pc # "register", x.pc = "cancel_store" => tasks[x.id] # NoTask,
         UNCHANGED <<registry, tasks, nextId, lock, worker, accepted, indexed>>, blame \subseteq blame'
  PROVE  QueueOK'
<1> USE DEF QueueOK, Moves
<1>1. IdsInOrder'
  <2>1. x.pc = "cancel_store" => x.id < nextId
    BY DEF IdsInOrder, QueueTypeOK, ClientOK, Ids
  <2> QED
    BY Zenon, <2>1 DEF IdsInOrder, OnTask
<1>2. ClientsOK'
  BY Zenon DEF ClientsOK, ClientOK
<1>3. WorkerOK(worker)'
  BY Zenon DEF WorkerOK
<1>4. LockOK'
  BY Zenon DEF LockOK
<1>5. RegistryOK'
  BY Zenon DEF RegistryOK, IsActive, OnTask
<1> QED
  BY Zenon, <1>1, <1>2, <1>3, <1>4, <1>5

\* The requests that only move their client.
LEMMA RequestsKeepQueue ==
  ASSUME QueueInv, NEW c \in Clients, PutConfig(c) \/ CancelTask(c) \/ TriggerTask(c)
  PROVE  QueueInv'
<1> USE DEF QueueInv
<1>1. PICK x \in Client : client' = [client EXCEPT ![c] = x] /\ ClientOK(x) /\ x.pc \in {"idle", "cancel", "enqueue"}
  <2>1. CASE PutConfig(c)
    <3>1. PICK cfg \in Configs \ {config} : client' = [client EXCEPT ![c] = AfterCancel(
            [IdleClient EXCEPT !.config = TRUE, !.task = NewTask("reindex", cfg \subseteq MetaFields)],
            {id \in registry : IsActive(id) /\ tasks[id].type = "reindex"})]
      BY Zenon, <2>1 DEF PutConfig
    <3>2. PICK meta \in BOOLEAN : meta = (cfg \subseteq MetaFields)
      BY Zenon
    <3> DEFINE task == NewTask("reindex", meta)
               first == [IdleClient EXCEPT !.config = TRUE, !.task = task]
               left == {id \in registry : IsActive(id) /\ tasks[id].type = "reindex"}
    <3>3. task \in Task /\ IsNew(task)
      BY NewTyped
    <3>4. client' = [client EXCEPT ![c] = AfterCancel(first, left)]
      BY <3>1, <3>2
    <3> HIDE DEF task
    <3>5. first \in Client /\ first.task = task
      BY Zenon, <3>3, IdleRecords DEF Client
    <3>6. left \in SUBSET Ids
      BY DEF QueueTypeOK
    <3> HIDE DEF first, left
    <3> QED
      BY Zenon, <3>3, <3>4, <3>5, <3>6, AfterCancelMoves
  <2>2. CASE CancelTask(c)
    <3>1. PICK id \in Ids : client' = [client EXCEPT ![c] = [IdleClient EXCEPT !.pc = "cancel", !.cancel = {id}]]
      BY Zenon, <2>2 DEF CancelTask
    <3> DEFINE new == [IdleClient EXCEPT !.pc = "cancel", !.cancel = {id}]
    <3>2. new \in Client /\ new.pc = "cancel" /\ new.config = FALSE
      BY Zenon, IdleRecords DEF Client, IdleClient
    <3>3. client' = [client EXCEPT ![c] = new]
      BY <3>1
    <3> HIDE DEF new
    <3> QED
      BY Zenon, <3>2, <3>3 DEF ClientOK
  <2>3. CASE TriggerTask(c)
    <3>1. PICK kind \in {"reindex", "gc"} :
            client' = [client EXCEPT ![c] = [IdleClient EXCEPT !.pc = "enqueue", !.task = NewTask(kind, FALSE)]]
      BY Zenon, <2>3 DEF TriggerTask
    <3> DEFINE task == NewTask(kind, FALSE)
               new == [IdleClient EXCEPT !.pc = "enqueue", !.task = task]
    <3>2. task \in Task /\ IsNew(task)
      BY Zenon, NewTyped
    <3> HIDE DEF task
    <3>3. new \in Client /\ new.pc = "enqueue" /\ new.task = task
      BY Zenon, <3>2, IdleRecords DEF Client
    <3>4. client' = [client EXCEPT ![c] = new]
      BY <3>1 DEF task
    <3> HIDE DEF new
    <3> QED
      BY Zenon, <3>2, <3>3, <3>4 DEF ClientOK
  <2> QED
    BY <2>1, <2>2, <2>3
<1>2. Moves(c, x)
  BY Zenon, <1>1, ClientMoves
<1>3. PICK kind \in RequestKinds : Request(c, kind)
  BY Zenon DEF PutConfig, CancelTask, TriggerTask, RequestKinds
<1>4. client[c].pc = "idle"
  BY Zenon, <1>3, IdleRecords DEF Request
<1>5. /\ UNCHANGED <<registry, tasks, nextId, cancelled, lock, worker, stopping, accepted, indexed, blame>>
      /\ UNCHANGED <<content, clock, indexes, dirtyKeys, deletedKeys, pending, disk, job, flush, cleanup, faults>>
      /\ config' \subseteq Fields /\ cachedConfig' = cachedConfig
  BY ZenonT(60), TaskQueueAssumption DEF PutConfig, CancelTask, TriggerTask, bufferVars, indexVars, IndexTypeOK
<1>6. IndexTypeOK' /\ FlushesOK' /\ JobsOK'
  BY Zenon, <1>5, QuietBuffer DEF IndexTypeOK
<1>7. QueueTypeOK'
  BY Zenon, <1>2, <1>3, <1>5, RequestTyped DEF QueueTypeOK, Moves
<1>8. QueueOK'
  BY Zenon, <1>1, <1>2, <1>4, <1>5, ClientKeepsQueue
<1> QED
  BY <1>6, <1>7, <1>8

LEMMA CancelReadKeepsQueue ==
  ASSUME QueueInv, NEW c \in Clients, CancelRead(c)
  PROVE  QueueInv'
<1> USE DEF QueueInv
<1>1. client[c] \in Client /\ ClientOK(client[c]) /\ client[c].pc = "cancel"
  BY DEF QueueTypeOK, QueueOK, ClientsOK, CancelRead
<1>2. PICK id \in client[c].cancel :
        /\ cancelled' = cancelled \cup {id}
        /\ client' = [client EXCEPT ![c] =
             IF tasks[id] = NoTask THEN AfterCancel(client[c], client[c].cancel \ {id})
             ELSE [client[c] EXCEPT !.pc = "cancel_store", !.id = id, !.got = tasks[id]]]
  BY Zenon DEF CancelRead, QueueTypeOK
<1>3. id \in Ids /\ client[c].cancel \ {id} \in SUBSET Ids /\ tasks[id] \in Task \cup {NoTask}
  BY Zenon, <1>1, <1>2 DEF Client, QueueTypeOK
<1>4. PICK x \in Client : /\ client' = [client EXCEPT ![c] = x] /\ ClientOK(x) /\ x.pc # "register"
                          /\ x.pc = "cancel_store" => tasks[x.id] # NoTask
  <2>1. CASE tasks[id] = NoTask
    <3> DEFINE left == client[c].cancel \ {id}
    <3>1. client' = [client EXCEPT ![c] = AfterCancel(client[c], left)]
      BY <1>2, <2>1
    <3>2. left \in SUBSET Ids
      BY Zenon, <1>3
    <3> HIDE DEF left
    <3>3. /\ AfterCancel(client[c], left) \in Client /\ ClientOK(AfterCancel(client[c], left))
          /\ AfterCancel(client[c], left).pc \in {"idle", "cancel", "enqueue"}
      BY Zenon, <1>1, <3>2, AfterCancelMoves DEF ClientOK
    <3> QED
      BY Zenon, <3>1, <3>3
  <2>2. CASE tasks[id] # NoTask
    <3> DEFINE new == [client[c] EXCEPT !.pc = "cancel_store", !.id = id, !.got = tasks[id]]
    <3>1. new \in Client /\ new.pc = "cancel_store" /\ new.id = id /\ new.got = tasks[id]
            /\ new.config = client[c].config /\ new.task = client[c].task
      BY Zenon, <1>1, <1>3 DEF Client
    <3>2. client' = [client EXCEPT ![c] = new]
      BY <1>2, <2>2
    <3> HIDE DEF new
    <3>3. ClientOK(new)
      BY Zenon, <1>1, <1>3, <2>2, <3>1 DEF ClientOK
    <3> QED
      BY Zenon, <2>2, <3>1, <3>2, <3>3
  <2> QED
    BY Zenon, <2>1, <2>2
<1>5. Moves(c, x)
  BY Zenon, <1>4, ClientMoves
<1>6. /\ UNCHANGED <<registry, tasks, nextId, lock, worker, stopping, accepted, indexed, blame, requests>>
      /\ UNCHANGED <<content, clock, indexes, dirtyKeys, deletedKeys, pending, disk, job, flush, cleanup, faults>>
      /\ UNCHANGED <<config, cachedConfig>>
  BY DEF CancelRead, indexVars
<1>7. IndexTypeOK' /\ FlushesOK' /\ JobsOK'
  BY Zenon, <1>6, QuietBuffer DEF IndexTypeOK
<1>8. QueueTypeOK'
  BY Zenon, <1>2, <1>3, <1>5, <1>6 DEF QueueTypeOK, Moves
<1>9. QueueOK'
  BY Zenon, <1>1, <1>4, <1>5, <1>6, ClientKeepsQueue
<1> QED
  BY Zenon, <1>7, <1>8, <1>9

\* The record of a task with another status.
LEMMA StatusTyped ==
  ASSUME NEW task \in Task, NEW status \in Active \cup Terminal
  PROVE  /\ [task EXCEPT !.status = status] \in Task /\ [task EXCEPT !.status = status] # NoTask
         /\ [task EXCEPT !.status = status].status = status
         /\ [task EXCEPT !.status = status].checkpoint = task.checkpoint
         /\ [task EXCEPT !.status = status].type = task.type
<1>1. [task EXCEPT !.status = status] \in Task
  BY DEF Task
<1> QED
  BY <1>1, TaskQueueAssumption DEF Task

LEMMA StatusNames ==
  /\ {"pending", "running", "completed", "failed", "cancelled"} = Active \cup Terminal
  /\ Active \cap Terminal = {} /\ "cancelled" \in Terminal /\ {"completed", "failed"} \subseteq Terminal
BY DEF Active, Terminal

\* A stored record: the others stay, and it is a record.
Stored(id, task) ==
  /\ tasks' \in [Ids -> Task \cup {NoTask}] /\ tasks'[id] = task /\ task # NoTask
  /\ \A other \in Ids \ {id} : tasks'[other] = tasks[other]

LEMMA StoredTyped ==
  ASSUME QueueTypeOK, NEW id \in Ids, NEW task \in Task, tasks' = [tasks EXCEPT ![id] = task]
  PROVE  Stored(id, task)
BY Zenon, TaskQueueAssumption DEF QueueTypeOK, Stored

LEMMA CancelStoreKeepsQueue ==
  ASSUME QueueInv, NEW c \in Clients, CancelStore(c)
  PROVE  /\ QueueInv'
         /\ \E task \in Task : /\ Stored(client[c].id, task) /\ task.status = "cancelled"
                               /\ task.checkpoint = client[c].got.checkpoint
<1> USE DEF QueueInv
<1>1. client[c] \in Client /\ ClientOK(client[c]) /\ client[c].pc = "cancel_store"
  BY Zenon DEF QueueTypeOK, QueueOK, ClientsOK, CancelStore
<1>2. client[c].id \in Ids /\ client[c].got \in Task /\ client[c].id < nextId
  BY Zenon, <1>1 DEF ClientOK, Client, QueueOK, IdsInOrder
<1> DEFINE task == [client[c].got EXCEPT !.status = "cancelled"]
           left == client[c].cancel \ {client[c].id}
<1>3. task \in Task /\ task.status = "cancelled" /\ task.checkpoint = client[c].got.checkpoint
  BY Zenon, <1>2, StatusTyped, StatusNames
<1>4. tasks' = [tasks EXCEPT ![client[c].id] = task] /\ client' = [client EXCEPT ![c] = AfterCancel(client[c], left)]
  BY DEF CancelStore, QueueTypeOK
<1>5. left \in SUBSET Ids
  BY Zenon, <1>1 DEF Client
<1> HIDE DEF task, left
<1>6. Stored(client[c].id, task)
  BY Zenon, <1>2, <1>3, <1>4, StoredTyped
<1>7. PICK x \in Client : x = AfterCancel(client[c], left) /\ ClientOK(x) /\ x.pc \in {"idle", "cancel", "enqueue"}
  BY Zenon, <1>1, <1>5, AfterCancelMoves DEF ClientOK
<1>8. Moves(c, x)
  BY Zenon, <1>4, <1>7, ClientMoves
<1>9. /\ UNCHANGED <<registry, nextId, cancelled, lock, worker, stopping, accepted, indexed, blame, requests>>
      /\ UNCHANGED <<content, clock, indexes, dirtyKeys, deletedKeys, pending, disk, job, flush, cleanup, faults>>
      /\ UNCHANGED <<config, cachedConfig>>
  BY Zenon DEF CancelStore, indexVars
<1>10. IndexTypeOK' /\ FlushesOK' /\ JobsOK'
  BY Zenon, <1>9, QuietBuffer DEF IndexTypeOK
<1>11. QueueTypeOK'
  BY Zenon, <1>6, <1>8, <1>9 DEF QueueTypeOK, Moves, Stored
<1>12. QueueOK'
  <2> USE DEF QueueOK, Moves
  <2>1. IdsInOrder'
    <3>1. \A id \in Ids : id >= nextId => id # client[c].id
      BY <1>2 DEF QueueTypeOK, Ids
    <3>2. \A id \in Ids : id >= nextId => tasks'[id] = NoTask
      BY Zenon, <1>6, <3>1 DEF IdsInOrder, Stored
    <3>3. OnTask => /\ worker.id \in Ids /\ tasks'[worker.id] # NoTask
                    /\ worker.pc # "claim" => tasks'[worker.id].status # "pending"
      BY Zenon, <1>3, <1>6 DEF IdsInOrder, Stored
    <3> QED
      BY Zenon, <1>7, <1>8, <1>9, <3>2, <3>3 DEF IdsInOrder, OnTask
  <2>2. ClientsOK'
    BY Zenon, <1>7, <1>8 DEF ClientsOK, ClientOK
  <2>3. WorkerOK(worker)'
    BY Zenon, <1>9 DEF WorkerOK
  <2>4. LockOK'
    BY Zenon, <1>1, <1>7, <1>8, <1>9 DEF LockOK
  <2>5. RegistryOK'
    <3>1. \A id \in Ids : IsActive(id)' => IsActive(id)
      BY Zenon, <1>3, <1>6, StatusNames DEF IsActive, Stored
    <3> QED
      BY Zenon, <1>7, <1>8, <1>9, <3>1 DEF RegistryOK, OnTask, QueueTypeOK
  <2> QED
    BY Zenon, <2>1, <2>2, <2>3, <2>4, <2>5
<1> QED
  BY Zenon, <1>3, <1>6, <1>10, <1>11, <1>12

LEMMA EnqueueStoreKeepsQueue ==
  ASSUME QueueInv, NEW c \in Clients, EnqueueStore(c)
  PROVE  QueueInv' /\ Stored(nextId, client[c].task) /\ tasks[nextId] = NoTask /\ IsNew(client[c].task)
<1> USE DEF QueueInv
<1>1. client[c] \in Client /\ ClientOK(client[c]) /\ client[c].pc = "enqueue" /\ lock = Nobody /\ nextId \in Ids
  BY DEF QueueTypeOK, QueueOK, ClientsOK, EnqueueStore
<1>2. client[c].task \in Task /\ IsNew(client[c].task)
  BY Zenon, <1>1 DEF ClientOK, Client, IsNew
<1>3. Stored(nextId, client[c].task)
  BY Zenon, <1>1, <1>2, StoredTyped DEF EnqueueStore
<1>4. tasks[nextId] = NoTask
  BY <1>1 DEF QueueOK, IdsInOrder, Ids
<1> DEFINE x == [client[c] EXCEPT !.pc = "register", !.id = nextId, !.registry = registry]
<1>5. x \in Client /\ x.pc = "register" /\ x.id = nextId /\ x.registry = registry /\ x.config = client[c].config
        /\ x.task = client[c].task
  BY Zenon, <1>1 DEF Client, QueueTypeOK
<1>6. client' = [client EXCEPT ![c] = x]
  BY DEF EnqueueStore, QueueTypeOK
<1> HIDE DEF x
<1>7. Moves(c, x)
  BY Zenon, <1>5, <1>6, ClientMoves
<1>8. /\ UNCHANGED <<registry, cancelled, worker, stopping, accepted, indexed, blame, requests>>
      /\ UNCHANGED <<content, clock, indexes, dirtyKeys, deletedKeys, pending, disk, job, flush, cleanup, faults>>
      /\ UNCHANGED <<config, cachedConfig>> /\ nextId' = nextId + 1 /\ lock' = c
  BY DEF EnqueueStore, indexVars
<1>9. IndexTypeOK' /\ FlushesOK' /\ JobsOK'
  BY Zenon, <1>8, QuietBuffer DEF IndexTypeOK
<1>10. nextId' \in 1..(MaxTasks + 1) /\ nextId \in Nat
  BY <1>1, <1>8, TaskQueueAssumption DEF Ids
<1>11. QueueTypeOK'
  BY Zenon, <1>3, <1>7, <1>8, <1>10 DEF QueueTypeOK, Moves, Stored
<1>12. QueueOK'
  <2> USE DEF QueueOK, Moves
  <2>1. IdsInOrder'
    <3>1. \A id \in Ids : id >= nextId' => id >= nextId /\ id # nextId
      BY <1>8, <1>10 DEF Ids
    <3>2. \A id \in Ids : id < nextId => id < nextId'
      BY <1>8, <1>10 DEF Ids
    <3>3. \A id \in accepted : id < nextId' 
      BY Zenon, <3>2 DEF IdsInOrder, QueueTypeOK
    <3>4. \A e \in indexed : e.task < nextId'
      BY Zenon, <3>2 DEF IdsInOrder, QueueTypeOK, Update
    <3>5. \A d \in Clients : client'[d].pc \in {"cancel_store", "register"} => client'[d].id < nextId'
      BY <1>5, <1>7, <1>8, <1>10, <3>2 DEF IdsInOrder, ClientsOK, ClientOK
    <3>6. \A id \in Ids : id >= nextId' => tasks'[id] = NoTask
      BY Zenon, <1>3, <3>1 DEF IdsInOrder, Stored
    <3>7. OnTask' => /\ worker.id \in Ids /\ tasks'[worker.id] # NoTask
                     /\ worker.pc # "claim" => tasks'[worker.id].status # "pending"
      BY Zenon, <1>3, <1>4, <1>8 DEF IdsInOrder, Stored, OnTask
    <3> QED
      BY Zenon, <1>8, <3>3, <3>4, <3>5, <3>6, <3>7 DEF IdsInOrder
  <2>2. ClientsOK'
    BY Zenon, <1>1, <1>5, <1>7 DEF ClientsOK, ClientOK
  <2>3. WorkerOK(worker)'
    BY Zenon, <1>8 DEF WorkerOK
  <2>4. LockOK'
    BY Zenon, <1>1, <1>5, <1>7, <1>8, TaskQueueAssumption, IndexBufferAssumption DEF LockOK
  <2>5. RegistryOK'
    <3>1. \A id \in accepted : IsActive(id)' => IsActive(id)
      BY <1>3, <1>10 DEF IsActive, Stored, IdsInOrder, QueueTypeOK
    <3> QED
      BY Zenon, <1>5, <1>7, <1>8, <3>1 DEF RegistryOK, OnTask
  <2> QED
    BY Zenon, <2>1, <2>2, <2>3, <2>4, <2>5
<1> QED
  BY Zenon, <1>2, <1>3, <1>4, <1>9, <1>11, <1>12

LEMMA EnqueueRegisterKeepsQueue ==
  ASSUME QueueInv, NEW c \in Clients, EnqueueRegister(c)
  PROVE  QueueInv'
<1> USE DEF QueueInv
<1>1. client[c] \in Client /\ ClientOK(client[c]) /\ client[c].pc = "register" /\ lock = c
  BY Zenon DEF QueueTypeOK, QueueOK, ClientsOK, EnqueueRegister, LockOK
<1>2. client[c].id \in Ids /\ client[c].registry \in SUBSET Ids
  BY Zenon, <1>1 DEF ClientOK, Client
<1>3. PICK x \in Client : /\ client' = [client EXCEPT ![c] = x] /\ x.pc \in {"evict", "idle"} /\ x.config = FALSE
  <2> DEFINE evict == [IdleClient EXCEPT !.pc = "evict"]
  <2>1. evict \in Client /\ evict.pc = "evict" /\ evict.config = FALSE
    BY Zenon, IdleRecords DEF Client, IdleClient
  <2>2. client' = [client EXCEPT ![c] = IF client[c].config THEN evict ELSE IdleClient]
    BY DEF EnqueueRegister, QueueTypeOK
  <2>3. IdleClient \in Client /\ IdleClient.pc = "idle" /\ IdleClient.config = FALSE
    BY Zenon, IdleRecords DEF IdleClient
  <2> HIDE DEF evict
  <2> QED
    BY Zenon, <2>1, <2>2, <2>3
<1>4. Moves(c, x)
  BY Zenon, <1>3, ClientMoves
<1>5. /\ UNCHANGED <<tasks, nextId, cancelled, worker, stopping, indexed, blame, requests>>
      /\ UNCHANGED <<content, clock, indexes, dirtyKeys, deletedKeys, pending, disk, job, flush, cleanup, faults>>
      /\ UNCHANGED <<config, cachedConfig>> /\ lock' = Nobody
      /\ registry' = client[c].registry \cup {client[c].id} /\ accepted' = accepted \cup {client[c].id}
  BY DEF EnqueueRegister, indexVars
<1>6. IndexTypeOK' /\ FlushesOK' /\ JobsOK'
  BY Zenon, <1>5, QuietBuffer DEF IndexTypeOK
<1>7. QueueTypeOK'
  BY Zenon, <1>2, <1>4, <1>5 DEF QueueTypeOK, Moves
<1>8. QueueOK'
  <2> USE DEF QueueOK, Moves
  <2>1. IdsInOrder'
    BY Zenon, <1>1, <1>3, <1>4, <1>5 DEF IdsInOrder, OnTask
  <2>2. ClientsOK'
    BY Zenon, <1>3, <1>4 DEF ClientsOK, ClientOK
  <2>3. WorkerOK(worker)'
    BY Zenon, <1>5 DEF WorkerOK
  <2>4. LockOK'
    BY Zenon, <1>1, <1>3, <1>4, <1>5, TaskQueueAssumption, IndexBufferAssumption DEF LockOK
  <2>5. RegistryOK'
    <3>1. \A d \in Clients : client'[d].pc # "register"
      BY Zenon, <1>1, <1>3, <1>4 DEF LockOK
    <3>2. \A id \in Ids : IsActive(id)' <=> IsActive(id)
      BY Zenon, <1>5 DEF IsActive
    <3> QED
      BY Zenon, <1>1, <1>5, <3>1, <3>2 DEF RegistryOK, OnTask, QueueTypeOK
  <2> QED
    BY Zenon, <2>1, <2>2, <2>3, <2>4, <2>5
<1> QED
  BY Zenon, <1>6, <1>7, <1>8

LEMMA EvictKeepsQueue ==
  ASSUME QueueInv, NEW c \in Clients, EvictCaches(c)
  PROVE  QueueInv'
<1> USE DEF QueueInv
<1>1. Moves(c, IdleClient) /\ client[c].pc = "evict"
  BY Zenon, IdleRecords, ClientMoves DEF EvictCaches
<1>2. /\ UNCHANGED <<registry, tasks, nextId, cancelled, lock, worker, stopping, accepted, indexed, blame, requests>>
      /\ UNCHANGED <<content, clock, indexes, dirtyKeys, deletedKeys, pending, disk, job, flush, cleanup, faults>>
      /\ UNCHANGED config /\ cachedConfig' = NotCached
  BY Zenon DEF EvictCaches, bufferVars
<1>3. IndexTypeOK' /\ FlushesOK' /\ JobsOK'
  BY Zenon, <1>2, QuietBuffer DEF IndexTypeOK
<1>4. QueueTypeOK'
  BY Zenon, <1>1, <1>2 DEF QueueTypeOK, Moves
<1>5. QueueOK'
  BY Zenon, <1>1, <1>2, IdleRecords, ClientKeepsQueue
<1> QED
  BY Zenon, <1>3, <1>4, <1>5

\* Steps of the buffer and its feeders leave the queue alone.
LEMMA QuietQueue ==
  ASSUME QueueTypeOK, QueueOK, UNCHANGED <<registry, tasks, nextId, cancelled, lock, worker, client, accepted, indexed>>,
         stopping' \in BOOLEAN, requests' \in [RequestKinds -> Nat], blame \subseteq blame'
  PROVE  QueueTypeOK' /\ QueueOK'
<1>1. QueueTypeOK'
  BY Zenon DEF QueueTypeOK
<1>2. IdsInOrder' /\ ClientsOK' /\ WorkerOK(worker)' /\ LockOK'
  BY ZenonT(30) DEF QueueOK, IdsInOrder, OnTask, ClientsOK, ClientOK, WorkerOK, LockOK
<1>3. RegistryOK'
  BY Zenon DEF QueueOK, RegistryOK, OnTask, IsActive
<1> QED
  BY Zenon, <1>1, <1>2, <1>3 DEF QueueOK

LEMMA FilesKeepQueue ==
  ASSUME QueueInv, NEW c \in Clients, StoreFile(c) \/ DeleteFile(c)
  PROVE  QueueInv'
<1> USE DEF QueueInv
<1>1. PICK kind \in RequestKinds : Request(c, kind)
  BY Zenon DEF StoreFile, DeleteFile, RequestKinds
<1>2. QueueTypeOK' /\ QueueOK'
  <2>1. blame \subseteq blame'
    BY Zenon DEF StoreFile, DeleteFile, store_file, delete_file
  <2> QED
    BY Zenon, <1>1, <2>1, RequestTyped, QuietQueue DEF StoreFile, DeleteFile, QueueTypeOK
<1>3. c \in Threads /\ c # "worker" /\ c # "timer" /\ clock \in Nat /\ 0 \in Versions
  BY IndexBufferAssumption DEF Threads, IndexTypeOK, Versions
<1>4. CASE StoreFile(c)
  <2>1. PICK f \in Files : store_file(c, f)
    BY Zenon, <1>4 DEF StoreFile
  <2>2. clock' = clock + 1 /\ clock + 1 \in Versions /\ content' \in [Files -> Versions]
    BY <1>3, <2>1, IndexBufferAssumption DEF store_file, IndexTypeOK, Versions
  <2>3. /\ job' \in [Threads -> Job \cup {IdleJob}] /\ (\A u \in Threads \ {c} : job'[u] = job[u])
        /\ job'[c] = IdleJob \/ job'[c].field = NoField
    BY Zenon, <1>3, <2>1, StartTyped, IndexBufferAssumption DEF store_file
  <2>4. IndexTypeOK'
    BY Zenon, <2>1, <2>2, <2>3, ConfigTyped DEF IndexTypeOK, store_file, bufferVars
  <2>5. FlushesOK' /\ UNCHANGED flush
    BY Zenon, <2>1 DEF FlushesOK, FlushOK, store_file
  <2>6. JobsOK'
    BY <1>3, <1>4, <2>3, <2>5 DEF JobsOK, JobOK, Flushing, Threads, IdleJob, StoreFile
  <2> QED
    BY Zenon, <1>2, <2>4, <2>5, <2>6
<1>5. CASE DeleteFile(c)
  <2>1. PICK f \in Files : delete_file(c, f)
    BY Zenon, <1>5 DEF DeleteFile
  <2>2. content' \in [Files -> Versions]
    BY Zenon, <1>3, <2>1 DEF delete_file, IndexTypeOK
  <2>3. IndexTypeOK' /\ UNCHANGED <<flush, job>>
    BY Zenon, <2>1, <2>2 DEF IndexTypeOK, delete_file, bufferVars
  <2>4. FlushesOK' /\ JobsOK'
    BY Zenon, <1>5, <2>3 DEF FlushesOK, FlushOK, JobsOK, JobOK, Flushing, DeleteFile
  <2> QED
    BY <1>2, <2>3, <2>4
<1> QED
  BY Zenon, <1>4, <1>5

\* The jobs after the thread t has moved, not to a new field.
LEMMA JobsKept ==
  ASSUME JobsOK, NEW t \in Threads, \A u \in Threads \ {t} : job'[u] = job[u] /\ flush'[u] = flush[u], worker' = worker,
         job'[t] = job[t] \/ JobGoesOn(t) \/ t \notin {"worker", "timer"}, JobOK(t)'
  PROVE  JobsOK'
<1>1. \A u \in Threads : JobOK(u)'
  BY Zenon DEF JobsOK, JobOK, Flushing
<1>2. JobGoesOn(t) => job[t] # IdleJob
  BY DEF JobGoesOn, Job, IdleJob
<1>3. job'["timer"] = IdleJob
  BY Zenon, <1>2 DEF JobsOK, Threads
<1>4. job'["worker"] # IdleJob => worker.pc = "indexing" /\ job'["worker"].file = worker.last
  <2>1. CASE t = "worker"
    BY Zenon, <1>2, <2>1 DEF JobsOK, JobGoesOn
  <2>2. CASE t # "worker"
    BY Zenon, <2>2 DEF JobsOK, Threads
  <2> QED
    BY Zenon, <2>1, <2>2
<1> QED
  BY Zenon, <1>1, <1>3, <1>4 DEF JobsOK

LEMMA BufferKeepsQueue ==
  ASSUME QueueInv, NEW t \in Threads, BufferStep(t)
  PROVE  QueueInv'
<1> USE DEF QueueInv
<1>1. JobOK(t) /\ (t = "timer" => job[t] = IdleJob)
  BY Zenon DEF JobsOK
<1>2. IndexTypeOK' /\ FlushesOK'
  BY Zenon, TypedThread, TypedUpdate DEF BufferStep
<1>3. ThreadStep(t) \/ update_index(t)
  BY Zenon DEF BufferStep
<1>4. /\ \A u \in Threads \ {t} : job'[u] = job[u] /\ flush'[u] = flush[u]
      /\ job'[t] = job[t] \/ JobGoesOn(t)
      /\ JobOK(t)' /\ blame \subseteq blame'
  BY Zenon, <1>1, <1>3, StepJobs
<1>5. UNCHANGED <<registry, tasks, nextId, cancelled, lock, worker, client, stopping, requests, accepted, indexed>>
  BY Zenon DEF BufferStep, taskVars
<1>6. QueueTypeOK' /\ QueueOK'
  BY Zenon, <1>4, <1>5, QuietQueue DEF QueueTypeOK
<1>7. JobsOK'
  BY Zenon, <1>4, <1>5, JobsKept
<1> QED
  BY <1>2, <1>6, <1>7

LEMMA CleanerKeepsQueue ==
  ASSUME QueueInv, Cleaner
  PROVE  /\ QueueInv'
         /\ \E f \in cleanup : /\ cleanup' = cleanup \ {f}
                               /\ job'["cleaner"] = IdleJob \/ (/\ job'["cleaner"].op = "remove" /\ job'["cleaner"].file = f
                                                                /\ job'["cleaner"].field = NoField)
         /\ \A u \in Threads \ {"cleaner"} : job'[u] = job[u]
<1> USE DEF QueueInv
<1>1. PICK f \in cleanup :
        /\ cleanup' = cleanup \ {f}
        /\ job' = [job EXCEPT !["cleaner"] =
                     IF list_indexes = {} THEN IdleJob
                     ELSE [IdleJob EXCEPT !.op = "remove", !.file = f, !.todo = list_indexes]]
  BY Zenon DEF Cleaner, process_batch
<1> DEFINE new == [IdleJob EXCEPT !.op = "remove", !.file = f, !.todo = list_indexes]
<1>2. new \in Job /\ new.op = "remove" /\ new.file = f /\ new.field = NoField
  <2>1. f \in Files /\ list_indexes \in SUBSET Fields /\ 0 \in Versions
    BY IndexBufferAssumption DEF IndexTypeOK, list_indexes, Versions
  <2> QED
    BY Zenon, <2>1 DEF Job, IdleJob
<1>3. job' = [job EXCEPT !["cleaner"] = IF list_indexes = {} THEN IdleJob ELSE new]
  BY <1>1
<1> HIDE DEF new
<1>4. "cleaner" \in Threads /\ (job'["cleaner"] = IdleJob \/ job'["cleaner"] = new)
  BY Zenon, <1>3 DEF IndexTypeOK, Threads
<1>5. job' \in [Threads -> Job \cup {IdleJob}] /\ \A u \in Threads \ {"cleaner"} : job'[u] = job[u]
  BY Zenon, <1>2, <1>3 DEF IndexTypeOK
<1>6. /\ UNCHANGED <<registry, tasks, nextId, cancelled, lock, worker, client, stopping, requests, accepted, indexed>>
      /\ UNCHANGED <<content, clock, config, cachedConfig, indexes, dirtyKeys, deletedKeys, pending, disk, flush, faults, blame>>
  BY DEF Cleaner, process_batch, taskVars, bufferVars
<1>7. cleanup' \subseteq Files
  BY <1>1 DEF IndexTypeOK
<1>8. IndexTypeOK' /\ FlushesOK'
  BY Zenon, <1>5, <1>6, <1>7 DEF IndexTypeOK, FlushesOK, FlushOK
<1>9. QueueTypeOK' /\ QueueOK'
  BY Zenon, <1>6, QuietQueue DEF QueueTypeOK
<1>10. JobOK("cleaner")'
  BY <1>2, <1>4 DEF JobOK, IdleJob
<1>11. JobsOK'
  BY Zenon, <1>4, <1>5, <1>6, <1>10, JobsKept
<1> QED
  BY Zenon, <1>1, <1>2, <1>4, <1>5, <1>8, <1>9, <1>11

-----------------------------------------------------------------------------
(* The worker.                                                             *)

OffTask == {"idle", "prune", "prune_save"}

\* A step of the worker that stores no record.
LEMMA WorkerKeepsQueue ==
  ASSUME QueueTypeOK, QueueOK, NEW w \in Worker, worker' = w, WorkerOK(w), worker.pc # "claim", w.pc # "claim",
         w.pc \notin OffTask => OnTask /\ w.id = worker.id,
         UNCHANGED <<registry, tasks, nextId, cancelled, lock, client, stopping, requests, accepted>>,
         indexed' \subseteq Update, \A e \in indexed' : e \in indexed \/ (OnTask /\ e.task = worker.id),
         blame \subseteq blame'
  PROVE  QueueTypeOK' /\ QueueOK'
<1> USE DEF QueueOK, OffTask
<1>1. QueueTypeOK'
  BY Zenon DEF QueueTypeOK
<1>2. IdsInOrder'
  <2>1. OnTask => worker.id < nextId
    BY DEF IdsInOrder, QueueTypeOK, Ids
  <2>2. \A e \in indexed' : e.task < nextId'
    BY Zenon, <2>1 DEF IdsInOrder
  <2> QED
    BY Zenon, <2>2 DEF IdsInOrder, OnTask
<1>3. ClientsOK'
  BY Zenon DEF ClientsOK, ClientOK
<1>4. WorkerOK(worker)'
  BY Zenon DEF WorkerOK
<1>5. LockOK'
  BY Zenon DEF LockOK
<1>6. RegistryOK'
  BY Zenon DEF RegistryOK, IsActive, OnTask
<1> QED
  BY Zenon, <1>1, <1>2, <1>3, <1>4, <1>5, <1>6

\* A step of the worker on a task that stores the task's record.
LEMMA StoringKeepsQueue ==
  ASSUME QueueTypeOK, QueueOK, OnTask, NEW task \in Task, Stored(worker.id, task), NEW w \in Worker, worker' = w,
         WorkerOK(w), w.pc # "claim", w.pc \notin OffTask => w.id = worker.id /\ task.status # "pending",
         lock' = (IF worker.pc = "claim" THEN Nobody ELSE lock),
         UNCHANGED <<registry, nextId, cancelled, client, stopping, requests, accepted, indexed>>, blame \subseteq blame'
  PROVE  QueueTypeOK' /\ QueueOK'
<1> USE DEF QueueOK, OffTask
<1>1. QueueTypeOK'
  BY Zenon DEF QueueTypeOK, Stored
<1>2. IdsInOrder'
  <2>1. worker.id \in Ids /\ worker.id < nextId
    BY DEF IdsInOrder, QueueTypeOK, Ids
  <2>2. \A id \in Ids : id >= nextId => id # worker.id
    BY <2>1 DEF QueueTypeOK, Ids
  <2>3. \A id \in Ids : id >= nextId => tasks'[id] = NoTask
    BY Zenon, <2>2 DEF IdsInOrder, Stored
  <2> QED
    BY Zenon, <2>1, <2>3 DEF IdsInOrder, OnTask, Stored
<1>3. ClientsOK'
  BY Zenon DEF ClientsOK, ClientOK
<1>4. WorkerOK(worker)'
  BY Zenon DEF WorkerOK
<1>5. LockOK'
  BY Zenon, TaskQueueAssumption, IndexBufferAssumption DEF LockOK
<1>6. RegistryOK'
  <2>1. \A id \in Ids : IsActive(id)' => IsActive(id) \/ id = worker.id
    BY Zenon DEF IsActive, Stored
  <2> QED
    BY Zenon, <2>1 DEF RegistryOK, OnTask, QueueTypeOK
<1> QED
  BY Zenon, <1>1, <1>2, <1>3, <1>4, <1>5, <1>6

\* The worker between two jobs.
LEMMA WorkerIdleJob ==
  ASSUME JobsOK, job["worker"] = IdleJob, job' = job, \A u \in Threads \ {"worker"} : flush'[u] = flush[u]
  PROVE  JobsOK'
BY DEF JobsOK, JobOK, Flushing, IdleJob

\* A step that changes only the worker's record.
LEMMA WorkerOnly ==
  ASSUME QueueInv, NEW w \in Worker, worker' = w, WorkerOK(w), worker.pc # "claim", w.pc # "claim",
         w.pc \notin OffTask => OnTask /\ w.id = worker.id, job["worker"] = IdleJob, UNCHANGED indexVars,
         UNCHANGED <<registry, tasks, nextId, cancelled, lock, client, stopping, requests, accepted, indexed>>
  PROVE  QueueInv'
<1> USE DEF QueueInv, indexVars
<1>1. IndexTypeOK' /\ FlushesOK'
  BY Zenon, QuietTypes DEF IndexTypeOK
<1>2. JobsOK'
  BY Zenon, WorkerIdleJob
<1>3. QueueTypeOK' /\ QueueOK'
  BY Zenon, WorkerKeepsQueue DEF QueueTypeOK
<1> QED
  BY Zenon, <1>1, <1>2, <1>3

LEMMA DequeueKeepsQueue ==
  ASSUME QueueInv, Dequeue
  PROVE  /\ QueueInv'
         /\ worker'.pc = "claim" /\ worker'.id \in Ids /\ worker'.own = FALSE /\ tasks[worker'.id] # NoTask
         /\ tasks[worker'.id].status = "pending" /\ worker'.from = tasks[worker'.id].checkpoint
<1> USE DEF QueueInv
<1>1. PICK id \in list_tasks : /\ tasks[id].status = "pending"
                               /\ worker' = [IdleWorker EXCEPT !.pc = "claim", !.id = id, !.from = tasks[id].checkpoint]
  BY Zenon DEF Dequeue
<1>2. id \in Ids /\ id \in registry /\ tasks[id] \in Task /\ tasks[id] # NoTask
  BY <1>1 DEF list_tasks, QueueTypeOK
<1>3. PICK from \in {0} \cup Files : from = tasks[id].checkpoint
  BY Zenon, <1>2 DEF Task
<1> DEFINE w == [IdleWorker EXCEPT !.pc = "claim", !.id = id, !.from = from]
<1>4. worker' = w
  BY <1>1, <1>3
<1>5. "claim" \in WorkerAt
  BY DEF WorkerAt
<1>6. w \in Worker
  BY Zenon, <1>2, <1>5, IdleRecords DEF Worker
<1>7. w.pc = "claim" /\ w.id = id /\ w.from = from /\ w.own = FALSE /\ w.then = "idle" /\ w.i = 1
  BY DEF IdleWorker
<1> HIDE DEF w
<1>8. WorkerOK(w)
  BY Zenon, <1>7 DEF WorkerOK, ListAt
<1>9. worker.pc = "idle" /\ lock = Nobody /\ lock' = "worker" /\ UNCHANGED indexVars
        /\ UNCHANGED <<registry, tasks, cancelled, client, stopping, nextId, requests, accepted, indexed>>
  BY DEF Dequeue, At
<1>10. IndexTypeOK' /\ FlushesOK'
  BY Zenon, <1>9, QuietTypes DEF IndexTypeOK, indexVars
<1>11. JobsOK'
  BY Zenon, <1>9, WorkerIdleJob DEF JobsOK, indexVars
<1>12. QueueTypeOK'
  BY Zenon, <1>4, <1>6, <1>9 DEF QueueTypeOK
<1>13. QueueOK'
  <2> USE DEF QueueOK
  <2>1. IdsInOrder'
    BY Zenon, <1>2, <1>4, <1>7, <1>9 DEF IdsInOrder, OnTask
  <2>2. ClientsOK'
    BY Zenon, <1>9 DEF ClientsOK, ClientOK
  <2>3. WorkerOK(worker)'
    BY Zenon, <1>4, <1>8 DEF WorkerOK
  <2>4. LockOK'
    BY Zenon, <1>4, <1>7, <1>9, TaskQueueAssumption, IndexBufferAssumption DEF LockOK
  <2>5. RegistryOK'
    BY Zenon, <1>2, <1>4, <1>7, <1>9 DEF RegistryOK, IsActive, OnTask, indexVars
  <2> QED
    BY Zenon, <2>1, <2>2, <2>3, <2>4, <2>5
<1> QED
  BY ZenonT(30), <1>1, <1>2, <1>3, <1>4, <1>7, <1>10, <1>11, <1>12, <1>13

\* The steps that write a status: the claim and the end of a task.
LEMMA ClaimKeepsQueue ==
  ASSUME QueueInv, Claim
  PROVE  /\ QueueInv' /\ OnTask
         /\ \E task \in Task : /\ Stored(worker.id, task) /\ task.status = "running"
                               /\ task.checkpoint = tasks[worker.id].checkpoint
         /\ worker'.pc = "execute" /\ worker'.id = worker.id /\ worker'.from = worker.from /\ worker'.own = worker.own
<1> USE DEF QueueInv
<1>1. worker.pc = "claim" /\ OnTask /\ worker.id \in Ids /\ tasks[worker.id] \in Task /\ worker \in Worker
  BY Zenon DEF Claim, At, OnTask, QueueOK, IdsInOrder, QueueTypeOK
<1> DEFINE task == [tasks[worker.id] EXCEPT !.status = "running"]
           w == [worker EXCEPT !.pc = "execute"]
<1>2. task \in Task /\ task.status = "running" /\ task.checkpoint = tasks[worker.id].checkpoint
  BY <1>1, StatusTyped, StatusNames
<1>3. tasks' = [tasks EXCEPT ![worker.id] = task] /\ worker' = w
  BY Zenon DEF Claim, Goto, QueueTypeOK
<1>4. "execute" \in WorkerAt
  BY DEF WorkerAt
<1>5. w \in Worker
  BY Zenon, <1>1, <1>4 DEF Worker
<1>6. /\ w.pc = "execute" /\ w.id = worker.id /\ w.from = worker.from /\ w.own = worker.own /\ w.i = worker.i
      /\ w.then = worker.then /\ w.result = worker.result
  BY <1>1 DEF Worker
<1> HIDE DEF task, w
<1>7. WorkerOK(w)
  BY Zenon, <1>1, <1>6 DEF QueueOK, WorkerOK, EarlyAt, ListAt
<1>8. Stored(worker.id, task)
  BY Zenon, <1>1, <1>2, <1>3, StoredTyped
<1>9. /\ UNCHANGED <<content, clock, config, cachedConfig, indexes, dirtyKeys, deletedKeys, pending, disk, job, flush, cleanup, faults>>
      /\ UNCHANGED <<registry, cancelled, client, stopping, nextId, requests, accepted, indexed>>
      /\ lock' = Nobody /\ blame \subseteq blame'
  BY DEF Claim, bufferVars
<1>10. IndexTypeOK' /\ FlushesOK'
  BY Zenon, <1>9, QuietTypes DEF IndexTypeOK
<1>11. JobsOK'
  BY Zenon, <1>1, <1>9, WorkerIdleJob DEF JobsOK
<1>12. QueueTypeOK' /\ QueueOK'
  BY Zenon, <1>1, <1>2, <1>3, <1>5, <1>6, <1>7, <1>8, <1>9, StoringKeepsQueue
<1> QED
  BY Zenon, <1>1, <1>2, <1>3, <1>6, <1>8, <1>10, <1>11, <1>12

LEMMA FinishKeepsQueue ==
  ASSUME QueueInv, Finish
  PROVE  /\ QueueInv' /\ OnTask
         /\ \E task \in Task : /\ Stored(worker.id, task) /\ task.status \in {"completed", "failed"}
                               /\ task.checkpoint = tasks[worker.id].checkpoint
         /\ worker'.pc = "prune"
<1> USE DEF QueueInv
<1>1. worker.pc = "finish" /\ OnTask /\ worker.id \in Ids /\ tasks[worker.id] \in Task /\ worker \in Worker
        /\ worker.result \in {"completed", "failed"}
  BY Zenon DEF Finish, At, OnTask, QueueOK, IdsInOrder, QueueTypeOK, WorkerOK, Worker
<1> DEFINE task == [tasks[worker.id] EXCEPT !.status = worker.result]
           w == [IdleWorker EXCEPT !.pc = "prune", !.id = worker.id]
<1>2. task \in Task /\ task.status = worker.result /\ task.checkpoint = tasks[worker.id].checkpoint
  BY <1>1, StatusTyped, StatusNames
<1>3. tasks' = [tasks EXCEPT ![worker.id] = task] /\ worker' = w
  BY Zenon DEF Finish, QueueTypeOK
<1>4. "prune" \in WorkerAt
  BY DEF WorkerAt
<1>5. w \in Worker
  BY Zenon, <1>1, <1>4, IdleRecords DEF Worker
<1>6. w.pc = "prune" /\ w.id = worker.id /\ w.then = "idle"
  BY DEF IdleWorker
<1> HIDE DEF task, w
<1>7. WorkerOK(w)
  BY Zenon, <1>6 DEF WorkerOK, EarlyAt, ListAt
<1>8. Stored(worker.id, task)
  BY Zenon, <1>1, <1>2, <1>3, StoredTyped
<1>9. /\ UNCHANGED <<content, clock, config, cachedConfig, indexes, dirtyKeys, deletedKeys, pending, disk, job, flush, cleanup, faults>>
      /\ UNCHANGED <<registry, cancelled, client, stopping, nextId, requests, accepted, indexed, lock>>
      /\ blame \subseteq blame'
  BY Zenon DEF Finish, bufferVars
<1>10. IndexTypeOK' /\ FlushesOK'
  BY Zenon, <1>9, QuietTypes DEF IndexTypeOK
<1>11. JobsOK'
  BY Zenon, <1>1, <1>9, WorkerIdleJob DEF JobsOK
<1>12. QueueTypeOK' /\ QueueOK'
  BY Zenon, <1>1, <1>2, <1>3, <1>5, <1>6, <1>7, <1>8, <1>9, StoringKeepsQueue DEF OffTask
<1> QED
  BY Zenon, <1>1, <1>2, <1>3, <1>6, <1>8, <1>10, <1>11, <1>12

\* The task ends: its outcome is known.
LEMMA ToFinish ==
  ASSUME QueueInv, OnTask, NEW result \in {"completed", "failed"}
  PROVE  LET w == [worker EXCEPT !.pc = "finish", !.result = result]
         IN  w \in Worker /\ WorkerOK(w) /\ w.pc = "finish" /\ w.id = worker.id /\ w.own = worker.own
<1> DEFINE w == [worker EXCEPT !.pc = "finish", !.result = result]
<1>1. "finish" \in WorkerAt /\ worker \in Worker
  BY Zenon DEF WorkerAt, QueueInv, QueueTypeOK
<1>2. w \in Worker
  BY Zenon, <1>1 DEF Worker
<1>3. w.pc = "finish" /\ w.id = worker.id /\ w.own = worker.own /\ w.result = result
  BY <1>1 DEF Worker
<1> HIDE DEF w
<1>4. WorkerOK(w)
  BY Zenon, <1>3 DEF WorkerOK, EarlyAt, ListAt
<1>5. w \in Worker /\ WorkerOK(w) /\ w.pc = "finish" /\ w.id = worker.id /\ w.own = worker.own
  BY Zenon, <1>2, <1>3, <1>4
<1> QED
  BY <1>5 DEF w

LEMMA ExecuteOtherKeepsQueue ==
  ASSUME QueueInv, ExecuteOther
  PROVE  QueueInv' /\ OnTask /\ worker'.pc = "finish" /\ worker'.id = worker.id /\ worker'.own = worker.own
<1>1. worker.pc = "execute" /\ OnTask /\ job["worker"] = IdleJob
  BY DEF ExecuteOther, At, OnTask, QueueInv, JobsOK
<1>2. PICK result \in {"completed", "failed"} : worker' = [worker EXCEPT !.pc = "finish", !.result = result]
  BY Zenon DEF ExecuteOther
<1>3. worker' \in Worker /\ WorkerOK(worker') /\ worker'.pc = "finish" /\ worker'.id = worker.id /\ worker'.own = worker.own
  BY Zenon, <1>1, <1>2, ToFinish
<1>4. UNCHANGED indexVars /\ UNCHANGED <<registry, tasks, nextId, cancelled, lock, client, stopping, requests, accepted, indexed>>
  BY DEF ExecuteOther
<1> QED
  BY Zenon, <1>1, <1>3, <1>4, WorkerOnly

LEMMA Listed ==
  ASSUME NEW files \in SUBSET Files, NEW list \in InOrder(files)
  PROVE  /\ list \in Seq(Files) /\ Len(list) \in Nat
         /\ \A m \in 1..Len(list) : list[m] \in files
         /\ \A m, n \in 1..Len(list) : m < n => list[m] < list[n]
<1>1. PICK n \in 0..Cardinality(files) : list \in [1..n -> files]
  BY Zenon DEF InOrder
<1>2. n \in Nat
  BY <1>1
<1>3. list \in [1..n -> Files]
  BY Zenon, <1>1
<1>4. list \in Seq(Files) /\ Len(list) = n
  BY <1>2, <1>3
<1>5. \A m, k \in DOMAIN list : m < k => list[m] < list[k]
  BY Zenon DEF InOrder
<1> QED
  BY Zenon, <1>1, <1>2, <1>4, <1>5

LEMMA ListFilesKeepsQueue ==
  ASSUME QueueInv, ListFiles
  PROVE  /\ QueueInv' /\ OnTask /\ worker'.id = worker.id /\ worker'.own = worker.own
         /\ \/ worker'.pc = "finish"
            \/ worker'.pc = "file" /\ worker'.list[worker'.i] > worker.from
<1>1. worker.pc = "list" /\ OnTask /\ job["worker"] = IdleJob /\ worker \in Worker /\ worker.i = 1
  BY Zenon DEF ListFiles, At, OnTask, QueueInv, JobsOK, QueueTypeOK, QueueOK, WorkerOK, EarlyAt
<1> DEFINE files == {f \in Files : content[f] # 0 /\ f > worker.from}
<1>2. PICK list \in InOrder(files) :
        worker' = IF Len(list) = 0 THEN [worker EXCEPT !.pc = "finish", !.result = "completed"]
                  ELSE [worker EXCEPT !.pc = "file", !.from = 0, !.list = list]
  BY Zenon DEF ListFiles
<1>3. files \in SUBSET Files /\ \A f \in files : f > worker.from
  BY Zenon
<1> HIDE DEF files
<1>4. /\ list \in Seq(Files) /\ Len(list) \in Nat
      /\ \A m \in 1..Len(list) : list[m] \in files
      /\ \A m, n \in 1..Len(list) : m < n => list[m] < list[n]
  BY <1>2, <1>3, Listed
<1>5. PICK w \in Worker : /\ worker' = w /\ WorkerOK(w) /\ w.pc # "claim" /\ w.id = worker.id /\ w.own = worker.own
                          /\ w.pc = "finish" \/ (w.pc = "file" /\ w.list[w.i] > worker.from)
  <2>1. CASE Len(list) = 0
    <3>1. worker' = [worker EXCEPT !.pc = "finish", !.result = "completed"]
      BY <1>2, <2>1
    <3>2. /\ worker' \in Worker /\ WorkerOK(worker') /\ worker'.pc = "finish" /\ worker'.id = worker.id
          /\ worker'.own = worker.own
      BY <1>1, <3>1, ToFinish
    <3> QED
      BY Zenon, <3>2
  <2>2. CASE Len(list) # 0
    <3> DEFINE w == [worker EXCEPT !.pc = "file", !.from = 0, !.list = list]
    <3>1. "file" \in WorkerAt
      BY DEF WorkerAt
    <3>2. w \in Worker
      BY Zenon, <1>1, <1>4, <3>1 DEF Worker
    <3>3. /\ w.pc = "file" /\ w.id = worker.id /\ w.own = worker.own /\ w.list = list /\ w.i = 1
          /\ w.then = worker.then /\ w.result = worker.result
      BY <1>1 DEF Worker
    <3>4. worker' = w
      BY <1>2, <2>2
    <3> HIDE DEF w
    <3>5. 1 \in 1..Len(list)
      BY <1>4, <2>2
    <3>6. WorkerOK(w)
      BY Zenon, <1>1, <1>4, <3>3, <3>5 DEF QueueInv, QueueOK, WorkerOK, EarlyAt, ListAt
    <3> QED
      BY Zenon, <1>3, <1>4, <3>2, <3>3, <3>4, <3>5, <3>6
  <2> QED
    BY Zenon, <2>1, <2>2
<1>6. UNCHANGED indexVars /\ UNCHANGED <<registry, tasks, nextId, cancelled, lock, client, stopping, requests, accepted, indexed>>
  BY DEF ListFiles
<1>7. QueueInv'
  BY Zenon, <1>1, <1>5, <1>6, WorkerOnly
<1> QED
  BY Zenon, <1>1, <1>5, <1>7

LEMMA NoFlushAfterFileKeepsQueue ==
  ASSUME QueueInv, NoFlushAfterFile
  PROVE  QueueInv' /\ OnTask /\ ListOK(worker) /\ Advanced(worker, worker')
<1>1. worker.pc = "indexing" /\ OnTask /\ job["worker"] = IdleJob /\ worker \in Worker
  BY Zenon DEF NoFlushAfterFile, At, OnTask, QueueInv, QueueTypeOK
<1>2. ListOK(worker)
  BY Zenon, <1>1 DEF QueueInv, QueueOK, WorkerOK, ListOK, ListAt
<1>3. Advanced(worker, worker')
  BY Zenon, <1>1, <1>2, EndFileMoves DEF NoFlushAfterFile
<1>4. UNCHANGED indexVars /\ UNCHANGED <<registry, tasks, nextId, cancelled, lock, client, stopping, requests, accepted, indexed>>
  BY Zenon DEF NoFlushAfterFile
<1>5. worker' \in Worker /\ WorkerOK(worker') /\ worker'.pc # "claim" /\ worker'.id = worker.id
  BY Zenon, <1>3 DEF Advanced
<1>6. QueueInv'
  BY Zenon, <1>1, <1>4, <1>5, WorkerOnly
<1> QED
  BY Zenon, <1>1, <1>2, <1>3, <1>6

LEMMA CheckpointReadKeepsQueue ==
  ASSUME QueueInv, CheckpointRead
  PROVE  /\ QueueInv' /\ worker.pc = "checkpoint"
         /\ worker'.pc = "checkpoint_store" /\ worker'.got = tasks[worker.id] /\ worker'.id = worker.id
         /\ worker'.own = worker.own /\ worker'.list = worker.list /\ worker'.i = worker.i /\ worker'.last = worker.last
<1>1. worker.pc = "checkpoint" /\ OnTask /\ job["worker"] = IdleJob /\ worker \in Worker
        /\ worker.id \in Ids /\ tasks[worker.id] \in Task /\ tasks[worker.id] # NoTask /\ tasks[worker.id].status # "pending"
  BY Zenon DEF CheckpointRead, At, OnTask, QueueInv, JobsOK, QueueTypeOK, QueueOK, IdsInOrder
<1> DEFINE w == [worker EXCEPT !.pc = "checkpoint_store", !.got = tasks[worker.id]]
<1>2. "checkpoint_store" \in WorkerAt
  BY DEF WorkerAt
<1>3. w \in Worker
  BY Zenon, <1>1, <1>2 DEF Worker
<1>4. /\ w.pc = "checkpoint_store" /\ w.got = tasks[worker.id] /\ w.id = worker.id /\ w.own = worker.own
      /\ w.list = worker.list /\ w.i = worker.i /\ w.last = worker.last /\ w.then = worker.then /\ w.result = worker.result
  BY <1>1 DEF Worker
<1>5. worker' = w
  BY DEF CheckpointRead
<1> HIDE DEF w
<1>6. WorkerOK(w)
  BY Zenon, <1>1, <1>4 DEF QueueInv, QueueOK, WorkerOK, EarlyAt, ListAt
<1>7. UNCHANGED indexVars /\ UNCHANGED <<registry, tasks, nextId, cancelled, lock, client, stopping, requests, accepted, indexed>>
  BY DEF CheckpointRead
<1>8. QueueInv'
  BY Zenon, <1>1, <1>3, <1>4, <1>5, <1>6, <1>7, WorkerOnly
<1> QED
  BY Zenon, <1>1, <1>4, <1>5, <1>8

LEMMA CheckpointStoreKeepsQueue ==
  ASSUME QueueInv, CheckpointStore
  PROVE  /\ QueueInv' /\ OnTask /\ worker.pc = "checkpoint_store" /\ ListOK(worker)
         /\ \E task \in Task : /\ Stored(worker.id, task) /\ task.status = worker.got.status /\ task.status # "pending"
                               /\ task.checkpoint = worker.last
         /\ worker'.id = worker.id /\ worker'.own = worker.own
         /\ \/ worker'.pc = "finish"
            \/ \E w \in Worker : ListOK(w) /\ w.list = worker.list /\ w.i = worker.i /\ Advanced(w, worker')
<1> USE DEF QueueInv
<1>1. /\ worker.pc = "checkpoint_store" /\ OnTask /\ worker.id \in Ids /\ worker \in Worker
      /\ worker.got \in Task /\ worker.got.status # "pending" /\ worker.then # "idle"
  BY Zenon DEF CheckpointStore, At, OnTask, QueueOK, IdsInOrder, QueueTypeOK, WorkerOK, Worker
<1>2. ListOK(worker)
  BY Zenon, <1>1 DEF QueueOK, WorkerOK, ListOK, ListAt
<1>3. worker.last \in Files
  <2>1. worker.list \in Seq(Files) /\ worker.i \in 1..Len(worker.list)
    BY Zenon, <1>1, <1>2 DEF Worker, ListOK
  <2> QED
    BY <1>2, <2>1 DEF ListOK
<1> DEFINE task == [worker.got EXCEPT !.checkpoint = worker.last]
           w == [worker EXCEPT !.then = "idle", !.got = NoTask]
           end == [w EXCEPT !.pc = "finish"]
<1>4. task \in Task /\ task.status = worker.got.status /\ task.checkpoint = worker.last
  BY <1>1, <1>3 DEF Task
<1>5. /\ tasks' = [tasks EXCEPT ![worker.id] = task]
      /\ worker' = IF worker.then = "file_end" THEN EndFile(w)
                   ELSE IF worker.then = "batch_end" THEN EndBatch(w) ELSE end
  BY DEF CheckpointStore
<1>6. w \in Worker
  BY Zenon, <1>1 DEF Worker
<1>7. /\ w.id = worker.id /\ w.own = worker.own /\ w.list = worker.list /\ w.i = worker.i /\ w.last = worker.last
      /\ w.then = "idle" /\ w.result = worker.result
  BY <1>1 DEF Worker
<1> HIDE DEF task, w
<1>8. ListOK(w)
  BY Zenon, <1>2, <1>7 DEF ListOK
<1>9. worker.then = "finish" => end \in Worker /\ WorkerOK(end) /\ end.pc = "finish" /\ end.id = w.id /\ end.own = w.own
  <2>1. "finish" \in WorkerAt
    BY DEF WorkerAt
  <2>2. end \in Worker
    BY Zenon, <1>6, <2>1 DEF Worker
  <2>3. end.pc = "finish" /\ end.id = w.id /\ end.own = w.own /\ end.result = w.result
    BY <1>6 DEF Worker
  <2> HIDE DEF end
  <2>4. worker.then = "finish" => worker.result # "none"
    BY Zenon DEF QueueOK, WorkerOK
  <2>5. worker.then = "finish" => WorkerOK(end)
    BY Zenon, <1>7, <2>3, <2>4 DEF WorkerOK, EarlyAt, ListAt
  <2> QED
    BY Zenon, <2>2, <2>3, <2>5
<1> HIDE DEF end
<1>10. \/ worker' = end /\ worker.then = "finish"
       \/ Advanced(w, worker')
  <2>1. worker.then \in {"file_end", "batch_end", "finish"}
    BY Zenon, <1>1 DEF Worker
  <2> QED
    BY Zenon, <1>5, <1>6, <1>8, <2>1, EndFileMoves, EndBatchMoves
<1>11. worker' \in Worker /\ WorkerOK(worker') /\ worker'.pc # "claim" /\ worker'.id = worker.id /\ worker'.own = worker.own
  BY Zenon, <1>7, <1>9, <1>10 DEF Advanced
<1>12. Stored(worker.id, task)
  BY Zenon, <1>1, <1>4, <1>5, StoredTyped
<1>13. UNCHANGED indexVars /\ UNCHANGED <<registry, cancelled, lock, client, stopping, nextId, requests, accepted, indexed>>
  BY DEF CheckpointStore
<1>14. IndexTypeOK' /\ FlushesOK'
  BY Zenon, <1>13, QuietTypes DEF IndexTypeOK, indexVars
<1>15. JobsOK'
  BY Zenon, <1>1, <1>13, WorkerIdleJob DEF JobsOK, indexVars
<1>16. blame \subseteq blame'
  BY Zenon, <1>13 DEF indexVars
<1>17. QueueTypeOK' /\ QueueOK'
  BY Zenon, <1>1, <1>4, <1>11, <1>12, <1>13, <1>16, StoringKeepsQueue
<1> QED
  BY Zenon, <1>1, <1>2, <1>4, <1>6, <1>7, <1>8, <1>9, <1>10, <1>11, <1>12, <1>14, <1>15, <1>17

LEMMA PruneLoadKeepsQueue ==
  ASSUME QueueInv, PruneLoad
  PROVE  QueueInv' /\ worker.pc = "prune" /\ worker'.pc = "prune_save"
<1>1. worker.pc = "prune" /\ job["worker"] = IdleJob /\ worker \in Worker
  BY Zenon DEF PruneLoad, At, QueueInv, JobsOK, QueueTypeOK
<1>2. PICK ended \in {{id \in list_tasks : tasks[id].status \in Terminal}} :
        \E remove \in SUBSET ended :
          worker' = [worker EXCEPT !.pc = "prune_save", !.registry = registry, !.remove = remove]
  BY Zenon DEF PruneLoad
<1>3. PICK remove \in SUBSET ended :
        worker' = [worker EXCEPT !.pc = "prune_save", !.registry = registry, !.remove = remove]
  BY Zenon, <1>2
<1>4. remove \in SUBSET Ids /\ registry \in SUBSET Ids
  BY <1>2, <1>3 DEF QueueInv, QueueTypeOK, list_tasks
<1> DEFINE w == [worker EXCEPT !.pc = "prune_save", !.registry = registry, !.remove = remove]
<1>5. "prune_save" \in WorkerAt
  BY DEF WorkerAt
<1>6. w \in Worker
  BY Zenon, <1>1, <1>4, <1>5 DEF Worker
<1>7. w.pc = "prune_save" /\ w.then = worker.then /\ w.result = worker.result
  BY <1>1 DEF Worker
<1>8. worker' = w
  BY <1>3
<1> HIDE DEF w
<1>9. WorkerOK(w)
  BY Zenon, <1>7 DEF QueueInv, QueueOK, WorkerOK, EarlyAt, ListAt
<1>10. UNCHANGED indexVars /\ UNCHANGED <<registry, tasks, nextId, cancelled, lock, client, stopping, requests, accepted, indexed>>
  BY DEF PruneLoad
<1>11. QueueInv'
  BY Zenon, <1>1, <1>6, <1>7, <1>8, <1>9, <1>10, WorkerOnly DEF OffTask
<1> QED
  BY Zenon, <1>1, <1>7, <1>8, <1>11

LEMMA PruneSaveKeepsQueue ==
  ASSUME QueueInv, PruneSave
  PROVE  QueueInv' /\ \A id \in Ids : tasks'[id] = NoTask \/ tasks'[id] = tasks[id]
<1> USE DEF QueueInv
<1>1. worker.pc = "prune_save" /\ worker \in Worker /\ worker' = IdleWorker
  BY Zenon DEF PruneSave, At, QueueTypeOK
<1>2. /\ tasks' = [id \in Ids |-> IF id \in worker.remove THEN NoTask ELSE tasks[id]]
      /\ registry' = worker.registry \ worker.remove
      /\ UNCHANGED <<content, clock, config, cachedConfig, indexes, dirtyKeys, deletedKeys, pending, disk, job, flush, cleanup, faults>>
      /\ UNCHANGED <<nextId, cancelled, lock, client, stopping, requests, accepted, indexed>>
      /\ blame \subseteq blame' /\ ("prune" \notin blame' => registry = worker.registry)
  BY Zenon DEF PruneSave, bufferVars
<1>3. \A id \in Ids : tasks'[id] = NoTask \/ (tasks'[id] = tasks[id] /\ id \notin worker.remove)
  BY Zenon, <1>2
<1>4. tasks' \in [Ids -> Task \cup {NoTask}] /\ registry' \subseteq Ids
  BY Zenon, <1>1, <1>2 DEF QueueTypeOK, Worker
<1>5. IndexTypeOK' /\ FlushesOK'
  BY Zenon, <1>2, QuietTypes DEF IndexTypeOK
<1>6. JobsOK'
  BY Zenon, <1>1, <1>2, WorkerIdleJob DEF JobsOK
<1>7. QueueTypeOK'
  BY Zenon, <1>1, <1>2, <1>4, IdleRecords DEF QueueTypeOK
<1>8. QueueOK'
  <2> USE DEF QueueOK
  <2>1. IdsInOrder'
    BY Zenon, <1>1, <1>2, <1>3, IdleRecords DEF IdsInOrder, OnTask
  <2>2. ClientsOK'
    BY Zenon, <1>2 DEF ClientsOK, ClientOK
  <2>3. WorkerOK(worker)'
    BY Zenon, <1>1, IdleRecords DEF WorkerOK
  <2>4. LockOK'
    BY Zenon, <1>1, <1>2, IdleRecords DEF LockOK
  <2>5. RegistryOK'
    BY Zenon, <1>1, <1>2, <1>3, IdleRecords DEF RegistryOK, OnTask, IsActive, QueueTypeOK
  <2> QED
    BY ZenonT(30), <2>1, <2>2, <2>3, <2>4, <2>5
<1> QED
  BY Zenon, <1>3, <1>5, <1>6, <1>7, <1>8

\* delete_indexes_not_in_config: what is retired is in no index the buffer
\* still serves.
LEMMA RetireKeepsQueue ==
  ASSUME QueueInv, Retire
  PROVE  /\ QueueInv' /\ worker.pc = "execute"
         /\ worker'.pc \in {"retire_flush", "list"} /\ worker'.id = worker.id /\ worker'.from = worker.from
         /\ worker'.own = worker.own
<1> USE DEF QueueInv
<1>1. worker.pc = "execute" /\ OnTask /\ job["worker"] = IdleJob /\ worker \in Worker
  BY Zenon DEF Retire, At, OnTask, JobsOK, QueueTypeOK
<1>2. PICK stale \in {list_indexes \ load_config} :
        /\ indexes' = [k \in Fields |-> IF k \in stale THEN NoIndex ELSE indexes[k]]
        /\ dirtyKeys' = dirtyKeys \ stale
        /\ deletedKeys' = deletedKeys \cup stale
        /\ pending' = (pending \/ stale # {})
        /\ indexed' = {e \in indexed : e.field \notin stale}
        /\ Goto(IF stale # {} THEN "retire_flush" ELSE "list")
  BY Zenon DEF Retire
<1>3. PICK pc \in {"retire_flush", "list"} : worker' = [worker EXCEPT !.pc = pc]
  BY <1>2 DEF Goto
<1>4. /\ UNCHANGED <<content, clock, config, disk, job, flush, cleanup, faults, registry, tasks>>
      /\ UNCHANGED <<cancelled, lock, client, stopping, nextId, requests, accepted>>
      /\ cachedConfig' = load_config /\ blame \subseteq blame'
  BY Zenon DEF Retire
<1>5. IndexTypeOK' /\ FlushesOK'
  <2>1. stale \subseteq Fields
    BY Zenon, <1>2 DEF list_indexes
  <2>2. indexes' \in [Fields -> Index \cup {NoIndex}] /\ dirtyKeys' \subseteq Fields /\ deletedKeys' \subseteq Fields
    BY Zenon, <1>2, <2>1 DEF IndexTypeOK
  <2>3. pending' \in BOOLEAN
    BY Zenon, <1>2
  <2>4. FlushesOK'
    BY Zenon, <1>4 DEF FlushesOK, FlushOK
  <2> QED
    BY Zenon, <1>4, <2>2, <2>3, <2>4, ConfigTyped DEF IndexTypeOK
<1> DEFINE w == [worker EXCEPT !.pc = pc]
<1>6. pc \in WorkerAt
  BY <1>3 DEF WorkerAt
<1>7. w \in Worker
  BY Zenon, <1>1, <1>6 DEF Worker
<1>8. /\ w.pc = pc /\ w.id = worker.id /\ w.from = worker.from /\ w.own = worker.own /\ w.i = worker.i
      /\ w.then = worker.then /\ w.result = worker.result
  BY <1>1 DEF Worker
<1>9. worker' = w
  BY <1>3
<1> HIDE DEF w
<1>10. WorkerOK(w)
  BY <1>1, <1>3, <1>8 DEF QueueOK, WorkerOK, EarlyAt, ListAt
<1>11. indexed' \subseteq indexed
  BY Zenon, <1>2
<1>12. QueueTypeOK' /\ QueueOK'
  BY Zenon, <1>1, <1>3, <1>4, <1>7, <1>8, <1>9, <1>10, <1>11, WorkerKeepsQueue DEF QueueTypeOK
<1>13. JobsOK'
  BY Zenon, <1>1, <1>4, WorkerIdleJob
<1> QED
  BY <1>1, <1>3, <1>5, <1>8, <1>9, <1>12, <1>13

\* The worker stays with its file.
Place(w) ==
  /\ w.id = worker.id /\ w.list = worker.list /\ w.i = worker.i /\ w.from = worker.from /\ w.last = worker.last

LEMMA ForcedFlushKeepsQueue ==
  ASSUME QueueInv, NEW after \in {"retired", "flushed", "final_flushed"}, ForcedFlush(after), job["worker"] = IdleJob,
         worker.pc \in (IF after = "retired" THEN {"retire_flush"} ELSE {"indexing", "final_flush"})
  PROVE  /\ QueueInv' /\ worker'.pc = after /\ Place(worker') /\ worker'.own = worker.own
         /\ UNCHANGED <<indexRest, indexes, disk, job, faults, tasks, client, indexed>>
         /\ \/ Taken("worker", dirtyKeys, deletedKeys)
            \/ /\ UNCHANGED <<flush, dirtyKeys, deletedKeys, pending>> /\ dirtyKeys = {} /\ deletedKeys = {}
               /\ blame \subseteq blame' /\ ("flusher" \notin blame' => \A t \in Threads : ~Flushing(t))
<1> USE DEF QueueInv
<1>1. OnTask /\ worker.pc # "claim" /\ worker \in Worker /\ "worker" \in Threads
  BY Zenon DEF OnTask, QueueTypeOK, Threads
<1>2. /\ UNCHANGED <<content, clock, config, cachedConfig, indexes, disk, job, cleanup, faults>>
      /\ UNCHANGED <<registry, tasks, nextId, cancelled, lock, client, stopping, requests, accepted, indexed>>
      /\ worker' = [worker EXCEPT !.pc = after]
  BY DEF ForcedFlush
<1>3. \/ Taken("worker", dirtyKeys, deletedKeys)
      \/ /\ UNCHANGED <<flush, dirtyKeys, deletedKeys, pending>> /\ dirtyKeys = {} /\ deletedKeys = {}
         /\ blame \subseteq blame' /\ ("flusher" \notin blame' => \A t \in Threads : ~Flushing(t))
  <2>1. CASE pending \/ dirtyKeys # {} \/ deletedKeys # {}
    <3>1. snapshot_flush("worker", indexes, dirtyKeys, deletedKeys)
      BY <2>1 DEF ForcedFlush
    <3> QED
      BY Zenon, <1>1, <1>2, <3>1, SnapshotTaken DEF IndexTypeOK
  <2>2. CASE ~(pending \/ dirtyKeys # {} \/ deletedKeys # {})
    BY <2>2 DEF ForcedFlush
  <2> QED
    BY Zenon, <2>1, <2>2
<1>4. FlushesOK'
  BY Zenon, <1>1, <1>3, TakenKeeps DEF FlushesOK, FlushOK
<1>5. IndexTypeOK'
  BY Zenon, <1>2, <1>3 DEF IndexTypeOK, Taken
<1>6. JobsOK'
  BY Zenon, <1>2, <1>3, WorkerIdleJob DEF Taken
<1> DEFINE w == [worker EXCEPT !.pc = after]
<1>7. after \in WorkerAt
  BY DEF WorkerAt
<1>8. w \in Worker
  BY ZenonT(30), <1>1, <1>7 DEF Worker
<1>9. w.pc = after /\ Place(w) /\ w.own = worker.own /\ w.then = worker.then /\ w.result = worker.result
  BY <1>1 DEF Worker, Place
<1> HIDE DEF w
<1>10. WorkerOK(w)
  BY Zenon, <1>9 DEF QueueOK, WorkerOK, EarlyAt, ListAt, Place
<1>11. blame \subseteq blame'
  BY Zenon, <1>3 DEF Taken
<1>12. worker' = w
  BY <1>2 DEF w
<1>13. QueueTypeOK' /\ QueueOK'
  BY Zenon, <1>1, <1>2, <1>8, <1>9, <1>10, <1>11, <1>12, WorkerKeepsQueue DEF QueueTypeOK, Place
<1> QED
  BY <1>2, <1>3, <1>4, <1>5, <1>6, <1>9, <1>12, <1>13 DEF indexRest

\* The end of a flush of the worker: on it goes, or it ends the task.
LEMMA FlushEndedKeepsQueue ==
  ASSUME QueueInv, NEW pc \in {"retired", "flushed", "final_flushed"}, NEW good \in Worker, FlushEnded(pc, good),
         WorkerOK(good), good.pc \notin OffTask, good.pc # "claim", good.id = worker.id
  PROVE  /\ QueueInv' /\ worker.pc = pc /\ OnTask
         /\ UNCHANGED <<indexRest, bufferVars, disk, job, faults, tasks, client, indexed, blame>>
         /\ \/ worker' = good /\ ~flush["worker"].failed
            \/ worker'.pc = "finish" /\ worker'.id = worker.id /\ worker'.own = worker.own
         /\ ~Flushing("worker") /\ flush' = [flush EXCEPT !["worker"] = NoFlush]
<1> USE DEF QueueInv
<1>1. worker.pc = pc /\ OnTask /\ worker \in Worker /\ "worker" \in Threads /\ job["worker"] = IdleJob
  BY Zenon DEF OnTask, QueueTypeOK, Threads, FlushEnded, At, JobsOK
<1>2. /\ UNCHANGED <<content, clock, config, cachedConfig, indexes, dirtyKeys, deletedKeys, pending, disk, job, cleanup, faults>>
      /\ UNCHANGED <<blame, registry, tasks, nextId, cancelled, lock, client, stopping, requests, accepted, indexed>>
      /\ flush' = [flush EXCEPT !["worker"] = NoFlush] /\ ~Flushing("worker")
  BY DEF FlushEnded, bufferVars, At
<1>3. PICK w \in Worker : /\ worker' = w /\ WorkerOK(w) /\ w.pc \notin OffTask /\ w.pc # "claim" /\ w.id = worker.id
                          /\ \/ w = good /\ ~flush["worker"].failed
                             \/ w.pc = "finish" /\ w.id = worker.id /\ w.own = worker.own
  <2>1. CASE flush["worker"].failed
    <3>1. worker' = [worker EXCEPT !.pc = "finish", !.result = "failed"]
      BY <2>1 DEF FlushEnded
    <3>2. /\ worker' \in Worker /\ WorkerOK(worker') /\ worker'.pc = "finish" /\ worker'.id = worker.id
          /\ worker'.own = worker.own
      BY <1>1, <3>1, ToFinish
    <3> QED
      BY Zenon, <3>2 DEF OffTask
  <2>2. CASE ~flush["worker"].failed
    BY <2>2 DEF FlushEnded
  <2> QED
    BY Zenon, <2>1, <2>2
<1>4. /\ flush' \in [Threads -> Flush] /\ \A u \in Threads \ {"worker"} : flush'[u] = flush[u]
      /\ flush'["worker"].unsaved = {} /\ flush'["worker"].undeleted = {} /\ flush'["worker"].deletes = {}
      /\ DOMAIN flush'["worker"].saves = {}
  BY Zenon, <1>1, <1>2, ClearMoves
<1>5. FlushesOK'
  BY Zenon, <1>1, <1>4, FlushKept DEF FlushOK
<1>6. IndexTypeOK'
  BY Zenon, <1>2, <1>4 DEF IndexTypeOK
<1>7. JobsOK'
  BY Zenon, <1>1, <1>2, <1>4, WorkerIdleJob
<1>8. QueueTypeOK' /\ QueueOK'
  BY Zenon, <1>1, <1>2, <1>3, WorkerKeepsQueue DEF QueueTypeOK
<1> QED
  BY Zenon, <1>1, <1>2, <1>3, <1>5, <1>6, <1>7, <1>8 DEF indexRest, bufferVars

LEMMA RetiredKeepsQueue ==
  ASSUME QueueInv, Retired
  PROVE  /\ QueueInv' /\ worker.pc = "retired" /\ worker'.id = worker.id /\ worker'.own = worker.own
         /\ UNCHANGED <<indexRest, bufferVars, disk, job, faults, tasks, client, indexed, blame>>
         /\ ~Flushing("worker") /\ flush' = [flush EXCEPT !["worker"] = NoFlush]
         /\ worker'.pc = "finish" \/ (worker'.pc = "list" /\ Place(worker'))
<1> DEFINE good == [worker EXCEPT !.pc = "list"]
<1>1. worker \in Worker /\ FlushEnded("retired", good) /\ worker.pc = "retired"
  BY Zenon DEF Retired, FlushEnded, At, QueueInv, QueueTypeOK
<1>2. "list" \in WorkerAt
  BY DEF WorkerAt
<1>3. good \in Worker
  BY Zenon, <1>1, <1>2 DEF Worker
<1>4. good.pc = "list" /\ Place(good) /\ good.own = worker.own /\ good.then = worker.then /\ good.result = worker.result
  BY <1>1 DEF Worker, Place
<1> HIDE DEF good
<1>5. WorkerOK(good)
  BY Zenon, <1>1, <1>4 DEF QueueInv, QueueOK, WorkerOK, EarlyAt, ListAt, Place
<1> QED
  BY Zenon, <1>1, <1>3, <1>4, <1>5, FlushEndedKeepsQueue DEF OffTask, Place

\* A flush after a file, or the last one: the worker's own count is back to
\* nothing, and a checkpoint follows.
LEMMA FlushedKeepsQueue ==
  ASSUME QueueInv, Flushed \/ FinalFlushed
  PROVE  /\ QueueInv' /\ worker.pc \in {"flushed", "final_flushed"} /\ worker'.id = worker.id
         /\ UNCHANGED <<indexRest, bufferVars, disk, job, faults, tasks, client, indexed, blame>>
         /\ ~Flushing("worker") /\ flush' = [flush EXCEPT !["worker"] = NoFlush]
         /\ \/ worker'.pc = "finish" /\ worker'.own = worker.own
            \/ worker'.pc = "checkpoint" /\ Place(worker') /\ ~flush["worker"].failed
<1>0. worker \in Worker /\ "checkpoint" \in WorkerAt
  BY Zenon DEF WorkerAt, QueueInv, QueueTypeOK
<1>1. CASE Flushed
  <2> DEFINE good == [worker EXCEPT !.pc = "checkpoint", !.own = FALSE, !.then = "file_end"]
  <2>1. FlushEnded("flushed", good) /\ worker.pc = "flushed"
    BY <1>1 DEF Flushed, FlushEnded, At
  <2>2. good \in Worker
    BY Zenon, <1>0 DEF Worker
  <2>3. good.pc = "checkpoint" /\ Place(good) /\ good.own = FALSE /\ good.then = "file_end" /\ good.result = worker.result
    BY <1>0 DEF Worker, Place
  <2> HIDE DEF good
  <2>4. WorkerOK(good)
    BY Zenon, <2>1, <2>3 DEF QueueInv, QueueOK, WorkerOK, EarlyAt, ListAt, Place
  <2> QED
    BY Zenon, <2>1, <2>2, <2>3, <2>4, FlushEndedKeepsQueue DEF OffTask, Place
<1>2. CASE FinalFlushed
  <2> DEFINE good == [worker EXCEPT !.pc = "checkpoint", !.own = FALSE, !.then = "finish", !.result = "completed"]
  <2>1. FlushEnded("final_flushed", good) /\ worker.pc = "final_flushed"
    BY <1>2 DEF FinalFlushed, FlushEnded, At
  <2>2. good \in Worker
    BY Zenon, <1>0 DEF Worker
  <2>3. good.pc = "checkpoint" /\ Place(good) /\ good.own = FALSE /\ good.then = "finish" /\ good.result = "completed"
    BY <1>0 DEF Worker, Place
  <2> HIDE DEF good
  <2>4. WorkerOK(good)
    BY Zenon, <2>1, <2>3 DEF QueueInv, QueueOK, WorkerOK, EarlyAt, ListAt, Place
  <2> QED
    BY Zenon, <2>1, <2>2, <2>3, <2>4, FlushEndedKeepsQueue DEF OffTask, Place
<1> QED
  BY Zenon, <1>1, <1>2

LEMMA IndexFileKeepsQueue ==
  ASSUME QueueInv, IndexFile
  PROVE  /\ QueueInv' /\ worker.pc = "file" /\ worker'.id = worker.id /\ worker'.own = worker.own
         /\ UNCHANGED <<content, clock, config, bufferVars, disk, flush, cleanup, faults, tasks, client, indexed>>
         /\ blame' \subseteq blame \cup {"config"} /\ blame \subseteq blame'
         /\ \A u \in Threads \ {"worker"} : job'[u] = job[u]
         /\ \/ job'["worker"] = IdleJob
            \/ /\ job'["worker"].op = "update" /\ job'["worker"].field = NoField
               /\ job'["worker"].data \in {0, content[job'["worker"].file]}
         /\ \/ worker'.pc = "indexing" /\ worker'.list = worker.list /\ worker'.i = worker.i
            \/ \E w \in Worker : ListOK(w) /\ w.list = worker.list /\ w.i = worker.i /\ Advanced(w, worker')
<1> USE DEF QueueInv
<1>1. worker.pc = "file" /\ OnTask /\ worker \in Worker /\ "worker" \in Threads /\ job["worker"] = IdleJob /\ ~Flushing("worker")
  BY Zenon DEF OnTask, QueueTypeOK, Threads, IndexFile, At, JobsOK
<1>2. PICK f \in {worker.list[worker.i]}, meta \in {tasks[worker.id].meta} :
       IF ~meta /\ content[f] = 0
       THEN /\ worker' = EndFile([worker EXCEPT !.last = f])
            /\ UNCHANGED <<job, cachedConfig, blame>>
       ELSE /\ StartUpdate("worker", f, IF meta THEN MetaFields ELSE Fields,
                           IF meta THEN 0 ELSE content[f])
            /\ cachedConfig' = load_config
            /\ blame' = IF load_config # config THEN blame \cup {"config"} ELSE blame
            /\ worker' = [worker EXCEPT !.pc = "indexing", !.last = f]
  BY Zenon DEF IndexFile
<1>3. /\ UNCHANGED <<content, clock, config, indexes, dirtyKeys, deletedKeys, pending, disk, flush, cleanup, faults>>
      /\ UNCHANGED <<registry, tasks, cancelled, lock, client, stopping, nextId, requests, accepted, indexed>>
  BY Zenon DEF IndexFile, bufferVars
<1>4. f = worker.list[worker.i] /\ f \in Files /\ content[f] \in Versions /\ 0 \in Versions
  <2>1. worker.list \in Seq(Files) /\ worker.i \in 1..Len(worker.list)
    BY Zenon, <1>1 DEF Worker, QueueOK, WorkerOK, ListAt
  <2>2. f \in Files /\ f = worker.list[worker.i]
    BY <1>2, <2>1
  <2> QED
    BY <2>2, IndexBufferAssumption DEF IndexTypeOK, Versions
<1>5. CASE ~meta /\ content[f] = 0
  <2> DEFINE w == [worker EXCEPT !.last = f]
  <2>1. w \in Worker
    BY Zenon, <1>1, <1>4 DEF Worker
  <2>2. w.id = worker.id /\ w.list = worker.list /\ w.i = worker.i /\ w.own = worker.own /\ w.last = f
          /\ w.then = worker.then /\ w.result = worker.result
    BY <1>1 DEF Worker
  <2>3. worker' = EndFile(w) /\ UNCHANGED <<job, cachedConfig, blame>>
    BY <1>2, <1>5
  <2> HIDE DEF w
  <2>4. ListOK(w)
    BY Zenon, <1>1, <1>4, <2>2 DEF QueueOK, WorkerOK, ListAt, ListOK
  <2>5. Advanced(w, worker')
    BY Zenon, <2>1, <2>3, <2>4, EndFileMoves
  <2>6. worker' \in Worker /\ WorkerOK(worker') /\ worker'.pc # "claim" /\ worker'.id = worker.id /\ worker'.own = worker.own
    BY Zenon, <2>2, <2>5 DEF Advanced
  <2>7. UNCHANGED indexVars
    BY Zenon, <1>3, <2>3 DEF indexVars
  <2>8. QueueInv'
    BY Zenon, <1>1, <1>3, <2>6, <2>7, WorkerOnly
  <2> QED
    BY Zenon, <1>1, <1>3, <2>1, <2>2, <2>3, <2>4, <2>5, <2>6, <2>8 DEF bufferVars
<1>6. CASE ~(~meta /\ content[f] = 0)
  <2>1. PICK fields \in SUBSET Fields, data \in {0, content[f]} : StartUpdate("worker", f, fields, data)
    BY Zenon, <1>2, <1>6, IndexBufferAssumption
  <2>2. /\ job' \in [Threads -> Job \cup {IdleJob}] /\ \A u \in Threads \ {"worker"} : job'[u] = job[u]
        /\ job'["worker"] = IdleJob \/ (/\ job'["worker"].op = "update" /\ job'["worker"].file = f
                                        /\ job'["worker"].data = data /\ job'["worker"].field = NoField)
    BY ZenonT(30), <1>1, <1>4, <2>1, StartTyped
  <2>3. cachedConfig' = load_config /\ blame \subseteq blame' /\ blame' \subseteq blame \cup {"config"}
    BY Zenon, <1>2, <1>6
  <2>4. IndexTypeOK' /\ FlushesOK'
    BY Zenon, <1>3, <2>2, <2>3, QuietTypes, ConfigTyped DEF IndexTypeOK
  <2> DEFINE w == [worker EXCEPT !.pc = "indexing", !.last = f]
  <2>5. worker' = w
    BY <1>2, <1>6
  <2>6. "indexing" \in WorkerAt
    BY Zenon DEF WorkerAt
  <2>7. w \in Worker
    BY Zenon, <1>1, <1>4, <2>6 DEF Worker
  <2>8. w.pc = "indexing" /\ w.id = worker.id /\ w.list = worker.list /\ w.i = worker.i /\ w.own = worker.own /\ w.last = f
          /\ w.then = worker.then /\ w.result = worker.result
    BY Zenon, <1>1 DEF Worker
  <2> HIDE DEF w
  <2>9. WorkerOK(w)
    BY Zenon, <1>1, <1>4, <2>8 DEF QueueOK, WorkerOK, ListAt, EarlyAt
  <2>10. QueueTypeOK' /\ QueueOK'
    BY Zenon, <1>1, <1>3, <2>3, <2>5, <2>7, <2>8, <2>9, WorkerKeepsQueue DEF QueueTypeOK
  <2>11. JobsOK'
    <3>1. JobOK("worker")'
      BY <2>2 DEF JobOK, IdleJob
    <3>2. \A u \in Threads : JobOK(u)'
      BY ZenonT(30), <1>3, <2>2, <3>1 DEF JobsOK, JobOK, Flushing
    <3> QED
      BY Zenon, <2>2, <2>5, <2>8, <3>2 DEF JobsOK, Threads
  <2> QED
    BY Zenon, <1>1, <1>3, <2>1, <2>2, <2>3, <2>4, <2>5, <2>8, <2>10, <2>11 DEF bufferVars
<1> QED
  BY Zenon, <1>5, <1>6

LEMMA WorkerUpdateKeepsQueue ==
  ASSUME QueueInv, WorkerUpdate
  PROVE  /\ QueueInv' /\ worker.pc = "indexing" /\ worker'.pc = "indexing" /\ Place(worker') /\ worker'.own = TRUE
         /\ job["worker"].file = worker.list[worker.i]
         /\ \E e \in Update : /\ indexed' = indexed \cup {e} /\ e.task = worker.id /\ e.file = job["worker"].file
                              /\ e.version = job["worker"].value /\ e.field = job["worker"].field
<1> USE DEF QueueInv
<1>1. worker \in Worker /\ "worker" \in Threads /\ job["worker"].op = "update" /\ job["worker"].field # NoField /\ update_index("worker")
  BY Zenon DEF QueueTypeOK, Threads, WorkerUpdate, update_index
<1>2. job["worker"] # IdleJob /\ job["worker"] \in Job
  BY <1>1 DEF IdleJob, IndexTypeOK
<1>3. worker.pc = "indexing" /\ OnTask /\ job["worker"].file = worker.last /\ JobOK("worker")
  BY Zenon, <1>1, <1>2 DEF JobsOK, OnTask
<1>4. worker.last = worker.list[worker.i]
  BY Zenon, <1>3 DEF QueueOK, WorkerOK, ListAt
<1>5. worker.id \in Ids /\ job["worker"].file \in Files /\ job["worker"].value \in Versions \ {0} /\ job["worker"].field \in Fields
  BY Zenon, <1>1, <1>2, <1>3 DEF QueueOK, IdsInOrder, Job, JobOK
<1> DEFINE e == [task |-> worker.id, file |-> job["worker"].file,
                 version |-> job["worker"].value, field |-> job["worker"].field]
           w == [worker EXCEPT !.own = TRUE, !.ownBefore = worker.own]
<1>6. /\ e \in Update /\ e.task = worker.id /\ e.file = job["worker"].file
      /\ e.version = job["worker"].value /\ e.field = job["worker"].field
  BY Zenon, <1>5 DEF Update
<1>7. /\ UNCHANGED <<content, clock, config, cachedConfig, disk, cleanup, faults>>
      /\ UNCHANGED <<registry, tasks, nextId, cancelled, lock, client, stopping, requests, accepted>>
      /\ indexed' = indexed \cup {e} /\ worker' = w
  BY DEF WorkerUpdate
<1>8. w \in Worker
  BY Zenon, <1>1 DEF Worker
<1>9. w.pc = "indexing" /\ Place(w) /\ w.own = TRUE /\ w.then = worker.then /\ w.result = worker.result
  BY <1>1, <1>3 DEF Worker, Place
<1> HIDE DEF e, w
<1>10. WorkerOK(w)
  BY Zenon, <1>3, <1>9 DEF QueueOK, WorkerOK, EarlyAt, ListAt, Place
<1>11. IndexTypeOK' /\ FlushesOK'
  BY Zenon, <1>1, <1>7, TypedUpdate
<1>12. /\ \A u \in Threads \ {"worker"} : job'[u] = job[u] /\ flush'[u] = flush[u]
       /\ job'["worker"] = job["worker"] \/ JobGoesOn("worker")
       /\ JobOK("worker")' /\ blame \subseteq blame'
  BY Zenon, <1>1, <1>3, StepJobs
<1>13. QueueTypeOK' /\ QueueOK'
  <2>1. indexed' \subseteq Update /\ \A x \in indexed' : x \in indexed \/ (OnTask /\ x.task = worker.id)
    BY Zenon, <1>3, <1>6, <1>7 DEF QueueTypeOK
  <2> QED
    BY Zenon, <1>3, <1>7, <1>8, <1>9, <1>10, <1>12, <2>1, WorkerKeepsQueue DEF Place
<1>14. JobsOK'
  <2>1. \A u \in Threads : JobOK(u)'
    BY Zenon, <1>12 DEF JobsOK, JobOK, Flushing
  <2>2. job'["worker"] # IdleJob => job'["worker"].file = job["worker"].file
    BY Zenon, <1>12 DEF JobGoesOn
  <2> QED
    BY Zenon, <1>3, <1>7, <1>9, <1>12, <2>1, <2>2 DEF JobsOK, Place, Threads
<1> QED
  BY Zenon, <1>3, <1>4, <1>6, <1>7, <1>9, <1>11, <1>13, <1>14

LEMMA WorkerUpdateFailsKeepsQueue ==
  ASSUME QueueInv, WorkerUpdateFails
  PROVE  QueueInv' /\ "failure" \in blame' /\ worker.pc = "indexing" /\ worker'.pc = "indexing" /\ Place(worker')
<1> USE DEF QueueInv
<1>1. worker \in Worker /\ "worker" \in Threads /\ worker.pc = "indexing" /\ OnTask
  BY DEF QueueTypeOK, Threads, WorkerUpdateFails, OnTask
<1> DEFINE w == [worker EXCEPT !.own = worker.ownBefore, !.ownBefore = FALSE]
<1>2. /\ UNCHANGED <<content, clock, config, cachedConfig, indexes, dirtyKeys, deletedKeys, pending, disk, job, cleanup, faults>>
      /\ UNCHANGED <<registry, tasks, nextId, cancelled, lock, client, stopping, requests, accepted, indexed>>
      /\ flush' = [flush EXCEPT !["worker"] = NoFlush] /\ worker' = w
      /\ blame' = blame \cup {"failure"}
  BY DEF WorkerUpdateFails, bufferVars
<1>3. w \in Worker
  BY Zenon, <1>1 DEF Worker
<1>4. w.pc = "indexing" /\ Place(w) /\ w.then = worker.then /\ w.result = worker.result
  BY <1>1 DEF Worker, Place
<1> HIDE DEF w
<1>5. WorkerOK(w)
  BY Zenon, <1>1, <1>4 DEF QueueOK, WorkerOK, EarlyAt, ListAt, Place
<1>6. /\ flush' \in [Threads -> Flush] /\ \A u \in Threads \ {"worker"} : flush'[u] = flush[u]
      /\ flush'["worker"].unsaved = {} /\ flush'["worker"].undeleted = {} /\ flush'["worker"].deletes = {}
      /\ DOMAIN flush'["worker"].saves = {}
  BY Zenon, <1>1, <1>2, ClearMoves
<1>7. FlushesOK'
  BY Zenon, <1>1, <1>6, FlushKept DEF FlushOK
<1>8. IndexTypeOK'
  BY Zenon, <1>2, <1>6 DEF IndexTypeOK
<1>9. JobsOK'
  <2>1. \A u \in Threads : JobOK(u)'
    BY Zenon, <1>2, <1>6 DEF JobsOK, JobOK, Flushing
  <2> QED
    BY Zenon, <1>1, <1>2, <1>4, <2>1 DEF JobsOK, Place
<1>10. QueueTypeOK' /\ QueueOK'
  BY Zenon, <1>1, <1>2, <1>3, <1>4, <1>5, WorkerKeepsQueue DEF QueueTypeOK, Place
<1> QED
  BY Zenon, <1>1, <1>2, <1>4, <1>7, <1>8, <1>9, <1>10

-----------------------------------------------------------------------------
(* Crash, shutdown and restart.                                            *)

\* The records a start leaves: a running task is pending again.
LEMMA ResetMoves ==
  ASSUME QueueTypeOK, tasks' = ResetTasks
  PROVE  /\ tasks' \in [Ids -> Task \cup {NoTask}]
         /\ \A id \in Ids : \/ tasks'[id] = tasks[id]
                            \/ /\ id \in registry /\ tasks[id] # NoTask /\ tasks[id].status = "running"
                               /\ tasks'[id] # NoTask /\ tasks'[id].status = "pending"
                               /\ tasks'[id].checkpoint = tasks[id].checkpoint
<1> DEFINE new(id) == [tasks[id] EXCEPT !.status = "pending"]
<1>1. tasks' = [id \in Ids |-> IF id \in list_tasks /\ tasks[id].status \in {"running"} THEN new(id) ELSE tasks[id]]
  BY DEF ResetTasks, Reset
<1>2. \A id \in Ids : tasks[id] \in Task \cup {NoTask}
  BY Zenon DEF QueueTypeOK
<1>3. ASSUME NEW id \in Ids, tasks[id] # NoTask
      PROVE  new(id) \in Task /\ new(id) # NoTask /\ new(id).status = "pending" /\ new(id).checkpoint = tasks[id].checkpoint
  <2>1. tasks[id] \in Task
    BY Zenon, <1>2, <1>3
  <2> QED
    BY <2>1, StatusTyped, StatusNames
<1> HIDE DEF new
<1>4. \A id \in Ids : tasks'[id] = IF id \in list_tasks /\ tasks[id].status \in {"running"} THEN new(id) ELSE tasks[id]
  BY Zenon, <1>1
<1>5. \A id \in list_tasks : id \in registry /\ tasks[id] # NoTask
  BY Zenon DEF list_tasks
<1>6. \A id \in Ids : tasks'[id] \in Task \cup {NoTask}
  BY Zenon, <1>2, <1>3, <1>4, <1>5
<1> QED
  BY ZenonT(30), <1>1, <1>3, <1>4, <1>5, <1>6

LEMMA RestartKeepsQueue ==
  ASSUME QueueInv, Restart, disk' \in [Fields -> Index \cup {NoIndex}], faults' \in Nat, blame \subseteq blame'
  PROVE  QueueInv'
<1> USE DEF QueueInv
<1>1. /\ worker' = IdleWorker /\ client' = [c \in Clients |-> IdleClient] /\ tasks' = ResetTasks
      /\ cancelled' = {} /\ lock' = Nobody /\ stopping' = FALSE /\ indexed' \subseteq indexed
      /\ UNCHANGED <<content, clock, config, registry, nextId, requests, accepted>>
      /\ cachedConfig' = NotCached /\ indexes' = [k \in Fields |-> NoIndex]
      /\ dirtyKeys' = {} /\ deletedKeys' = {} /\ pending' = FALSE /\ cleanup' = {}
      /\ job' = [t \in Threads |-> IdleJob] /\ flush' = [t \in Threads |-> NoFlush]
  BY Zenon DEF Restart, LoseMemory
<1>2. client' \in [Clients -> Client] /\ \A c \in Clients : client'[c] = IdleClient
  BY Zenon, <1>1, IdleRecords
<1>3. IndexTypeOK'
  BY Zenon, <1>1, IdleTyped DEF IndexTypeOK
<1>4. FlushesOK' /\ JobsOK'
  <2>1. \A t \in Threads : flush'[t] = NoFlush /\ job'[t] = IdleJob
    BY Zenon, <1>1
  <2>2. FlushesOK'
    BY <2>1 DEF FlushesOK, FlushOK, NoFlush
  <2>3. "worker" \in Threads /\ "timer" \in Threads /\ IdleJob.field = NoField
    BY Zenon DEF Threads, IdleJob
  <2> QED
    BY Zenon, <2>1, <2>2, <2>3 DEF JobsOK, JobOK
<1>5. QueueTypeOK'
  BY Zenon, <1>1, <1>2, IdleRecords, ResetMoves DEF QueueTypeOK
<1>6. QueueOK'
  <2> USE DEF QueueOK
  <2>1. IdsInOrder'
    <3>1. \A id \in Ids : tasks[id] = NoTask => tasks'[id] = NoTask
      BY Zenon, <1>1, ResetMoves
    <3> QED
      BY Zenon, <1>1, <1>2, <3>1, IdleRecords DEF IdsInOrder, OnTask
  <2>2. ClientsOK'
    BY Zenon, <1>2, IdleRecords DEF ClientsOK, ClientOK
  <2>3. WorkerOK(worker)'
    BY Zenon, <1>1, IdleRecords DEF WorkerOK
  <2>4. LockOK'
    BY Zenon, <1>1, <1>2, IdleRecords, TaskQueueAssumption DEF LockOK
  <2>5. RegistryOK'
    <3>1. \A id \in Ids : IsActive(id)' => IsActive(id)
      BY Zenon, <1>1, ResetMoves DEF IsActive, Active
    <3> QED
      BY Zenon, <1>1, <1>2, <3>1, IdleRecords DEF RegistryOK, OnTask, QueueTypeOK
  <2> QED
    BY Zenon, <2>1, <2>2, <2>3, <2>4, <2>5
<1> QED
  BY Zenon, <1>3, <1>4, <1>5, <1>6

LEMMA StopsKeepQueue ==
  ASSUME QueueInv, Crash \/ Shutdown \/ ShutdownDone
  PROVE  QueueInv'
<1>1. CASE Crash
  <2>1. Restart /\ disk' = disk /\ faults' = faults - 1 /\ faults > 0 /\ blame \subseteq blame'
    BY Zenon, <1>1 DEF Crash
  <2>2. faults' \in Nat
    BY <2>1 DEF QueueInv, IndexTypeOK
  <2> QED
    BY Zenon, <2>1, <2>2, RestartKeepsQueue DEF QueueInv, IndexTypeOK
<1>2. CASE Shutdown
  <2>1. /\ UNCHANGED <<content, clock, config, cachedConfig, indexes, dirtyKeys, deletedKeys, pending, disk, job, flush, cleanup>>
        /\ UNCHANGED <<blame, registry, tasks, nextId, cancelled, lock, worker, client, requests, accepted, indexed>>
        /\ faults' = faults - 1 /\ faults > 0 /\ stopping' = TRUE
    BY Zenon, <1>2 DEF Shutdown, bufferVars
  <2>2. faults' \in Nat
    BY <2>1 DEF QueueInv, IndexTypeOK
  <2>3. IndexTypeOK'
    BY Zenon, <2>1, <2>2 DEF QueueInv, IndexTypeOK
  <2>4. FlushesOK' /\ JobsOK'
    BY Zenon, <2>1 DEF QueueInv, FlushesOK, FlushOK, JobsOK, JobOK, Flushing
  <2>5. QueueTypeOK' /\ QueueOK'
    BY Zenon, <2>1, QuietQueue DEF QueueInv, QueueTypeOK
  <2> QED
    BY Zenon, <2>3, <2>4, <2>5 DEF QueueInv
<1>3. CASE ShutdownDone
  <2>1. Restart /\ disk' = [k \in Fields |-> View(k)] /\ UNCHANGED <<faults, blame>>
    BY Zenon, <1>3 DEF ShutdownDone
  <2>2. \A k \in Fields : View(k) \in Index \cup {NoIndex}
    BY Zenon DEF QueueInv, IndexTypeOK, View
  <2> QED
    BY Zenon, <2>1, <2>2, RestartKeepsQueue DEF QueueInv, IndexTypeOK
<1> QED
  BY Zenon, <1>1, <1>2, <1>3

-----------------------------------------------------------------------------
(* The theorems on the queue.                                              *)

LEMMA QueueInit ==
  Init => QueueInv
<1> SUFFICES ASSUME Init PROVE QueueInv
  OBVIOUS
<1>0. 0 \in Versions /\ 1 \in Versions
  BY IndexBufferAssumption DEF Versions
<1>1. IndexTypeOK
  <2>1. content \in [Files -> Versions]
    BY Zenon, <1>0 DEF Init, IndexInit
  <2>2. disk \in [Fields -> Index \cup {NoIndex}]
    BY Zenon, <2>1 DEF Init, IndexInit, Index
  <2>3. faults \in Nat
    BY Zenon, TaskQueueAssumption DEF Init, RequestKinds
  <2> QED
    BY Zenon, <1>0, <2>1, <2>2, <2>3, IdleTyped, IndexBufferAssumption DEF Init, IndexInit, IndexTypeOK
<1>2. \A t \in Threads : flush[t] = NoFlush /\ job[t] = IdleJob
  BY Zenon DEF Init, IndexInit
<1>3. FlushesOK
  BY <1>2 DEF FlushesOK, FlushOK, NoFlush
<1>4. JobsOK
  <2>1. "worker" \in Threads /\ "timer" \in Threads /\ IdleJob.field = NoField
    BY Zenon DEF Threads, IdleJob
  <2> QED
    BY Zenon, <1>2, <2>1 DEF JobsOK, JobOK
<1>5. client \in [Clients -> Client] /\ \A c \in Clients : client[c] = IdleClient
  BY Zenon, IdleRecords DEF Init
<1>6. QueueTypeOK
  <2>1. nextId \in 1..(MaxTasks + 1)
    BY TaskQueueAssumption DEF Init
  <2>2. tasks \in [Ids -> Task \cup {NoTask}] /\ requests \in [RequestKinds -> Nat]
    BY Zenon, TaskQueueAssumption DEF Init
  <2> QED
    BY Zenon, <1>5, <2>1, <2>2, IdleRecords DEF Init, QueueTypeOK
<1>7. QueueOK
  BY Zenon, <1>5, IdleRecords, TaskQueueAssumption
     DEF Init, QueueOK, IdsInOrder, OnTask, ClientsOK, LockOK, RegistryOK
<1> QED
  BY <1>1, <1>3, <1>4, <1>6, <1>7 DEF QueueInv

LEMMA QueueStutter ==
  ASSUME QueueInv, UNCHANGED vars
  PROVE  QueueInv'
<1> USE DEF QueueInv, vars, indexVars, taskVars
<1>1. IndexTypeOK' /\ FlushesOK' /\ JobsOK'
  BY Zenon, QuietBuffer DEF IndexTypeOK
<1>2. QueueTypeOK' /\ QueueOK'
  BY Zenon, QuietQueue DEF QueueTypeOK
<1> QED
  BY Zenon, <1>1, <1>2

LEMMA QueueStep ==
  ASSUME QueueInv, [Next]_vars
  PROVE  QueueInv'
<1>1. CASE UNCHANGED vars
  BY Zenon, <1>1, QueueStutter
<1>2. ASSUME NEW c \in Clients, ClientStep(c) \/ RequestStep(c)
      PROVE  QueueInv'
  BY Zenon, <1>2, FilesKeepQueue, RequestsKeepQueue, CancelReadKeepsQueue, CancelStoreKeepsQueue, EnqueueStoreKeepsQueue,
     EnqueueRegisterKeepsQueue, EvictKeepsQueue DEF ClientStep, RequestStep
<1>3. ASSUME NEW t \in Threads, BufferStep(t)
      PROVE  QueueInv'
  BY <1>3, BufferKeepsQueue
<1>4. CASE Cleaner
  BY Zenon, <1>4, CleanerKeepsQueue
<1>5. CASE WorkerStep
  <2>1. CASE Dequeue \/ Claim \/ ExecuteOther \/ Retire \/ Retired \/ ListFiles \/ IndexFile \/ WorkerUpdate
    BY Zenon, <2>1, DequeueKeepsQueue, ClaimKeepsQueue, ExecuteOtherKeepsQueue, RetireKeepsQueue, RetiredKeepsQueue,
       ListFilesKeepsQueue, IndexFileKeepsQueue, WorkerUpdateKeepsQueue
  <2>2. CASE WorkerUpdateFails \/ NoFlushAfterFile \/ Flushed \/ FinalFlushed \/ CheckpointRead \/ CheckpointStore
    BY Zenon, <2>2, WorkerUpdateFailsKeepsQueue, NoFlushAfterFileKeepsQueue, FlushedKeepsQueue, CheckpointReadKeepsQueue,
       CheckpointStoreKeepsQueue
  <2>3. CASE Finish \/ PruneLoad \/ PruneSave
    BY Zenon, <2>3, FinishKeepsQueue, PruneLoadKeepsQueue, PruneSaveKeepsQueue
  <2>4. CASE RetireFlush
    <3>1. worker.pc = "retire_flush" /\ job["worker"] = IdleJob /\ ForcedFlush("retired")
      BY Zenon, <2>4 DEF RetireFlush, At, QueueInv, JobsOK
    <3> QED
      BY Zenon, <3>1, ForcedFlushKeepsQueue
  <2>5. CASE FlushAfterFile
    <3>1. worker.pc = "indexing" /\ job["worker"] = IdleJob /\ ForcedFlush("flushed")
      BY Zenon, <2>5 DEF FlushAfterFile, At
    <3> QED
      BY Zenon, <3>1, ForcedFlushKeepsQueue
  <2>6. CASE FinalFlush
    <3>1. worker.pc = "final_flush" /\ job["worker"] = IdleJob /\ ForcedFlush("final_flushed")
      BY Zenon, <2>6 DEF FinalFlush, At, QueueInv, JobsOK
    <3> QED
      BY Zenon, <3>1, ForcedFlushKeepsQueue
  <2> QED
    BY Zenon, <1>5, <2>1, <2>2, <2>3, <2>4, <2>5, <2>6 DEF WorkerStep
<1>6. CASE Crash \/ Shutdown \/ ShutdownDone
  BY Zenon, <1>6, StopsKeepQueue
<1> QED
  BY Zenon, <1>1, <1>2, <1>3, <1>4, <1>5, <1>6 DEF Next

\* Every record, thread and counter of the queue, its worker and the index
\* buffer keeps its type, whatever clients, failed flushes, crashes and
\* shutdowns do (task_queue.rs, task_worker.rs, index_store.rs).
THEOREM QueueTyped ==
  Spec => []TypeOK
<1>1. QueueInv => TypeOK
  BY Zenon DEF QueueInv, QueueTypeOK, TypeOK
<1> QED
  BY <1>1, QueueInit, QueueStep, PTL DEF Spec

\* A task whose enqueue returned stays in the registry until it has ended: the
\* enqueue lock lets no enqueue save a registry that misses an id, and only
\* prune_completed, which takes no lock, can drop one (task_queue.rs, enqueue,
\* dequeue_next and prune_completed).
THEOREM EnqueuedStaysRegistered ==
  Spec => []NeverLost
<1>1. QueueInv => NeverLost
  BY Zenon DEF QueueInv, QueueOK, RegistryOK, NeverLost
<1> QED
  BY <1>1, QueueInit, QueueStep, PTL DEF Spec

\* The status of an ended task leaves the terminal ones only through the worker
\* still on the task, storing a checkpoint it read before, or through a claim
\* that overwrites a cancellation (task_queue.rs, update_status; start.rs puts
\* back running tasks only).
THEOREM EndedTasksStayEnded ==
  Spec => EndedStaysEnded
<1>1. ASSUME QueueInv, [Next]_vars, ~UNCHANGED vars, NEW id \in Ids,
             tasks[id] # NoTask, tasks[id].status \in Terminal, tasks'[id] # NoTask
      PROVE  \/ tasks'[id].status \in Terminal
             \/ worker.id = id /\ (worker.pc = "checkpoint_store" \/ "claim" \in blame')
  <2> USE <1>1
  <2>1. CASE tasks' = tasks
    BY Zenon, <2>1
  <2>2. ASSUME NEW c \in Clients, CancelStore(c)
        PROVE  tasks'[id].status \in Terminal
    BY Zenon, <2>2, CancelStoreKeepsQueue, StatusNames DEF Stored
  <2>3. ASSUME NEW c \in Clients, EnqueueStore(c)
        PROVE  tasks'[id] = tasks[id]
    BY Zenon, <2>3, EnqueueStoreKeepsQueue DEF Stored
  <2>4. CASE Claim
    <3>1. PICK task \in Task : Stored(worker.id, task)
      BY Zenon, <2>4, ClaimKeepsQueue
    <3>2. tasks[id].status # "pending"
      BY Zenon DEF Terminal
    <3> QED
      BY Zenon, <2>4, <3>1, <3>2 DEF Claim, Stored
  <2>5. CASE CheckpointStore
    BY Zenon, <2>5, CheckpointStoreKeepsQueue DEF Stored
  <2>6. CASE Finish
    BY ZenonT(30), <2>6, FinishKeepsQueue, StatusNames DEF Stored
  <2>7. CASE PruneSave
    BY Zenon, <2>7, PruneSaveKeepsQueue
  <2>8. CASE Crash \/ ShutdownDone
    <3>1. tasks' = ResetTasks
      BY Zenon, <2>8 DEF Crash, ShutdownDone, Restart
    <3>2. tasks[id].status # "running"
      BY Zenon DEF Terminal
    <3> QED
      BY Zenon, <3>1, <3>2, ResetMoves DEF QueueInv
  <2>9. ASSUME NEW c \in Clients, ClientStep(c) \/ CancelRead(c) \/ EnqueueRegister(c) \/ EvictCaches(c)
        PROVE  tasks' = tasks
    BY Zenon, <2>9 DEF ClientStep, StoreFile, DeleteFile, PutConfig, CancelTask, TriggerTask, CancelRead, EnqueueRegister, EvictCaches
  <2>10. ASSUME (\E t \in Threads : BufferStep(t)) \/ Cleaner \/ Shutdown
         PROVE  tasks' = tasks
    BY Zenon, <2>10 DEF BufferStep, Cleaner, Shutdown, taskVars
  <2>11. ASSUME WorkerStep
         PROVE  tasks' = tasks \/ Claim \/ CheckpointStore \/ Finish \/ PruneSave
    BY Zenon, <2>11 DEF WorkerStep, Dequeue, ExecuteOther, Retire, RetireFlush, ForcedFlush, Retired, FlushEnded, ListFiles,
                 IndexFile, WorkerUpdate, WorkerUpdateFails, FlushAfterFile, NoFlushAfterFile, Flushed, CheckpointRead,
                 FinalFlush, FinalFlushed, PruneLoad
  <2>12. Next
    BY Zenon
  <2>13. CASE \E c \in Clients : ClientStep(c) \/ RequestStep(c)
    BY ZenonT(30), <2>1, <2>2, <2>3, <2>9, <2>13 DEF RequestStep
  <2> QED
    BY Zenon, <2>1, <2>4, <2>5, <2>6, <2>7, <2>8, <2>10, <2>11, <2>12, <2>13 DEF Next
<1>2. QueueInv /\ [Next]_vars =>
        [\A id \in Ids :
           tasks[id] # NoTask /\ tasks[id].status \in Terminal /\ tasks'[id] # NoTask =>
             \/ tasks'[id].status \in Terminal
             \/ worker.id = id /\ (worker.pc = "checkpoint_store" \/ "claim" \in blame')]_vars
  BY Zenon, <1>1
<1> QED
  BY <1>2, QueueInit, QueueStep, PTL DEF Spec, EndedStaysEnded
=============================================================================
