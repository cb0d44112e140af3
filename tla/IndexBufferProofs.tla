--------------------------- MODULE IndexBufferProofs ---------------------------
(***************************************************************************)
(* What one step of a thread does to the index write buffer, for any files,*)
(* fields and threads: how it moves its job, what its flush takes and what *)
(* it writes, and that the state stays of its type.                        *)
(***************************************************************************)
EXTENDS IndexBuffer, TLAPS

\* While a job is on a field its thread writes no flush.
JobOK(t) ==
  /\ job[t].field # NoField => ~Flushing(t)
  /\ job[t].field # NoField /\ job[t].op = "update" => job[t].value # 0
FlushOK(t) ==
  /\ flush[t].unsaved \subseteq DOMAIN flush[t].saves
  /\ flush[t].unsaved \cap flush[t].undeleted = {}
  /\ flush[t].undeleted \subseteq flush[t].deletes
FlushesOK == \A t \in Threads : FlushOK(t)

-----------------------------------------------------------------------------
(* Types.                                                                  *)

LEMMA IdleTyped ==
  NoFlush \in Flush /\ FailedFlush \in Flush
<1>1. [k \in {} |-> EmptyIndex] \in Snapshots
  <2>1. [k \in {} |-> EmptyIndex] \in [{} -> Index] /\ {} \in SUBSET Fields
    OBVIOUS
  <2> QED
    BY <2>1 DEF Snapshots
<1>2. NoFlush \in Flush
  BY <1>1 DEF NoFlush, Flush
<1> QED
  BY Zenon, <1>2 DEF FailedFlush, Flush

\* The job once a field is done.
LEMMA WithoutTyped ==
  ASSUME NEW j \in Job, NEW k
  PROVE  \/ Without(k, j) = IdleJob
         \/ /\ Without(k, j) \in Job /\ Without(k, j).field = NoField
            /\ Without(k, j).op = j.op /\ Without(k, j).file = j.file /\ Without(k, j).data = j.data
<1>1. CASE j.todo = {k}
  BY <1>1 DEF Without
<1>2. CASE j.todo # {k}
  <2> DEFINE left == j.todo \ {k}
  <2>1. left \in SUBSET Fields /\ 0 \in Versions
    BY IndexBufferAssumption DEF Job, Versions
  <2>2. Without(k, j) = [j EXCEPT !.todo = left, !.field = NoField, !.value = 0, !.held = NoIndex]
    BY <1>2 DEF Without
  <2> HIDE DEF left
  <2> QED
    BY Zenon, <2>1, <2>2 DEF Job
<1> QED
  BY <1>1, <1>2

\* Thread t takes the snapshot of a flush; the dirty keys are all written when
\* they are cached, and the buffer is left with nothing to write.
Taken(t, dirty, deleted) ==
  /\ flush' \in [Threads -> Flush] /\ \A u \in Threads \ {t} : flush'[u] = flush[u]
  /\ flush'[t].unsaved = {k \in dirty \ deleted : indexes'[k] # NoIndex}
  /\ flush'[t].saves = [k \in flush'[t].unsaved |-> indexes'[k]]
  /\ flush'[t].deletes = deleted /\ flush'[t].undeleted = deleted /\ flush'[t].failed = FALSE
  /\ dirtyKeys' = {} /\ deletedKeys' = {} /\ pending' = FALSE
  /\ blame' = IF \E other \in Threads \ {t} : Flushing(other) THEN blame \cup {"flusher"} ELSE blame

LEMMA SnapshotTaken ==
  ASSUME IndexTypeOK, NEW t \in Threads, NEW cached \in [Fields -> Index \cup {NoIndex}], indexes' = cached,
         NEW dirty \in SUBSET Fields, NEW deleted \in SUBSET Fields, snapshot_flush(t, cached, dirty, deleted)
  PROVE  Taken(t, dirty, deleted)
<1> DEFINE saved == {k \in dirty \ deleted : cached[k] # NoIndex}
           new == [saves |-> [k \in saved |-> cached[k]], deletes |-> deleted, unsaved |-> saved,
                   undeleted |-> deleted, failed |-> FALSE]
<1>1. flush' = [flush EXCEPT ![t] = new] /\ dirtyKeys' = {} /\ deletedKeys' = {} /\ pending' = FALSE
  BY Zenon DEF snapshot_flush
<1>2. saved \in SUBSET Fields /\ \A k \in saved : cached[k] \in Index
  OBVIOUS
<1>3. [k \in saved |-> cached[k]] \in [saved -> Index]
  BY <1>2
<1>4. [k \in saved |-> cached[k]] \in Snapshots
  BY Zenon, <1>2, <1>3 DEF Snapshots
<1> HIDE DEF saved
<1>5. new \in Flush
  BY <1>2, <1>4 DEF Flush
<1>6. new.unsaved = saved /\ new.saves = [k \in saved |-> cached[k]] /\ new.deletes = deleted
        /\ new.undeleted = deleted /\ new.failed = FALSE
  OBVIOUS
<1> HIDE DEF new
<1>7. flush' \in [Threads -> Flush] /\ flush'[t] = new /\ \A u \in Threads \ {t} : flush'[u] = flush[u]
  BY <1>1, <1>5 DEF IndexTypeOK
<1>8. blame' = IF \E other \in Threads \ {t} : Flushing(other) THEN blame \cup {"flusher"} ELSE blame
  BY DEF snapshot_flush
<1> QED
  BY <1>1, <1>6, <1>7, <1>8 DEF saved, Taken

\* The job an update or a reindex of a file starts.
LEMMA StartTyped ==
  ASSUME IndexTypeOK, NEW t \in Threads, NEW f \in Files, NEW fields \in SUBSET Fields, NEW data \in Versions,
         StartUpdate(t, f, fields, data)
  PROVE  /\ job' \in [Threads -> Job \cup {IdleJob}] /\ \A u \in Threads \ {t} : job'[u] = job[u]
         /\ job'[t] = IdleJob \/ (/\ job'[t].op = "update" /\ job'[t].file = f /\ job'[t].data = data
                                  /\ job'[t].field = NoField)
<1> DEFINE new == [IdleJob EXCEPT !.op = "update", !.file = f, !.data = data, !.todo = load_config \cap fields]
<1>1. new \in Job /\ new.op = "update" /\ new.file = f /\ new.data = data /\ new.field = NoField
  <2>1. load_config \cap fields \in SUBSET Fields /\ 0 \in Versions
    BY IndexBufferAssumption DEF Versions
  <2> QED
    BY Zenon, <2>1 DEF Job, IdleJob
<1>2. job' = [job EXCEPT ![t] = IF load_config \cap fields = {} THEN IdleJob ELSE new]
  BY DEF StartUpdate
<1> HIDE DEF new
<1> QED
  BY <1>1, <1>2, IdleTyped DEF IndexTypeOK

LEMMA ConfigTyped ==
  ASSUME IndexTypeOK
  PROVE  load_config \in SUBSET Fields
BY DEF load_config, IndexTypeOK

\* Putting a version into an index.
LEMMA IndexTyped ==
  ASSUME NEW base \in Index, NEW f \in Files, NEW v \in Versions
  PROVE  [base EXCEPT ![f] = v] \in Index
BY DEF Index

LEMMA EmptyTyped ==
  EmptyIndex \in Index
BY IndexBufferAssumption DEF EmptyIndex, Index, Versions

\* The steps of a job.  What they leave alone besides:
indexRest == <<content, clock, config, cachedConfig, cleanup>>

\* The job of thread t has moved on within its file, or is done.
JobGoesOn(t) ==
  /\ job' \in [Threads -> Job \cup {IdleJob}] /\ \A u \in Threads \ {t} : job'[u] = job[u]
  /\ job[t] \in Job
  /\ \/ job'[t] = IdleJob
     \/ /\ job'[t] \in Job
        /\ job'[t].op = job[t].op /\ job'[t].file = job[t].file /\ job'[t].data = job[t].data

LEMMA LoadMoves ==
  ASSUME IndexTypeOK, NEW t \in Threads, LoadForUpdate(t) \/ LoadForRemove(t)
  PROVE  /\ JobGoesOn(t) /\ ~Flushing(t)
         /\ UNCHANGED <<indexRest, bufferVars, disk, flush, faults, blame>>
         /\ job'[t].field # NoField =>
              /\ job'[t].field \in Fields
              /\ job'[t].held = disk[job'[t].field] \/ job'[t].held = NoIndex
              /\ indexes[job'[t].field] = NoIndex /\ job'[t].field \notin deletedKeys =>
                   job'[t].held = disk[job'[t].field]
              /\ job'[t].op = "update" =>
                   /\ job'[t].value # 0
                   /\ job'[t].value = content[job[t].file] \/ job'[t].value = job[t].data
<1> USE DEF indexRest, bufferVars
<1>1. job[t] \in Job
  <2>1. job[t].op # IdleJob.op
    BY Zenon DEF LoadForUpdate, LoadForRemove, IdleJob
  <2> QED
    BY <2>1 DEF IndexTypeOK
<1>2. job[t].file \in Files /\ job[t].data \in Versions /\ job[t].todo \in SUBSET Fields
  BY <1>1 DEF Job
<1>3. content[job[t].file] \in Versions
  BY <1>2 DEF IndexTypeOK
<1>4. CASE LoadForUpdate(t)
  <2>1. PICK k \in job[t].todo :
          \E v \in {IF k \in MetaFields THEN content[job[t].file] ELSE job[t].data} :
            job' = [job EXCEPT ![t] =
                   IF v = 0 THEN Without(k, @)
                   ELSE [@ EXCEPT !.field = k, !.value = v,
                                  !.held = IF indexes[k] = NoIndex THEN disk[k] ELSE NoIndex]]
    BY Zenon, <1>4 DEF LoadForUpdate
  <2>2. PICK v \in {content[job[t].file], job[t].data} :
          job' = [job EXCEPT ![t] =
                   IF v = 0 THEN Without(k, @)
                   ELSE [@ EXCEPT !.field = k, !.value = v,
                                  !.held = IF indexes[k] = NoIndex THEN disk[k] ELSE NoIndex]]
    BY Zenon, <2>1
  <2>3. PICK h : h = IF indexes[k] = NoIndex THEN disk[k] ELSE NoIndex
    OBVIOUS
  <2>4. k \in Fields /\ v \in Versions /\ h \in Index \cup {NoIndex}
    BY <1>2, <1>3, <2>3 DEF IndexTypeOK
  <2>5. CASE v = 0
    <3>1. job' = [job EXCEPT ![t] = Without(k, job[t])]
      BY <2>2, <2>5
    <3>2. job'[t] = Without(k, job[t]) /\ \A u \in Threads \ {t} : job'[u] = job[u]
      BY <3>1 DEF IndexTypeOK
    <3>3. job' \in [Threads -> Job \cup {IdleJob}]
      BY <1>1, <3>1, WithoutTyped DEF IndexTypeOK
    <3>4. job'[t].field = NoField
      BY <1>1, <3>2, WithoutTyped DEF IdleJob
    <3>5. JobGoesOn(t)
      BY <1>1, <3>2, <3>3, WithoutTyped DEF JobGoesOn
    <3> QED
      BY Zenon, <1>4, <3>4, <3>5 DEF LoadForUpdate
  <2>6. CASE v # 0
    <3> DEFINE new == [job[t] EXCEPT !.field = k, !.value = v, !.held = h]
    <3>1. job' = [job EXCEPT ![t] = new]
      BY <2>2, <2>3, <2>6
    <3>2. new \in Job /\ new.op = job[t].op /\ new.file = job[t].file /\ new.data = job[t].data
            /\ new.field = k /\ new.value = v /\ new.held = h
      BY Zenon, <1>1, <2>4 DEF Job
    <3> HIDE DEF new
    <3>3. job'[t] = new /\ (\A u \in Threads \ {t} : job'[u] = job[u]) /\ job' \in [Threads -> Job \cup {IdleJob}]
      BY <3>1, <3>2 DEF IndexTypeOK
    <3> QED
      BY ZenonT(30), <1>1, <1>4, <2>2, <2>3, <2>4, <2>6, <3>2, <3>3 DEF JobGoesOn, LoadForUpdate
  <2> QED
    BY Zenon, <2>5, <2>6
<1>5. CASE LoadForRemove(t)
  <2>1. PICK k \in job[t].todo :
          job' = [job EXCEPT ![t].field = k,
                             ![t].held = IF indexes[k] = NoIndex /\ k \notin deletedKeys THEN disk[k] ELSE NoIndex]
    BY Zenon, <1>5 DEF LoadForRemove
  <2>2. PICK h : h = IF indexes[k] = NoIndex /\ k \notin deletedKeys THEN disk[k] ELSE NoIndex
    OBVIOUS
  <2>3. k \in Fields /\ h \in Index \cup {NoIndex}
    BY <1>2, <2>2 DEF IndexTypeOK
  <2> DEFINE new == [job[t] EXCEPT !.field = k, !.held = h]
  <2>4. job' = [job EXCEPT ![t] = new]
    BY Zenon, <2>1, <2>2 DEF IndexTypeOK
  <2>5. new \in Job /\ new.op = job[t].op /\ new.file = job[t].file /\ new.data = job[t].data
          /\ new.field = k /\ new.held = h
    BY Zenon, <1>1, <2>3 DEF Job
  <2> HIDE DEF new
  <2>6. job'[t] = new /\ (\A u \in Threads \ {t} : job'[u] = job[u]) /\ job' \in [Threads -> Job \cup {IdleJob}]
    BY <2>4, <2>5 DEF IndexTypeOK
  <2>7. job[t].op = "remove"
    BY <1>5 DEF LoadForRemove
  <2> QED
    BY Zenon, <1>1, <1>5, <2>2, <2>3, <2>5, <2>6, <2>7 DEF JobGoesOn, LoadForRemove
<1> QED
  BY Zenon, <1>4, <1>5

\* The index of key k after an update of file f by thread t, and after a
\* removal: the other entries are those of the cached index or, when none is
\* cached, of the one the job has read.
Entered(t, k, f) ==
  /\ indexes'[k] \in Index /\ indexes'[k][f] = job[t].value
  /\ \A g \in Files \ {f} :
       /\ indexes[k] # NoIndex => indexes'[k][g] = indexes[k][g]
       /\ indexes[k] = NoIndex /\ job[t].held # NoIndex => indexes'[k][g] = job[t].held[g]
Removed(t, k, f) ==
  \/ indexes'[k] = indexes[k]
  \/ /\ indexes'[k] \in Index
     /\ \A g \in Files \ {f} :
          /\ indexes[k] # NoIndex => indexes'[k][g] = indexes[k][g]
          /\ indexes[k] = NoIndex => job[t].held # NoIndex /\ indexes'[k][g] = job[t].held[g]

\* An update puts the value into the cached index, or else into the one read.
LEMMA UpdateMoves ==
  ASSUME IndexTypeOK, NEW t \in Threads, update_index(t),
         NEW k, k = job[t].field, NEW f, f = job[t].file
  PROVE  /\ JobGoesOn(t) /\ job'[t].field = NoField
         /\ job[t].op = "update" /\ k \in Fields /\ f \in Files /\ job[t].value \in Versions
         /\ indexes' \in [Fields -> Index \cup {NoIndex}]
         /\ \A other \in Fields \ {k} : indexes'[other] = indexes[other]
         /\ indexes'[k] \in Index /\ Entered(t, k, f)
         /\ \/ /\ deletedKeys' = deletedKeys \ {k} /\ dirtyKeys' = dirtyKeys \cup {k} /\ pending' = TRUE
               /\ UNCHANGED <<flush, blame>>
            \/ Taken(t, dirtyKeys \cup {k}, deletedKeys \ {k})
<1>1. job[t] \in Job /\ job[t].op = "update"
  <2>1. job[t].op = "update" /\ job[t].op # IdleJob.op
    BY DEF update_index, IdleJob
  <2> QED
    BY <2>1 DEF IndexTypeOK
<1>2. k \in Fields /\ f \in Files /\ job[t].value \in Versions /\ job[t].held \in Index \cup {NoIndex}
  BY <1>1 DEF Job, update_index
<1>3. PICK base : base = IF indexes[k] # NoIndex THEN indexes[k]
                         ELSE IF job[t].held # NoIndex THEN job[t].held ELSE EmptyIndex
  OBVIOUS
<1>4. /\ base \in Index
      /\ indexes[k] # NoIndex => base = indexes[k]
      /\ indexes[k] = NoIndex /\ job[t].held # NoIndex => base = job[t].held
  <2>1. CASE indexes[k] # NoIndex
    BY <1>2, <1>3, <2>1 DEF IndexTypeOK
  <2>2. CASE indexes[k] = NoIndex /\ job[t].held # NoIndex
    BY <1>2, <1>3, <2>2
  <2>3. CASE indexes[k] = NoIndex /\ job[t].held = NoIndex
    BY <1>3, <2>3, EmptyTyped
  <2> QED
    BY Zenon, <2>1, <2>2, <2>3
<1> DEFINE new == [base EXCEPT ![f] = job[t].value]
<1>5. new \in Index /\ new[f] = job[t].value /\ \A g \in Files \ {f} : new[g] = base[g]
  BY <1>2, <1>4 DEF Index
<1>6. indexes' = [indexes EXCEPT ![k] = new] /\ job' = [job EXCEPT ![t] = Without(k, job[t])]
  BY Zenon, <1>3 DEF update_index
<1>7. \/ /\ deletedKeys' = deletedKeys \ {k} /\ dirtyKeys' = dirtyKeys \cup {k} /\ pending' = TRUE
         /\ UNCHANGED <<flush, blame>>
      \/ snapshot_flush(t, indexes', dirtyKeys \cup {k}, deletedKeys \ {k})
  BY Zenon, <1>3 DEF update_index
<1> HIDE DEF new
<1>8. /\ indexes' \in [Fields -> Index \cup {NoIndex}] /\ indexes'[k] = new
      /\ \A other \in Fields \ {k} : indexes'[other] = indexes[other]
  BY <1>2, <1>5, <1>6 DEF IndexTypeOK
<1>9. dirtyKeys \cup {k} \in SUBSET Fields /\ deletedKeys \ {k} \in SUBSET Fields
  BY <1>2 DEF IndexTypeOK
<1>10. snapshot_flush(t, indexes', dirtyKeys \cup {k}, deletedKeys \ {k}) =>
         Taken(t, dirtyKeys \cup {k}, deletedKeys \ {k})
  <2> DEFINE cached == indexes'
             dirty == dirtyKeys \cup {k}
             deleted == deletedKeys \ {k}
  <2>1. cached \in [Fields -> Index \cup {NoIndex}] /\ indexes' = cached
    BY <1>8
  <2>2. dirty \in SUBSET Fields /\ deleted \in SUBSET Fields
    BY <1>9
  <2>3. snapshot_flush(t, cached, dirty, deleted) => Taken(t, dirty, deleted)
    <3> HIDE DEF cached, dirty, deleted
    <3> QED
      BY <2>1, <2>2, SnapshotTaken
  <2> QED
    BY <2>3
<1>11. job'[t] = Without(k, job[t]) /\ (\A u \in Threads \ {t} : job'[u] = job[u])
         /\ job' \in [Threads -> Job \cup {IdleJob}]
  BY <1>1, <1>6, WithoutTyped DEF IndexTypeOK
<1>12. JobGoesOn(t) /\ job'[t].field = NoField
  <2>1. CASE job'[t] = IdleJob
    BY <1>1, <1>11, <2>1 DEF JobGoesOn, IdleJob
  <2>2. CASE job'[t] # IdleJob
    BY <1>1, <1>11, <2>2, WithoutTyped DEF JobGoesOn
  <2> QED
    BY <2>1, <2>2
<1>13. Entered(t, k, f)
  BY Zenon, <1>4, <1>5, <1>8 DEF Entered
<1> QED
  BY Zenon, <1>1, <1>2, <1>5, <1>7, <1>8, <1>10, <1>12, <1>13

\* A removal takes the file's entry out of the index, if there is one.
LEMMA RemoveMoves ==
  ASSUME IndexTypeOK, NEW t \in Threads, remove_file_from_index(t),
         NEW k, k = job[t].field, NEW f, f = job[t].file
  PROVE  /\ JobGoesOn(t) /\ job'[t].field = NoField
         /\ job[t].op = "remove" /\ k \in Fields /\ f \in Files
         /\ indexes' \in [Fields -> Index \cup {NoIndex}]
         /\ \A other \in Fields \ {k} : indexes'[other] = indexes[other]
         /\ indexes'[k] = indexes[k] \/ indexes'[k] \in Index
         /\ Removed(t, k, f)
         /\ \E dirty \in {dirtyKeys, dirtyKeys \cup {k}} :
              /\ dirty # dirtyKeys => indexes'[k] # NoIndex
              /\ \/ /\ dirtyKeys' = dirty /\ pending' \in BOOLEAN
                    /\ pending \/ dirty # dirtyKeys => pending'
                    /\ UNCHANGED <<deletedKeys, flush, blame>>
                 \/ Taken(t, dirty, deletedKeys)
         /\ UNCHANGED <<indexRest, disk, faults>>
<1>1. job[t] \in Job /\ job[t].op = "remove"
  <2>1. job[t].op = "remove" /\ job[t].op # IdleJob.op
    BY Zenon DEF remove_file_from_index, IdleJob
  <2> QED
    BY <2>1 DEF IndexTypeOK
<1>2. k \in Fields /\ f \in Files /\ job[t].held \in Index \cup {NoIndex} /\ 0 \in Versions
  BY <1>1, IndexBufferAssumption DEF Job, remove_file_from_index, Versions
<1>3. PICK base : base = IF k \in deletedKeys THEN NoIndex
                         ELSE IF indexes[k] # NoIndex THEN indexes[k] ELSE job[t].held
  OBVIOUS
<1>4. PICK had \in BOOLEAN : had <=> (base # NoIndex /\ base[f] # 0)
  BY Zenon
<1>5. /\ base \in Index \cup {NoIndex}
      /\ base # NoIndex /\ indexes[k] # NoIndex => base = indexes[k]
      /\ base # NoIndex /\ indexes[k] = NoIndex => base = job[t].held
  BY <1>2, <1>3 DEF IndexTypeOK
<1> DEFINE entry == [base EXCEPT ![f] = 0]
<1> DEFINE dirty == IF had THEN dirtyKeys \cup {k} ELSE dirtyKeys
<1>6. base # NoIndex => entry \in Index /\ \A g \in Files \ {f} : entry[g] = base[g]
  BY <1>2, <1>5 DEF Index
<1>7. /\ indexes' = IF base = NoIndex THEN indexes ELSE [indexes EXCEPT ![k] = entry]
      /\ job' = [job EXCEPT ![t] = Without(k, job[t])]
      /\ \/ /\ dirtyKeys' = dirty /\ pending' = (pending \/ had)
            /\ UNCHANGED <<deletedKeys, flush, blame>>
         \/ snapshot_flush(t, indexes', dirty, deletedKeys)
      /\ UNCHANGED <<indexRest, disk, faults>>
  <2>0. PICK k1 \in {job[t].field} :
        \E base1 \in {IF k1 \in deletedKeys THEN NoIndex
                        ELSE IF indexes[k1] # NoIndex THEN indexes[k1] ELSE job[t].held} :
          \E had1 \in {base1 # NoIndex /\ base1[job[t].file] # 0} :
          \E new \in {IF base1 = NoIndex THEN indexes
                      ELSE [indexes EXCEPT ![k1] = [base1 EXCEPT ![job[t].file] = 0]]} :
          \E dirty1 \in {IF had1 THEN dirtyKeys \cup {k1} ELSE dirtyKeys} :
            /\ indexes' = new
            /\ job' = [job EXCEPT ![t] = Without(k1, @)]
            /\ \/ /\ dirtyKeys' = dirty1
                  /\ pending' = (pending \/ had1)
                  /\ UNCHANGED <<deletedKeys, flush, blame>>
               \/ /\ pending \/ had1
                  /\ snapshot_flush(t, new, dirty1, deletedKeys)
    BY Zenon DEF remove_file_from_index
  <2>1. PICK base1 \in {IF k1 \in deletedKeys THEN NoIndex
                        ELSE IF indexes[k1] # NoIndex THEN indexes[k1] ELSE job[t].held} :
          \E had1 \in {base1 # NoIndex /\ base1[job[t].file] # 0} :
          \E new \in {IF base1 = NoIndex THEN indexes
                      ELSE [indexes EXCEPT ![k1] = [base1 EXCEPT ![job[t].file] = 0]]} :
          \E dirty1 \in {IF had1 THEN dirtyKeys \cup {k1} ELSE dirtyKeys} :
            /\ indexes' = new
            /\ job' = [job EXCEPT ![t] = Without(k1, @)]
            /\ \/ /\ dirtyKeys' = dirty1
                  /\ pending' = (pending \/ had1)
                  /\ UNCHANGED <<deletedKeys, flush, blame>>
               \/ /\ pending \/ had1
                  /\ snapshot_flush(t, new, dirty1, deletedKeys)
    BY Zenon, <2>0
  <2>2. k1 = k /\ base1 = base
    BY Zenon, <1>3, <2>0, <2>1
  <2>3. PICK had1 \in BOOLEAN :
          /\ had1 <=> (base # NoIndex /\ base[f] # 0)
          /\ \E new \in {IF base = NoIndex THEN indexes
                      ELSE [indexes EXCEPT ![k] = [base EXCEPT ![f] = 0]]} :
             \E dirty1 \in {IF had1 THEN dirtyKeys \cup {k} ELSE dirtyKeys} :
            /\ indexes' = new
            /\ job' = [job EXCEPT ![t] = Without(k, @)]
            /\ \/ /\ dirtyKeys' = dirty1
                  /\ pending' = (pending \/ had1)
                  /\ UNCHANGED <<deletedKeys, flush, blame>>
               \/ /\ pending \/ had1
                  /\ snapshot_flush(t, new, dirty1, deletedKeys)
    BY ZenonT(30), <2>1, <2>2
  <2>4. had1 = had
    BY Zenon, <1>4, <2>3
  <2>5. UNCHANGED <<indexRest, disk, faults>>
    BY Zenon DEF remove_file_from_index, indexRest
  <2>6. PICK new : /\ new = IF base = NoIndex THEN indexes ELSE [indexes EXCEPT ![k] = entry]
                   /\ indexes' = new
                   /\ job' = [job EXCEPT ![t] = Without(k, job[t])]
                   /\ \/ /\ dirtyKeys' = dirty /\ pending' = (pending \/ had)
                         /\ UNCHANGED <<deletedKeys, flush, blame>>
                      \/ snapshot_flush(t, new, dirty, deletedKeys)
    BY <2>3, <2>4
  <2>7. snapshot_flush(t, new, dirty, deletedKeys) => snapshot_flush(t, indexes', dirty, deletedKeys)
    BY Zenon, <2>6
  <2> QED
    BY Zenon, <2>5, <2>6, <2>7
<1> HIDE DEF entry
<1>8. /\ indexes' \in [Fields -> Index \cup {NoIndex}]
      /\ \A other \in Fields \ {k} : indexes'[other] = indexes[other]
      /\ IF base = NoIndex THEN indexes'[k] = indexes[k] ELSE indexes'[k] = entry
  BY Zenon, <1>2, <1>6, <1>7 DEF IndexTypeOK
<1>9. dirty \in SUBSET Fields /\ deletedKeys \in SUBSET Fields /\ dirty \in {dirtyKeys, dirtyKeys \cup {k}}
        /\ (dirty # dirtyKeys => had) /\ pending \in BOOLEAN
  BY <1>2, <1>4 DEF IndexTypeOK
<1> HIDE DEF dirty
<1>10. snapshot_flush(t, indexes', dirty, deletedKeys) => Taken(t, dirty, deletedKeys)
  <2> DEFINE cached == indexes'
  <2>1. cached \in [Fields -> Index \cup {NoIndex}] /\ indexes' = cached
    BY <1>8
  <2>2. snapshot_flush(t, cached, dirty, deletedKeys) => Taken(t, dirty, deletedKeys)
    <3> HIDE DEF cached
    <3> QED
      BY <1>9, <2>1, SnapshotTaken
  <2> QED
    BY <2>2
<1>11. job'[t] = Without(k, job[t]) /\ (\A u \in Threads \ {t} : job'[u] = job[u])
         /\ job' \in [Threads -> Job \cup {IdleJob}]
  BY <1>1, <1>7, WithoutTyped DEF IndexTypeOK
<1>12. JobGoesOn(t) /\ job'[t].field = NoField
  <2>1. CASE job'[t] = IdleJob
    BY <1>1, <1>11, <2>1 DEF JobGoesOn, IdleJob
  <2>2. CASE job'[t] # IdleJob
    BY <1>1, <1>11, <2>2, WithoutTyped DEF JobGoesOn
  <2> QED
    BY <2>1, <2>2
<1>13. dirty # dirtyKeys => indexes'[k] # NoIndex
  BY <1>4, <1>6, <1>8, <1>9, IndexBufferAssumption DEF Index, Versions
<1>14. Removed(t, k, f) /\ (indexes'[k] = indexes[k] \/ indexes'[k] \in Index)
  BY Zenon, <1>5, <1>6, <1>8 DEF Removed
<1>15. \/ /\ dirtyKeys' = dirty /\ pending' \in BOOLEAN
          /\ pending \/ dirty # dirtyKeys => pending'
          /\ UNCHANGED <<deletedKeys, flush, blame>>
       \/ Taken(t, dirty, deletedKeys)
  BY <1>4, <1>7, <1>9, <1>10
<1> QED
  BY Zenon, <1>1, <1>2, <1>7, <1>8, <1>9, <1>12, <1>13, <1>14, <1>15

LEMMA SavesTyped ==
  ASSUME NEW s \in Snapshots
  PROVE  DOMAIN s \in SUBSET Fields /\ \A k \in DOMAIN s : s[k] \in Index
<1>1. PICK S \in SUBSET Fields : s \in [S -> Index]
  BY DEF Snapshots
<1> QED
  BY <1>1

\* The flush of t after one of its writes.
WriteStep(t, k) ==
  /\ disk' \in [Fields -> Index \cup {NoIndex}] /\ \A other \in Fields \ {k} : disk'[other] = disk[other]
  /\ flush' \in [Threads -> Flush] /\ \A u \in Threads \ {t} : flush'[u] = flush[u]
  /\ flush'[t].saves = flush[t].saves /\ flush'[t].deletes = flush[t].deletes
  /\ flush'[t].failed = flush[t].failed
  /\ \/ /\ k \in flush[t].unsaved /\ disk'[k] = flush[t].saves[k]
        /\ flush'[t].unsaved = flush[t].unsaved \ {k} /\ flush'[t].undeleted = flush[t].undeleted
     \/ /\ k \in flush[t].undeleted /\ disk'[k] = NoIndex /\ flush[t].unsaved = {}
        /\ flush'[t].unsaved = {} /\ flush'[t].undeleted = flush[t].undeleted \ {k}

LEMMA WriteMoves ==
  ASSUME IndexTypeOK, FlushesOK, NEW t \in Threads, write_flush_snapshot(t)
  PROVE  /\ \E k \in Fields : WriteStep(t, k)
         /\ UNCHANGED <<indexRest, bufferVars, job, faults, blame>>
<1>1. flush[t] \in Flush /\ FlushOK(t)
  BY DEF IndexTypeOK, FlushesOK
<1>2. flush[t].unsaved \in SUBSET Fields /\ flush[t].undeleted \in SUBSET Fields /\ flush[t].saves \in Snapshots
  BY <1>1 DEF Flush
<1>3. ASSUME NEW k \in flush[t].unsaved,
             disk' = [disk EXCEPT ![k] = flush[t].saves[k]],
             flush' = [flush EXCEPT ![t].unsaved = @ \ {k}]
      PROVE  k \in Fields /\ WriteStep(t, k)
  <2> DEFINE left == flush[t].unsaved \ {k}
             new == [flush[t] EXCEPT !.unsaved = left]
  <2>1. left \in SUBSET Fields /\ k \in Fields
    BY <1>2
  <2>2. flush[t].saves[k] \in Index
    BY <1>1, <1>2, SavesTyped DEF FlushOK
  <2>3. flush' = [flush EXCEPT ![t] = new]
    BY <1>3 DEF IndexTypeOK
  <2>4. new \in Flush /\ new.unsaved = left /\ new.undeleted = flush[t].undeleted /\ new.saves = flush[t].saves
          /\ new.deletes = flush[t].deletes /\ new.failed = flush[t].failed
    <3> HIDE DEF left
    <3> QED
      BY <1>1, <2>1 DEF Flush
  <2> HIDE DEF new
  <2>5. flush' \in [Threads -> Flush] /\ flush'[t] = new /\ \A u \in Threads \ {t} : flush'[u] = flush[u]
    BY Zenon, <2>3, <2>4 DEF IndexTypeOK
  <2>6. disk' \in [Fields -> Index \cup {NoIndex}] /\ disk'[k] = flush[t].saves[k]
          /\ \A other \in Fields \ {k} : disk'[other] = disk[other]
    BY <1>3, <2>1, <2>2 DEF IndexTypeOK
  <2> QED
    BY Zenon, <2>1, <2>4, <2>5, <2>6 DEF WriteStep
<1>4. ASSUME NEW k \in flush[t].undeleted, flush[t].unsaved = {},
             disk' = [disk EXCEPT ![k] = NoIndex],
             flush' = [flush EXCEPT ![t].undeleted = @ \ {k}]
      PROVE  k \in Fields /\ WriteStep(t, k)
  <2> DEFINE left == flush[t].undeleted \ {k}
             new == [flush[t] EXCEPT !.undeleted = left]
  <2>1. left \in SUBSET Fields /\ k \in Fields
    BY <1>2
  <2>3. flush' = [flush EXCEPT ![t] = new]
    BY <1>4 DEF IndexTypeOK
  <2>4. new \in Flush /\ new.undeleted = left /\ new.unsaved = flush[t].unsaved /\ new.saves = flush[t].saves
          /\ new.deletes = flush[t].deletes /\ new.failed = flush[t].failed
    <3> HIDE DEF left
    <3> QED
      BY <1>1, <2>1 DEF Flush
  <2> HIDE DEF new
  <2>5. flush' \in [Threads -> Flush] /\ flush'[t] = new /\ \A u \in Threads \ {t} : flush'[u] = flush[u]
    BY <2>3, <2>4 DEF IndexTypeOK
  <2>6. disk' \in [Fields -> Index \cup {NoIndex}] /\ disk'[k] = NoIndex
          /\ \A other \in Fields \ {k} : disk'[other] = disk[other]
    BY <1>4, <2>1 DEF IndexTypeOK
  <2> QED
    BY <1>4, <2>1, <2>4, <2>5, <2>6 DEF WriteStep
<1>5. UNCHANGED <<indexRest, bufferVars, job, faults, blame>>
  BY DEF write_flush_snapshot, indexRest, bufferVars
<1> QED
  BY <1>3, <1>4, <1>5 DEF write_flush_snapshot

\* Thread t gives its flush up, or is done with it.
LEMMA ClearMoves ==
  ASSUME IndexTypeOK, NEW t \in Threads, NEW new \in {NoFlush, FailedFlush}, flush' = [flush EXCEPT ![t] = new]
  PROVE  /\ flush' \in [Threads -> Flush] /\ \A u \in Threads \ {t} : flush'[u] = flush[u]
         /\ flush'[t].unsaved = {} /\ flush'[t].undeleted = {} /\ flush'[t].deletes = {}
         /\ DOMAIN flush'[t].saves = {} /\ flush'[t].failed = new.failed
<1>1. new.unsaved = {} /\ new.undeleted = {} /\ new.deletes = {} /\ DOMAIN new.saves = {} /\ new \in Flush
  <2>1. NoFlush.unsaved = {} /\ NoFlush.undeleted = {} /\ NoFlush.deletes = {} /\ DOMAIN NoFlush.saves = {}
    BY DEF NoFlush
  <2>2. FailedFlush.unsaved = {} /\ FailedFlush.undeleted = {} /\ FailedFlush.deletes = {}
          /\ DOMAIN FailedFlush.saves = {}
    BY <2>1, IdleTyped DEF FailedFlush, Flush
  <2> QED
    BY <2>1, <2>2, IdleTyped
<1>2. flush' \in [Threads -> Flush] /\ flush'[t] = new /\ \A u \in Threads \ {t} : flush'[u] = flush[u]
  BY <1>1 DEF IndexTypeOK
<1> QED
  BY <1>1, <1>2

LEMMA FlushKept ==
  ASSUME FlushesOK, NEW t \in Threads, \A u \in Threads \ {t} : flush'[u] = flush[u], FlushOK(t)'
  PROVE  FlushesOK'
BY DEF FlushesOK, FlushOK

LEMMA TakenKeeps ==
  ASSUME FlushesOK, NEW t \in Threads, NEW dirty, NEW deleted, Taken(t, dirty, deleted)
  PROVE  FlushesOK'
<1>1. FlushOK(t)'
  BY DEF Taken, FlushOK
<1> QED
  BY <1>1, FlushKept DEF Taken

\* Every step of the buffer is typed.
LEMMA TypedUpdate ==
  ASSUME IndexTypeOK, FlushesOK, NEW t \in Threads, update_index(t),
         UNCHANGED <<content, clock, config, cachedConfig, disk, cleanup, faults>>
  PROVE  IndexTypeOK' /\ FlushesOK'
<1> DEFINE k == job[t].field
           f == job[t].file
<1>1. /\ JobGoesOn(t) /\ k \in Fields /\ indexes' \in [Fields -> Index \cup {NoIndex}]
      /\ \/ /\ deletedKeys' = deletedKeys \ {k} /\ dirtyKeys' = dirtyKeys \cup {k} /\ pending' = TRUE
            /\ UNCHANGED <<flush, blame>>
         \/ Taken(t, dirtyKeys \cup {k}, deletedKeys \ {k})
  BY Zenon, UpdateMoves
<1> HIDE DEF k, f
<1>2. FlushesOK'
  BY Zenon, <1>1, TakenKeeps DEF FlushesOK, FlushOK
<1> QED
  BY Zenon, <1>1, <1>2 DEF IndexTypeOK, Taken, JobGoesOn

LEMMA TypedThread ==
  ASSUME IndexTypeOK, FlushesOK, NEW t \in Threads, ThreadStep(t)
  PROVE  IndexTypeOK' /\ FlushesOK'
<1> USE DEF bufferVars, indexRest
<1>1. CASE LoadForUpdate(t) \/ LoadForRemove(t)
  BY Zenon, <1>1, LoadMoves DEF IndexTypeOK, JobGoesOn, FlushesOK, FlushOK
<1>2. CASE remove_file_from_index(t)
  <2> DEFINE k == job[t].field
             f == job[t].file
  <2>1. /\ JobGoesOn(t) /\ k \in Fields /\ indexes' \in [Fields -> Index \cup {NoIndex}]
        /\ \E dirty \in {dirtyKeys, dirtyKeys \cup {k}} :
             \/ /\ dirtyKeys' = dirty /\ pending' \in BOOLEAN
                /\ UNCHANGED <<deletedKeys, flush, blame>>
             \/ Taken(t, dirty, deletedKeys)
        /\ UNCHANGED <<indexRest, disk, faults>>
    BY <1>2, RemoveMoves
  <2> HIDE DEF k, f
  <2>2. FlushesOK'
    BY Zenon, <2>1, TakenKeeps DEF FlushesOK, FlushOK
  <2> QED
    BY ZenonT(30), <2>1, <2>2 DEF IndexTypeOK, Taken, JobGoesOn
<1>3. CASE t = "timer" /\ FlushTimer
  <2>1. Taken(t, dirtyKeys, deletedKeys)
    BY <1>3, SnapshotTaken DEF FlushTimer, IndexTypeOK
  <2>2. FlushesOK'
    BY <2>1, TakenKeeps
  <2> QED
    BY Zenon, <1>3, <2>1, <2>2 DEF IndexTypeOK, Taken, FlushTimer
<1>4. CASE write_flush_snapshot(t)
  <2>1. PICK k \in Fields : WriteStep(t, k)
    BY <1>4, WriteMoves
  <2>2. FlushOK(t)'
    BY Zenon, <2>1 DEF WriteStep, FlushesOK, FlushOK
  <2>3. FlushesOK'
    BY Zenon, <2>1, <2>2, FlushKept DEF WriteStep
  <2> QED
    BY Zenon, <1>4, <2>1, <2>3, WriteMoves DEF IndexTypeOK, WriteStep
<1>5. CASE restore_failed_flush(t)
  <2>1. PICK new \in {NoFlush, FailedFlush} : flush' = [flush EXCEPT ![t] = new]
    BY Zenon, <1>5 DEF restore_failed_flush
  <2>2. FlushOK(t)'
    BY Zenon, <2>1, ClearMoves DEF FlushOK
  <2>3. FlushesOK' /\ flush' \in [Threads -> Flush]
    BY Zenon, <2>1, <2>2, FlushKept, ClearMoves
  <2>4. flush[t].saves \in Snapshots /\ flush[t].deletes \in SUBSET Fields
    BY DEF IndexTypeOK, Flush
  <2>5. dirtyKeys' \subseteq Fields /\ deletedKeys' \subseteq Fields
    BY Zenon, <1>5, <2>4, SavesTyped DEF restore_failed_flush, IndexTypeOK
  <2> QED
    BY <1>5, <2>3, <2>5 DEF IndexTypeOK, restore_failed_flush
<1> QED
  BY <1>1, <1>2, <1>3, <1>4, <1>5 DEF ThreadStep

\* What a step of thread t does to the jobs: only its own moves, and while the
\* job is on a field the thread writes no flush.
LEMMA StepJobs ==
  ASSUME IndexTypeOK, FlushesOK, NEW t \in Threads, JobOK(t), t = "timer" => job[t] = IdleJob,
         ThreadStep(t) \/ update_index(t)
  PROVE  /\ \A u \in Threads \ {t} : job'[u] = job[u] /\ flush'[u] = flush[u]
         /\ job'[t] = job[t] \/ JobGoesOn(t)
         /\ JobOK(t)'
         /\ blame \subseteq blame' /\ blame' \subseteq blame \cup {"flusher"}
<1> USE DEF bufferVars, indexRest
<1>1. CASE LoadForUpdate(t) \/ LoadForRemove(t)
  <2>1. /\ JobGoesOn(t) /\ ~Flushing(t) /\ UNCHANGED <<flush, blame>>
        /\ job'[t].field # NoField /\ job'[t].op = "update" => job'[t].value # 0
    BY <1>1, LoadMoves
  <2> QED
    BY <2>1 DEF JobGoesOn, JobOK, Flushing
<1>2. CASE remove_file_from_index(t) \/ update_index(t)
  <2> DEFINE k == job[t].field
             f == job[t].file
  <2>1. /\ JobGoesOn(t) /\ job'[t].field = NoField
        /\ UNCHANGED <<flush, blame>> \/ \E dirty, deleted : Taken(t, dirty, deleted)
    <3>1. CASE remove_file_from_index(t)
      BY <3>1, RemoveMoves
    <3>2. CASE update_index(t)
      BY <3>2, UpdateMoves
    <3> QED
      BY <1>2, <3>1, <3>2
  <2> HIDE DEF k, f
  <2> QED
    BY <2>1 DEF JobGoesOn, JobOK, Taken
<1>3. CASE t = "timer" /\ FlushTimer
  <2>1. Taken(t, dirtyKeys, deletedKeys) /\ job' = job
    BY <1>3, SnapshotTaken DEF FlushTimer, IndexTypeOK
  <2> QED
    BY <1>3, <2>1 DEF JobOK, IdleJob, Taken
<1>4. CASE write_flush_snapshot(t)
  <2>1. PICK k \in Fields : WriteStep(t, k)
    BY <1>4, WriteMoves
  <2>2. UNCHANGED <<job, blame>>
    BY <1>4, WriteMoves
  <2>3. Flushing(t)' => Flushing(t)
    BY <2>1 DEF WriteStep, Flushing
  <2> QED
    BY <2>1, <2>2, <2>3 DEF WriteStep, JobOK
<1>5. CASE restore_failed_flush(t)
  <2>1. PICK new \in {NoFlush, FailedFlush} : flush' = [flush EXCEPT ![t] = new]
    BY <1>5 DEF restore_failed_flush
  <2>2. ~Flushing(t)' /\ \A u \in Threads \ {t} : flush'[u] = flush[u]
    BY <2>1, ClearMoves DEF Flushing
  <2>3. UNCHANGED <<job, blame>>
    BY <1>5 DEF restore_failed_flush
  <2> QED
    BY <2>2, <2>3 DEF JobOK
<1> QED
  BY <1>1, <1>2, <1>3, <1>4, <1>5 DEF ThreadStep
=============================================================================
