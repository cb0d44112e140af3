------------------------------ MODULE KvLayout ------------------------------
(***************************************************************************)
(* The layout of an aeordb file and what moves it: the KV block at the     *)
(* head, the WAL after it and the hot tail at the end.  When the block is  *)
(* full it grows into the WAL: online (expand_kv_block_online, under both  *)
(* locks) or at the next start (kv_expand.rs).  rebuild_kv builds the      *)
(* index again from a scan of the WAL, at a dirty start or on request.     *)
(*                                                                         *)
(* A position of the file is a unit of bytes; an entry takes Size[k] of    *)
(* them, so an entry may straddle the new end of the block.  StorageCore   *)
(* has entries of one size, a block that never grows, and power losses;    *)
(* here a crash is the death of the process, and the file is as the        *)
(* operating system shows it.                                              *)
(***************************************************************************)
EXTENDS Integers, Sequences, FiniteSets, FiniteSetsExt, TLC

CONSTANTS
    Chunks,          \* the keys: content-addressed, their entries may reuse voids
    Size,            \* the length of a chunk's entry
    Blocks,          \* block size per stage (the first is stage 0)
    Capacity,        \* how many keys its pages hold, per stage
    Buffered,        \* WRITE_BUFFER_THRESHOLD
    Wals,            \* WALs to start from: sequences of [key, size, at], at = "page", "buffer" or "void"
    MaxPos,          \* bound: positions of the file
    Mixes,           \* bounds: what may happen besides stores, how often at most
    RebuildAlone     \* nothing is stored while rebuild_kv runs

ASSUME LayoutAssumption ==
    /\ Size \in [Chunks -> Nat \ {0}]
    /\ Len(Blocks) = Len(Capacity)
    /\ Capacity[Len(Capacity)] >= Cardinality(Chunks)   \* the last stage does not overflow
    /\ \A i \in 1 .. Len(Blocks) - 1 : Blocks[i] < Blocks[i + 1]
    /\ {Buffered, MaxPos} \subseteq Nat
    /\ Mixes \subseteq [{"crash", "sweep", "flush", "rebuild", "read"} -> Nat]
    /\ RebuildAlone \in BOOLEAN

VARIABLES
    file,      \* [cells, eof, pages, header]
    phase,     \* "down", "expanding", "opening", "up"
    append,    \* the AppendWriter: [offset, header]
    kv,        \* kv_writer: [buffer, tail, pending, stage]
    snapshot,  \* kv_snapshot: what lock-free reads see
    voids,     \* the VoidManager: [offset, size]
    op,        \* the thread that stores and then expands
    timer,     \* try_flush_hot_buffer, between the hot tail and the header
    rebuild,   \* rebuild_kv
    reader,    \* a read, between the snapshot and the file
    held,      \* chunks stored and not swept, as far as the engine can know
    published, \* ... as of the last hot tail published by a header
    blame,     \* what has happened that may cost entries
    budget,    \* how often each of the five may still happen
    clock      \* of the entries: a chunk is stored again only after a sweep

lvars == <<file, phase, append, kv, snapshot, voids, op, timer, rebuild, reader,
          held, published, blame, budget, clock>>

Positions == 0 .. MaxPos

----------------------------------------------------------------------------
(* Cells, ranges and the index *)

Zero == <<"zero">>
Part(k, i, time) == <<"part", k, i, time>>   \* of an entry written at that time
Hot(writes, list) == <<"hot", writes, list>>

Absent == 0          \* no entry; position 0 is in the block
Gone == -1           \* an entry flagged deleted

NoEntries == [k \in Chunks |-> Absent]
Live(index) == [k \in Chunks |-> IF index[k] > 0 THEN index[k] ELSE Absent]
Indexed(index) == {k \in Chunks : index[k] > 0}
Overlay(buffer, pages) == [k \in Chunks |-> IF buffer[k] # Absent THEN buffer[k] ELSE pages[k]]

Void(offset, size) == [offset |-> offset, size |-> size]
Span(offset, size) == offset .. offset + size - 1
Stage(header) == Blocks[header.stage + 1]

\* A write of consecutive cells; the file grows if they pass its end.
Overwrite(f, offset, cells) ==
    [f EXCEPT !.cells = [p \in Positions |-> IF p - offset + 1 \in DOMAIN cells
                                             THEN cells[p - offset + 1] ELSE @[p]],
              !.eof = Max({@, offset + Len(cells)})]

EntryCells(k, time) == [i \in 1 .. Size[k] |-> Part(k, i, time)]

\* write_hot_tail, then set_len.
WriteHotTail(f, offset, writes, list) ==
    [Overwrite(f, offset, <<Hot(writes, list)>>) EXCEPT !.eof = offset + 1]

IsPart(cell, k, i) == cell[1] = "part" /\ cell[2] = k /\ cell[3] = i
IsEntry(f, p, k) == p \in Positions /\ IsPart(f.cells[p], k, 1)
Straddled(f, p) == f.cells[p][1] = "part" /\ f.cells[p][3] > 1
Intact(f, p, k) == \A i \in 1 .. Size[k] : p + i - 1 < f.eof /\ IsPart(f.cells[p + i - 1], k, i)

valid_reusable_range(offset, size, start, end) ==
    size > 0 /\ end >= start /\ offset >= start /\ offset + size <= end

writer_wal_bounds == <<Stage(append.header), append.offset>>

\* Bounds: writes stay inside the positions; nothing new is asked for after one
\* of the cases in blame, except reads.
Fits(end) == end < MaxPos
May(what) == budget[what] > 0 /\ blame = {}
Spend(what) == budget' = [budget EXCEPT ![what] = @ - 1]

----------------------------------------------------------------------------
(* Initial states: a file as stores and sweeps leave it, just opened *)

StartOf(wal, i) == Blocks[1] + FoldSet(LAMBDA j, sum : sum + wal[j].size, 0, 1 .. i - 1)
Listed(wal, where) == {i \in DOMAIN wal : wal[i].at = where}
IndexOf(wal, where) ==
    [k \in Chunks |-> IF \E i \in Listed(wal, where) : wal[i].key = k
                      THEN StartOf(wal, CHOOSE i \in Listed(wal, where) : wal[i].key = k)
                      ELSE Absent]
VoidsOf(wal) == {Void(StartOf(wal, i), wal[i].size) : i \in Listed(wal, "void")}

FileOf(wal) ==
    LET tail == StartOf(wal, Len(wal) + 1)
        Cells(i) == IF wal[i].at = "void" THEN [j \in 1 .. wal[i].size |-> Zero]
                    ELSE EntryCells(wal[i].key, 0)
        blank == [cells |-> [p \in Positions |-> Zero], eof |-> Blocks[1],
                  pages |-> IndexOf(wal, "page"),
                  header |-> [stage |-> 0, target |-> 0, tail |-> tail]]
    IN  WriteHotTail(FoldSet(LAMBDA i, f : Overwrite(f, StartOf(wal, i), Cells(i)),
                             blank, DOMAIN wal),
                     tail, IndexOf(wal, "buffer"), VoidsOf(wal))

Idle == [at |-> "idle"]

LInit ==
    /\ \E wal \in Wals :
         /\ file = FileOf(wal)
         /\ append = [offset |-> file.header.tail, header |-> file.header]
         /\ kv = [buffer |-> IndexOf(wal, "buffer"), tail |-> append.offset,
                  pending |-> VoidsOf(wal), stage |-> 0]
         /\ voids = VoidsOf(wal)
    /\ phase = "up"
    /\ snapshot = Overlay(kv.buffer, file.pages)
    /\ op = Idle /\ timer = Idle /\ rebuild = Idle /\ reader = Idle
    /\ held = Indexed(snapshot)
    /\ published = held
    /\ blame = {}
    /\ budget \in Mixes
    /\ clock = 0

----------------------------------------------------------------------------
(* Locks.  A store takes the writer lock and then the KV lock, an           *)
(* expansion both; rebuild_kv takes the KV lock and then the writer lock.   *)

Expanding == op.at \notin {"idle", "store", "pending"}
WriterFree == op.at # "store" /\ ~Expanding
KvFree == rebuild.at # "header" /\ ~Expanding
Up == phase = "up"

----------------------------------------------------------------------------
(* Storing *)

find_void(list, needed) ==
    {v \in list : v.size >= needed /\ \A u \in list : u.size >= needed =>
        v.size < u.size \/ (v.size = u.size /\ v.offset <= u.offset)}

Remainder(v, needed) == IF v.size > needed THEN {Void(v.offset + needed, v.size - needed)} ELSE {}

\* find_void until the range it gives is inside the WAL; ranges outside are
\* dropped on the way.
RECURSIVE ConsumeVoid(_, _)
ConsumeVoid(list, needed) ==
    IF find_void(list, needed) = {}
    THEN [found |-> {}, left |-> list]
    ELSE LET v == CHOOSE u \in find_void(list, needed) : TRUE
             left == (list \ {v}) \cup Remainder(v, needed)
         IN  IF valid_reusable_range(v.offset, v.size, writer_wal_bounds[1], writer_wal_bounds[2])
             THEN [found |-> {v}, left |-> left]
             ELSE ConsumeVoid(left, needed)

sanitize_pending_voids(list, stage, tail) ==
    {v \in list : valid_reusable_range(v.offset, v.size, Blocks[stage + 1], tail)}

\* flush: what fits goes to the pages.  What does not stays in the buffer and
\* in the hot tail, and the block is to grow.
Flushed(f, store, keep) ==
    LET pages == [k \in Chunks |-> IF k \notin keep /\ store.buffer[k] # Absent
                                   THEN store.buffer[k] ELSE f.pages[k]]
        buffer == [k \in Chunks |-> IF k \in keep THEN store.buffer[k] ELSE Absent]
        pending == sanitize_pending_voids(store.pending, store.stage, store.tail)
    IN  [file |-> WriteHotTail([f EXCEPT !.pages = pages], store.tail, buffer, pending),
         kv |-> [store EXCEPT !.buffer = buffer, !.pending = pending]]

PageKeys(pages) == {k \in Chunks : pages[k] # Absent}

\* The ways the buckets may overflow.
Overflows(pages, buffer, stage) ==
    LET new == {k \in Chunks : buffer[k] # Absent} \ PageKeys(pages)
        room == Capacity[stage + 1] - Cardinality(PageKeys(pages))
    IN  IF Cardinality(new) <= room THEN {{}}
        ELSE {s \in SUBSET new : Cardinality(s) = Cardinality(new) - Max({room, 0})}

\* insert, with the flush it may come to.
insert(f, store) ==
    IF Cardinality({k \in Chunks : store.buffer[k] # Absent}) < Buffered
    THEN {[file |-> f, kv |-> store, grow |-> FALSE]}
    ELSE {Flushed(f, store, s) @@ [grow |-> s # {}] :
            s \in Overflows(f.pages, store.buffer, store.stage)}

StoreLock(k) ==
    /\ Up /\ op = Idle
    /\ WriterFree
    /\ RebuildAlone => rebuild = Idle
    /\ blame = {}
    /\ snapshot[k] <= 0
    /\ op' = [at |-> "store", key |-> k]
    /\ UNCHANGED <<file, phase, append, kv, snapshot, voids, timer, rebuild, reader,
                   held, published, blame, budget, clock>>

\* store_entry_internal once it has both locks.
store_entry_internal ==
    /\ Up /\ op.at = "store"
    /\ KvFree
    /\ LET k == op.key
           slot == ConsumeVoid(voids, Size[k])
           reuse == slot.found # {}
           offset == IF reuse THEN (CHOOSE v \in slot.found : TRUE).offset ELSE append.offset
           end == IF reuse THEN append.offset ELSE append.offset + Size[k]
           store == [kv EXCEPT !.tail = Max({@, end}), !.buffer[k] = offset]
       IN  /\ Fits(end + 1)
           /\ \E call \in insert(Overwrite(file, offset, EntryCells(k, clock)), store) :
                /\ file' = call.file
                /\ kv' = IF slot.left = voids THEN call.kv
                         ELSE [call.kv EXCEPT !.pending =
                                 sanitize_pending_voids(slot.left, kv.stage, store.tail)]
                /\ snapshot' = Overlay(call.kv.buffer, call.file.pages)
                /\ op' = IF call.grow THEN [at |-> "pending", target |-> kv.stage + 1] ELSE Idle
           /\ reader' = IF reader.at = "looked" /\ reader.offset = offset
                        THEN [reader EXCEPT !.reused = TRUE] ELSE reader
           /\ held' = held \cup {k}
           /\ voids' = slot.left
           /\ append' = [append EXCEPT !.offset = end]
    /\ blame' = IF rebuild = Idle THEN blame ELSE blame \cup {"overlap"}
    /\ UNCHANGED <<phase, timer, rebuild, published, budget, clock>>

\* gc_sweep of one unreachable chunk: its entry is flagged, its range becomes a
\* void, and the hot tail and the header are written.
gc_sweep(k) ==
    /\ Up /\ op = Idle /\ rebuild = Idle /\ timer = Idle
    /\ May("sweep")
    /\ snapshot[k] > 0
    /\ LET freed == {v \in voids : v.offset # snapshot[k]} \cup {Void(snapshot[k], Size[k])}
           store == [kv EXCEPT !.buffer[k] = Gone,
                               !.pending = sanitize_pending_voids(freed, kv.stage, kv.tail)]
           header == [append.header EXCEPT !.tail = kv.tail]
       IN  /\ voids' = freed
           /\ kv' = store
           /\ snapshot' = [snapshot EXCEPT ![k] = Gone]
           /\ file' = [WriteHotTail(file, kv.tail, store.buffer, store.pending)
                         EXCEPT !.header = header]
           /\ append' = [append EXCEPT !.header = header]
    /\ held' = held \ {k}
    /\ published' = held'
    /\ Spend("sweep")
    /\ clock' = clock + 1
    /\ UNCHANGED <<phase, op, timer, rebuild, reader, blame>>

\* try_flush_hot_buffer: the hot tail under the KV lock, then the header under
\* the writer lock.  An expansion may come in between.
try_flush_hot_buffer ==
    /\ Up
    /\ \/ /\ timer = Idle
          /\ KvFree
          /\ held # published
          /\ budget["flush"] > 0 /\ Spend("flush")
          /\ file' = WriteHotTail(file, kv.tail, kv.buffer, kv.pending)
          /\ timer' = [at |-> "header", tail |-> kv.tail, held |-> held]
          /\ blame' = IF rebuild = Idle THEN blame ELSE blame \cup {"overlap"}
          /\ UNCHANGED <<append, published>>
       \/ /\ timer # Idle
          /\ WriterFree
          /\ append' = [append EXCEPT !.header.tail = timer.tail]
          /\ file' = [file EXCEPT !.header = append'.header]
          /\ published' = timer.held
          /\ timer' = Idle
          /\ UNCHANGED <<blame, budget>>
    /\ UNCHANGED <<phase, kv, snapshot, voids, op, rebuild, reader, held, clock>>

----------------------------------------------------------------------------
(* Growing the block online.  Both locks are held from the mark to the end. *)

\* The first entry header at or after the new end of the block: what straddles
\* that end lies before it.  None found: the new end itself.
actual_copy_end(new_kv_end) ==
    LET found == {p \in new_kv_end .. append.offset - 1 :
                    \E k \in Chunks : IsEntry(file, p, k)}
    IN  IF found = {} THEN new_kv_end ELSE Min(found)

\* A void inside the region that moves is shifted with it; one that the block
\* swallows, or that leaves the WAL, is dropped.
adjust_voids_for_expansion(list, old_kv_end, relocated_end, delta, wal_start, wal_end) ==
    LET Moves(v) == v.offset >= old_kv_end /\ v.offset + v.size <= relocated_end
        Shifted(v) == IF Moves(v) THEN [v EXCEPT !.offset = @ + delta] ELSE v
    IN  {v \in {Shifted(u) : u \in list} :
            valid_reusable_range(v.offset, v.size, wal_start, wal_end)}

expand_kv_block_online ==
    /\ Up /\ op.at = "pending"
    /\ rebuild.at # "header"
    /\ LET old == Stage(append.header)
           new == Blocks[op.target + 1]
           end == actual_copy_end(new)
           header == [append.header EXCEPT !.target = op.target]
       IN  /\ op' = [at |-> "copy", target |-> op.target, old |-> old, new |-> new, end |-> end,
                     delta |-> append.offset - old, tail |-> append.offset + end - old]
           /\ append' = [append EXCEPT !.header = header]
           /\ file' = [file EXCEPT !.header = header]
    /\ blame' = IF rebuild = Idle THEN blame ELSE blame \cup {"overlap"}
    /\ UNCHANGED <<phase, kv, snapshot, voids, timer, rebuild, reader, held, published, budget, clock>>

\* The last entry of the WAL straddles the new end: no header follows it.
Cut == op.end = op.new /\ op.new < append.offset /\ Straddled(file, op.new)

\* The voids are replaced before the copy, and the copy fails if the region
\* ends after the file does.  If only the hot tail reaches past the new end, the
\* copy begins inside the new block.
CopyGrowthZone ==
    /\ op.at = "copy"
    /\ voids' = adjust_voids_for_expansion(voids, op.old, op.end, op.delta, op.new, op.tail)
    /\ IF op.end > file.eof
       THEN /\ op' = Idle
            /\ blame' = blame \cup (IF voids' = voids THEN {} ELSE {"failed"})
            /\ UNCHANGED file
       ELSE /\ Fits(op.tail + 1)
            /\ file' = Overwrite(file, append.offset,
                                 [i \in 1 .. op.end - op.old |-> file.cells[op.old + i - 1]])
            /\ op' = [op EXCEPT !.at = "hot"]
            /\ blame' = blame \cup (IF Cut THEN {"cut"} ELSE {})
                               \cup (IF append.offset < op.new THEN {"short"} ELSE {})
    /\ UNCHANGED <<phase, append, kv, snapshot, timer, rebuild, reader, held, published, budget, clock>>

RelocatedButFirst(index) ==
    [k \in Chunks |-> IF index[k] > op.old /\ index[k] < op.end THEN index[k] + op.delta
                      ELSE index[k]]
Relocated(index) ==
    [k \in Chunks |-> IF index[k] >= op.old /\ index[k] < op.end THEN index[k] + op.delta
                      ELSE index[k]]

Zeroed(f, end) == [f EXCEPT !.cells = [p \in Positions |-> IF p < end THEN Zero ELSE @[p]],
                            !.pages = NoEntries]

\* The hot tail goes after the copy; a void entry covers what is left of the
\* entry that straddled the new end.
RewriteHotTail ==
    /\ op.at = "hot"
    /\ LET at == file.cells[append.offset]
           hot == Overwrite(file, op.tail, <<Hot(IF at[1] = "hot" THEN at[2] ELSE NoEntries, voids)>>)
       IN  file' = Overwrite(hot, op.new, [i \in 1 .. op.end - op.new |-> Zero])
    /\ append' = [append EXCEPT !.offset = op.tail]
    /\ op' = [op EXCEPT !.at = "zero"]
    /\ UNCHANGED <<phase, kv, snapshot, voids, timer, rebuild, reader,
                   held, published, blame, budget, clock>>

\* finalize_expansion: the larger block is zeroed, with what was there of the
\* WAL; the index is rehashed into it; then the hot tail and the header.
finalize_expansion_pages ==
    /\ \/ /\ op.at = "zero"
          /\ file' = Zeroed(file, op.new)
          /\ op' = [op EXCEPT !.at = "pages"]
          /\ UNCHANGED <<append, kv, snapshot>>
       \/ /\ op.at = "pages"
          /\ \E lost \in Overflows(NoEntries, Relocated(Live(snapshot)), op.target) :
               file' = [file EXCEPT !.pages =
                          [k \in Chunks |-> IF k \in lost THEN Absent
                                            ELSE Relocated(Live(snapshot))[k]]]
          /\ kv' = [buffer |-> NoEntries, tail |-> op.tail, pending |-> voids, stage |-> op.target]
          /\ op' = [op EXCEPT !.at = "tail"]
          /\ UNCHANGED <<append, snapshot>>
       \/ /\ op.at = "tail"
          /\ file' = WriteHotTail(file, op.tail, NoEntries, voids)
          /\ op' = [op EXCEPT !.at = "header"]
          /\ UNCHANGED <<append, kv, snapshot>>
       \/ /\ op.at = "header"
          /\ append' = [append EXCEPT !.header = [stage |-> op.target, target |-> 0, tail |-> op.tail]]
          /\ file' = [file EXCEPT !.header = append'.header]
          /\ snapshot' = file.pages
          /\ op' = Idle
          /\ UNCHANGED kv
    /\ blame' = IF op.at = "pages" /\ PageKeys(file'.pages) # Indexed(snapshot)
                THEN blame \cup {"full"} ELSE blame
    /\ UNCHANGED <<phase, voids, timer, rebuild, reader, held, published, budget, clock>>

----------------------------------------------------------------------------
(* rebuild_kv, section by section *)

\* The scan of the WAL: entry by entry by their lengths; where no entry header
\* is, on to the next one (scan_for_next_magic).  Chunk payloads are not read.
next_rebuild_entry(f, start) ==
    LET KeyAt(p) == CHOOSE k \in Chunks : IsEntry(f, p, k)
        scan[p \in Nat] ==
            IF p >= f.eof THEN {}
            ELSE IF ~\E k \in Chunks : IsEntry(f, p, k) THEN scan[p + 1]
            ELSE IF p + Size[KeyAt(p)] > f.eof THEN {}
            ELSE {<<KeyAt(p), p, f.cells[p][4]>>} \cup scan[p + Size[KeyAt(p)]]
    IN  scan[start]

\* Of several entries of a chunk the newest wins: the later time, then the
\* later offset.
resolve_rebuild_records(records) ==
    LET is_after(r, q) == r[3] > q[3] \/ (r[3] = q[3] /\ r[2] >= q[2])
        Of(k) == {r \in records : r[1] = k}
    IN  [k \in Chunks |-> IF Of(k) = {} THEN Absent
                          ELSE (CHOOSE r \in Of(k) : \A q \in Of(k) : is_after(r, q))[2]]

ScanWal(records, offset, from) ==
    [at |-> "create", records |-> resolve_rebuild_records(records),
     end |-> Max({offset} \cup {r[2] + Size[r[1]] : r \in records}),
     from |-> from]

\* On request, under the writer's read lock.
rebuild_kv ==
    /\ Up /\ rebuild = Idle
    /\ May("rebuild") /\ Spend("rebuild")
    /\ WriterFree
    /\ RebuildAlone => op = Idle /\ timer = Idle
    /\ LET records == next_rebuild_entry(file, Stage(file.header))
       IN  rebuild' = ScanWal(records, append.offset, "request")
    /\ UNCHANGED <<file, phase, append, kv, snapshot, voids, op, timer, reader,
                   held, published, blame, clock>>

\* A swept chunk is in the index again while its range is still a void.
Resurrects == \E v \in voids : \E k \in Indexed(rebuild.records) :
                 Span(v.offset, v.size) \cap Span(rebuild.records[k], Size[k]) # {}

\* The new store is created over the live pages, filled and flushed, and takes
\* over the snapshot, all without a lock; the KV lock is taken to swap it in.
RebuildSteps ==
    /\ phase \in {"opening", "up"}
    /\ \/ /\ rebuild.at = "create"
          /\ file' = [file EXCEPT !.pages = NoEntries]
          /\ rebuild' = [rebuild EXCEPT !.at = "fill"]
          /\ UNCHANGED <<append, kv, snapshot, blame>>
       \/ /\ rebuild.at = "fill"
          /\ LET store == [buffer |-> rebuild.records, tail |-> rebuild.end, pending |-> {},
                           stage |-> file.header.stage]
             IN  \E s \in Overflows(NoEntries, rebuild.records, store.stage) :
                   LET call == Flushed(file, store, s)
                   IN  /\ file' = call.file
                       /\ rebuild' = [rebuild EXCEPT !.at = "swap"] @@ [kv |-> call.kv]
                       /\ snapshot' = Overlay(call.kv.buffer, call.file.pages)
          /\ blame' = IF Up /\ Resurrects THEN blame \cup {"resurrected"} ELSE blame
          /\ UNCHANGED <<append, kv>>
       \/ /\ rebuild.at = "swap"
          /\ ~Expanding
          /\ kv' = rebuild.kv
          /\ rebuild' = [rebuild EXCEPT !.at = "header"]
          /\ UNCHANGED <<file, append, snapshot, blame>>
       \/ /\ rebuild.at = "header"
          /\ WriterFree
          /\ append' = [offset |-> rebuild.end,
                        header |-> [append.header EXCEPT !.tail = rebuild.end]]
          /\ file' = [file EXCEPT !.header = append'.header]
          /\ rebuild' = IF phase = "up" THEN Idle ELSE [at |-> "gaps"]
          /\ UNCHANGED <<kv, snapshot, blame>>
    /\ UNCHANGED <<phase, voids, op, timer, reader, held, published, budget, clock>>

----------------------------------------------------------------------------
(* The process dies, and starts again *)

resize_ignored == FALSE
resize_in_progress == file.header.target > file.header.stage

\* A start would take the hot tail the header names for a clean one.
Trusted == file.cells[file.header.tail][1] = "hot"

\* ... whose list still has the void that a store has just filled: the flush
\* inside the insert comes before the list is refreshed.
StaleList ==
    /\ Trusted
    /\ LET hot == file.cells[file.header.tail]
       IN  \E v \in hot[3] : \E k \in Indexed(hot[2]) :
               Span(v.offset, v.size) \cap Span(hot[2][k], Size[k]) # {}

\* Where the file no longer has, in a place the next start looks at, everything
\* that was promised: the growth zone or the straddling entry is overwritten and
\* the header still says the old layout; or the pages are empty and the hot tail
\* valid; or the list is stale; or the next start will move the WAL up to a tail
\* that try_flush_hot_buffer published late, after another expansion.
Exposed ==
    \/ StaleList
    \/ resize_in_progress /\ \E k \in published : snapshot[k] >= file.header.tail
    \/ op.at = "zero" /\ op.end > op.new
    \/ op.at \in {"pages", "tail", "header"}
    \/ op.at \in {"zero block", "new header"}
    \/ Trusted /\ (op.at = "load" \/ rebuild.at = "fill"
                   \/ (rebuild.at = "create" /\ rebuild.from = "expansion"))

LCrash ==
    /\ phase # "down"
    /\ budget["crash"] > 0
    /\ Spend("crash")
    /\ blame' = IF Exposed THEN blame \cup {"crash"} ELSE blame
    /\ held' = published
    /\ phase' = "down"
    /\ op' = Idle /\ timer' = Idle /\ rebuild' = Idle /\ reader' = Idle
    /\ kv' = [buffer |-> NoEntries, tail |-> 0, pending |-> {}, stage |-> 0]
    /\ snapshot' = NoEntries
    /\ voids' = {}
    /\ append' = [offset |-> 0, header |-> file.header]
    /\ UNCHANGED <<file, published, clock>>

\* expand_kv_block, when the header says a resize is pending: the WAL moves
\* forward by the growth, the block is zeroed, the header says the new layout.
expand_kv_block_offline ==
    /\ \/ /\ phase = "down"
          /\ resize_in_progress
          /\ LET start == Stage(file.header)
                 delta == Blocks[file.header.target + 1] - start
                 tail == file.header.tail
             IN  /\ Fits(tail + delta)
                 /\ file' = Overwrite(file, start + delta,
                                      [i \in 1 .. tail - start |-> file.cells[start + i - 1]])
                 /\ op' = [at |-> "zero block", stage |-> file.header.target, tail |-> tail + delta]
          /\ phase' = "expanding"
       \/ /\ op.at = "zero block"
          /\ file' = Zeroed(file, Blocks[op.stage + 1])
          /\ op' = [op EXCEPT !.at = "new header"]
          /\ UNCHANGED phase
       \/ /\ op.at = "new header"
          /\ file' = [file EXCEPT !.header = [stage |-> op.stage, target |-> 0, tail |-> op.tail]]
          /\ op' = [op EXCEPT !.at = "load"]
          /\ UNCHANGED phase
    /\ UNCHANGED <<append, kv, snapshot, voids, timer, rebuild, reader,
                   held, published, blame, budget, clock>>

\* Page entries in a range that the hot tail lists as a void are masked.
open_kv(pages, writes, list) ==
    [k \in Chunks |->
        IF writes[k] # Absent THEN writes[k]
        ELSE IF pages[k] > 0 /\ \E v \in list :
                  Span(pages[k], Size[k]) \cap Span(v.offset, v.size) # {} THEN Gone
        ELSE Absent]

\* The rest of open_internal: a valid hot tail is loaded, else (and after an
\* expansion) the index is rebuilt.
open_internal ==
    /\ \/ phase = "down" /\ ~resize_in_progress
       \/ op.at = "load"
    /\ append' = [offset |-> file.header.tail, header |-> file.header]
    /\ op' = Idle
    /\ IF Trusted /\ op.at # "load"
       THEN LET hot == file.cells[file.header.tail]
                list == sanitize_pending_voids(hot[3], file.header.stage, file.header.tail)
                buffer == open_kv(file.pages, hot[2], list)
            IN  /\ kv' = [buffer |-> buffer, tail |-> file.header.tail,
                          pending |-> list, stage |-> file.header.stage]
                /\ snapshot' = Overlay(buffer, file.pages)
                /\ voids' = list
                /\ phase' = "up"
                /\ UNCHANGED rebuild
       ELSE /\ phase' = "opening"
            /\ LET records == next_rebuild_entry(file, Stage(file.header))
               IN  rebuild' = ScanWal(records, file.header.tail,
                                      IF op.at = "load" THEN "expansion" ELSE "dirty start")
            /\ UNCHANGED <<kv, snapshot, voids>>
    /\ UNCHANGED <<file, timer, reader, held, published, blame, budget, clock>>

\* Any range between live entries is a void.
recover_voids_via_gap_scan ==
    /\ phase = "opening" /\ rebuild.at = "gaps"
    /\ LET taken == UNION {Span(snapshot[k], Size[k]) : k \in Indexed(snapshot)}
           free == {p \in Stage(append.header) .. append.offset - 1 :
                      p \notin taken /\ \E q \in taken : q > p}
           Starts == {p \in free : p - 1 \notin free}
           EndOf(p) == Max({q \in free : p .. q \subseteq free})
       IN  voids' = {Void(p, EndOf(p) - p + 1) : p \in Starts}
    /\ kv' = [kv EXCEPT !.pending = sanitize_pending_voids(voids', kv.stage, kv.tail)]
    /\ phase' = "up"
    /\ rebuild' = Idle
    /\ UNCHANGED <<file, append, snapshot, op, timer, reader, held, published, blame, budget, clock>>

----------------------------------------------------------------------------
(* Reading.  The offset comes from the snapshot, without a lock. *)

Lookup(k, span) ==
    /\ Up /\ reader = Idle
    /\ budget["read"] > 0 /\ Spend("read")
    /\ snapshot[k] > 0
    /\ reader' = [at |-> "looked", key |-> k, offset |-> snapshot[k], span |-> span, reused |-> FALSE]
    /\ UNCHANGED <<file, phase, append, kv, snapshot, voids, op, timer, rebuild,
                   held, published, blame, clock>>

validate_kv_entry_offset(p) == p >= writer_wal_bounds[1] /\ p < writer_wal_bounds[2]

\* The chunk whose entry is at the offset, its payload as it was hashed; an
\* error if there is none.
EntryAt(p) == {k \in Chunks : IsEntry(file, p, k) /\ Intact(file, p, k)}

Answer(found) == reader' = [at |-> "done", key |-> reader.key, got |-> found,
                            span |-> reader.span, reused |-> reader.reused]

\* get_entry_verified reads under the writer's read lock what is at the offset.
get_entry_verified ==
    /\ Up /\ reader.at = "looked" /\ ~reader.span
    /\ WriterFree
    /\ Answer(IF validate_kv_entry_offset(reader.offset) THEN EntryAt(reader.offset) ELSE {})
    /\ UNCHANGED <<file, phase, append, kv, snapshot, voids, op, timer, rebuild,
                   held, published, blame, budget, clock>>

decode_any_key(p, k) == EntryAt(p)
decode_verified_chunk_entry_from_buffer(p, k) == EntryAt(p) \cap {k}

\* A span read checks the offset under the lock, reads without it, and takes an
\* entry only under the key it asked for.
read_chunk_span_verified ==
    /\ Up
    /\ \/ /\ reader.at = "looked" /\ reader.span
          /\ WriterFree
          /\ IF validate_kv_entry_offset(reader.offset)
             THEN reader' = [reader EXCEPT !.at = "valid"]
             ELSE Answer({})
       \/ /\ reader.at = "valid"
          /\ Answer(decode_verified_chunk_entry_from_buffer(reader.offset, reader.key))
    /\ UNCHANGED <<file, phase, append, kv, snapshot, voids, op, timer, rebuild,
                   held, published, blame, budget, clock>>

ReadReturns ==
    /\ Up /\ reader.at = "done"
    /\ reader' = Idle
    /\ UNCHANGED <<file, phase, append, kv, snapshot, voids, op, timer, rebuild,
                   held, published, blame, budget, clock>>

----------------------------------------------------------------------------
Start == expand_kv_block_offline \/ open_internal \/ RebuildSteps \/ recover_voids_via_gap_scan

Expand == expand_kv_block_online \/ CopyGrowthZone \/ RewriteHotTail \/ finalize_expansion_pages

LNext ==
    \/ \E k \in Chunks : StoreLock(k) \/ gc_sweep(k) \/ \E span \in BOOLEAN : Lookup(k, span)
    \/ store_entry_internal
    \/ try_flush_hot_buffer
    \/ Expand
    \/ rebuild_kv
    \/ Start
    \/ get_entry_verified \/ read_chunk_span_verified \/ ReadReturns
    \/ LCrash

\* A start goes on by itself.
LSpec == LInit /\ [][LNext]_lvars /\ WF_lvars(Start)

----------------------------------------------------------------------------
(* Properties *)

\* Whatever grows the block, and however often the process dies in between, a
\* chunk whose store returned (or, after a crash, was published by a hot tail) is
\* in the index at an offset inside the WAL where its entry is intact, and no
\* void that find_void could hand out overlaps it.  Not claimed after one of
\* the cases in blame.
EntriesReachable ==
    Up /\ ~Expanding /\ blame = {} =>
        \A k \in held :
            LET p == snapshot[k]
            IN  /\ validate_kv_entry_offset(p) /\ Intact(file, p, k)
                /\ \A v \in voids \cup kv.pending :
                     valid_reusable_range(v.offset, v.size, writer_wal_bounds[1], writer_wal_bounds[2]) =>
                         Span(v.offset, v.size) \cap Span(p, Size[k]) = {}

\* A read gives the chunk asked for or an error, with sweeps, reuse, expansions
\* and rebuilds between the lookup and the read.  get_entry_verified does not
\* compare keys, so not if its range was reused in between.
ReadsRight ==
    reader.at = "done" /\ (reader.span \/ (~reader.reused /\ blame = {})) =>
        reader.got \subseteq {reader.key}

\* A start that finds an expansion pending ends up open with the larger block,
\* however often (finitely) the process dies on the way.
ExpandsAtStart ==
    \A s \in 1 .. Len(Blocks) - 1 :
        (phase = "down" /\ file.header.target = s /\ file.header.stage < s)
            ~> (Up /\ file.header.stage >= s)
============================================================================
