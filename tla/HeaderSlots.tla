----------------------------- MODULE HeaderSlots -----------------------------
(***************************************************************************)
(* The two header slots at the start of an .aeordb file and everybody who  *)
(* writes them: AppendWriter (which caches the header and the slot it came *)
(* from), DiskKVStore::finalize_expansion (which re-reads the active slot  *)
(* from disk) and the offline kv_expand::expand_kv_block.                  *)
(*                                                                         *)
(* The contents of a header are abstracted to a revision number, fresh for *)
(* every write that is attempted, and to whether the header announces a    *)
(* pending KV block expansion (resize_target_stage > kv_block_stage).  A   *)
(* slot whose magic, version or CRC is bad is not ok.                      *)
(***************************************************************************)
EXTENDS Naturals

CONSTANT MaxRev      \* bound on the header writes attempted in a behaviour

ASSUME MaxRevAssumption == MaxRev \in Nat

VARIABLES
  slot,     \* what FileHeader::deserialize makes of slots A (0) and B (1)
  writer,   \* AppendWriter: cached sequence, active_slot, cached resize mark
  pc,       \* who is doing what to the header
  target,   \* slot of the write in flight
  next,     \* header of the write in flight
  revs,     \* history: header writes attempted so far
  acked     \* history: newest revision a completed write has promised

vars == <<slot, writer, pc, target, next, revs, acked>>

Slots  == {0, 1}
Header == [ok : BOOLEAN, seq : Nat, rev : Nat, resizing : BOOLEAN]
Torn   == [ok |-> FALSE, seq |-> 0, rev |-> 0, resizing |-> FALSE]

\* The steps between which header writes happen; the ones of InFlight have
\* issued write_all to a slot and not yet returned from the second fsync.
InFlight == {"update", "mark", "finalize", "publish", "offline"}
Steps    == InFlight \cup {"idle", "marked", "finalized", "closed"}

-----------------------------------------------------------------------------
\* The slot read_active_header answers with; A wins a tie.
ActiveSlot(s) ==
  IF s[0].ok /\ (s[1].ok => s[0].seq >= s[1].seq) THEN 0 ELSE 1

Readable(s) == s[0].ok \/ s[1].ok

read_active_header(s) == s[ActiveSlot(s)]

\* AppendWriter::open.
Cached(s) ==
  [seq |-> read_active_header(s).seq, active |-> ActiveSlot(s),
   resizing |-> read_active_header(s).resizing]

TypeOK ==
  /\ slot \in [Slots -> Header]
  /\ writer \in [seq : Nat, active : Slots, resizing : BOOLEAN]
  /\ pc \in Steps
  /\ target \in Slots
  /\ next \in Header
  /\ revs \in Nat
  /\ acked \in Nat

\* create_with_hot_dir: write_initial_header filled slot A and zeroed slot B,
\* then update_header published the KV layout in slot B.
Init ==
  /\ slot = [i \in Slots |-> [ok |-> TRUE, seq |-> i + 1, rev |-> i, resizing |-> FALSE]]
  /\ writer = [seq |-> 2, active |-> 1, resizing |-> FALSE]
  /\ pc = "idle"
  /\ target = 0
  /\ next = Torn
  /\ revs = 1
  /\ acked = 1

-----------------------------------------------------------------------------
\* Deliberately wrong variants of the next two definitions.
SameSequence(sequence, active, mark) ==
  /\ revs < MaxRev
  /\ revs' = revs + 1
  /\ target' = 1 - active
  /\ next' = [ok |-> TRUE, seq |-> sequence, rev |-> revs + 1, resizing |-> mark]
  /\ UNCHANGED <<slot, acked>>

DoneWithoutFlip ==
  /\ pc \in InFlight
  /\ slot' = [slot EXCEPT ![target] = next]
  /\ acked' = next.rev
  /\ writer' = IF pc \in {"update", "mark", "publish"}
               THEN [writer EXCEPT !.seq = next.seq, !.resizing = next.resizing]
               ELSE IF pc = "finalize" THEN writer ELSE Cached(slot')
  /\ pc' = CASE pc = "mark" -> "marked"
             [] pc = "finalize" -> "finalized"
             [] OTHER -> "idle"
  /\ UNCHANGED <<target, next, revs>>

\* write_header_to_inactive_slot up to the moment the bytes are handed to the
\* file: sequence + 1, opposite slot, prior data already synced.
write_header_to_inactive_slot(sequence, active, mark) ==
  /\ revs < MaxRev
  /\ revs' = revs + 1
  /\ target' = 1 - active
  /\ next' = [ok |-> TRUE, seq |-> sequence + 1, rev |-> revs + 1, resizing |-> mark]
  /\ UNCHANGED <<slot, acked>>

\* update_header / update_file_header outside an expansion: the caller starts
\* from the cached header, so a resize mark already in the cache is carried on.
update_header ==
  /\ pc = "idle"
  /\ write_header_to_inactive_slot(writer.seq, writer.active, writer.resizing)
  /\ pc' = "update"
  /\ UNCHANGED writer

\* expand_kv_block_online, step 1: mark the resize.
MarkResize ==
  /\ pc = "idle"
  /\ write_header_to_inactive_slot(writer.seq, writer.active, TRUE)
  /\ pc' = "mark"
  /\ UNCHANGED writer

\* finalize_expansion does not go through AppendWriter: it reads the active
\* slot from disk and writes the other one.
finalize_expansion ==
  /\ pc = "marked"
  /\ write_header_to_inactive_slot(read_active_header(slot).seq, ActiveSlot(slot), FALSE)
  /\ pc' = "finalize"
  /\ UNCHANGED writer

\* expand_kv_block_online then publishes the same layout through AppendWriter,
\* whose cache still describes the resize mark.
PublishExpansion ==
  /\ pc = "finalized"
  /\ write_header_to_inactive_slot(writer.seq, writer.active, FALSE)
  /\ pc' = "publish"
  /\ UNCHANGED writer

\* The write in flight became durable and the call returns Ok.
WriteDone ==
  /\ pc \in InFlight
  /\ slot' = [slot EXCEPT ![target] = next]
  /\ acked' = next.rev
  /\ writer' = CASE pc \in {"update", "mark", "publish"} ->
                      [seq |-> next.seq, active |-> target, resizing |-> next.resizing]
                 [] pc = "finalize" -> writer
                 [] OTHER -> Cached(slot')
  /\ pc' = CASE pc = "mark" -> "marked"
             [] pc = "finalize" -> "finalized"
             [] OTHER -> "idle"
  /\ UNCHANGED <<target, next, revs>>

\* What a slot can hold when its write was cut short: the old bytes, all of
\* the new ones, or a mixture whose CRC fails.
CutShort(i) == {[slot EXCEPT ![i] = h] : h \in {slot[i], next, Torn}}

\* write_all or the second sync_data failed: the error goes to the caller,
\* AppendWriter's cache is left alone and the engine stays open.  The failed
\* write promised nothing.
WriteFailed ==
  /\ pc \in InFlight
  /\ slot' \in CutShort(target)
  /\ writer' = IF pc = "offline" THEN Cached(slot') ELSE writer
  /\ pc' = "idle"
  /\ acked' = IF read_active_header(slot').rev < acked
              THEN read_active_header(slot').rev ELSE acked
  /\ UNCHANGED <<target, next, revs>>

\* The process dies or the machine loses power.
Crash ==
  /\ pc # "closed"
  /\ slot' \in IF pc \in InFlight THEN CutShort(target) ELSE {slot}
  /\ pc' = "closed"
  /\ acked' = IF Readable(slot') THEN read_active_header(slot').rev ELSE acked
  /\ UNCHANGED <<writer, target, next, revs>>

\* open_internal without a pending expansion.
Open ==
  /\ pc = "closed"
  /\ Readable(slot)
  /\ ~read_active_header(slot).resizing
  /\ writer' = Cached(slot)
  /\ pc' = "idle"
  /\ UNCHANGED <<slot, target, next, revs, acked>>

\* open_internal with one: the writer is dropped and expand_kv_block writes
\* the header of the new layout; the writer is reopened afterwards.
expand_kv_block ==
  /\ pc = "closed"
  /\ Readable(slot)
  /\ read_active_header(slot).resizing
  /\ write_header_to_inactive_slot(read_active_header(slot).seq, ActiveSlot(slot), FALSE)
  /\ pc' = "offline"
  /\ UNCHANGED writer

Next ==
  \/ update_header \/ MarkResize \/ finalize_expansion \/ PublishExpansion
  \/ WriteDone \/ WriteFailed \/ Crash \/ Open \/ expand_kv_block

Spec == Init /\ [][Next]_vars

-----------------------------------------------------------------------------
\* The slots a crash at this instant can leave behind.
AfterCrash == IF pc \in InFlight THEN CutShort(target) ELSE {slot}

\* Whatever instant the process dies at, one slot still parses, so the file
\* can be opened (read_active_header never returns its last match arm).
AlwaysReadable == \A s \in AfterCrash : Readable(s)

\* read_active_header never has to break a tie: two readable slots carry
\* different sequence numbers although three code paths number them.
NoSequenceTie == slot[0].ok /\ slot[1].ok => slot[0].seq # slot[1].seq

\* A header write leaves "the previously-active slot ... a valid rollback point"
\* (append_writer.rs:102): a crash never takes the header back behind what a
\* completed header write promised.  The one exception is an AppendWriter write
\* that follows finalize_expansion while the cache still holds the resize mark:
\* it overwrites the slot that finalize_expansion just published, and may fall
\* back to that mark, to nothing older.
RollbackPointKeptElsewhere ==
  \A s \in AfterCrash :
    \/ read_active_header(s).rev >= acked
    \/ /\ writer.resizing /\ read_active_header(s).resizing
       /\ read_active_header(s).seq = writer.seq
       /\ pc \in {"update", "mark", "publish"}

=============================================================================
