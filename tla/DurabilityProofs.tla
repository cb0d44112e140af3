-------------------------- MODULE DurabilityProofs --------------------------
(***************************************************************************)
(* What is acknowledged is served, what is published is on disk and a      *)
(* shutdown that reports success left nothing behind, for any requests,    *)
(* any cap of the spill, and any failures, deaths and repairs.             *)
(***************************************************************************)
EXTENDS Durability, TLAPS

-----------------------------------------------------------------------------
(* The inductive invariant.                                                 *)

\* The parts a request that is still storing has not written.
Storing == {"between", "checked", "locked"}
Closing == {"ending", "hot", "head", "ended"}
Unwritten(r) ==
  IF r.at \notin Storing THEN {}
  ELSE IF r.part = "chunk" THEN Parts ELSE IF r.part = "record" THEN {"record", "dirs"} ELSE {"dirs"}

\* Every entry there is, and the copies a start refuses on.
Copies == UNION {Range(artifacts[k].tail) : k \in DOMAIN artifacts}
Spilled == UNION {Range(artifacts[k].tail) : k \in Unapplied}

\* A request writes each of its entries once, and has stored those it wrote.
Fresh(i) == \A p \in Unwritten(rq[i]) : <<i, p>> \notin Stored \cup Copies
Kept(i) ==
  rq[i].at \in Storing \/ (rq[i].ok /\ rq[i].at \in Closing) =>
    \A p \in Parts \ Unwritten(rq[i]) : <<i, p>> \in Stored
WritesOnce ==
  /\ dirty \cup dropped \subseteq Stored
  /\ \A i \in Requests : Fresh(i) /\ Kept(i)
  /\ \A i \in answered : rq[i].at = "done"

\* Nothing runs while the server is down.
Idle ==
  up # "up" =>
    /\ ~latch /\ spilling = NotSpilling /\ stop = "no" /\ ticker.at = "idle"
    /\ \A i \in Requests : rq[i].at = "done" \/ (rq[i].at = "between" /\ rq[i].part = "chunk")

\* One spill at most is waiting to be applied, and none while a server works
\* that has not failed.
OneSpill ==
  /\ \A j, k \in Unapplied : j = k
  /\ up = "up" /\ (~latch \/ spilling # NotSpilling) => Unapplied = {}
  /\ spilling # NotSpilling => latch

\* Offsets about to be published lie within the WAL.
Offsets ==
  up = "up" =>
    /\ boundary <= Len(wal)
    /\ \A i \in Requests : rq[i].at = "head" => rq[i].offset <= Len(wal)
    /\ ticker.at = "head" => ticker.offset <= Len(wal)

\* Before a failure what a later sync cannot write is excused, and so is what
\* is not on disk of a request past its sync.  After the spill every dirty entry
\* is excused or copied.
PastSync(i) == i \in answered \/ rq[i].at \in {"hot", "head", "ended"}
CopiesUp ==
  up = "up" =>
    /\ ~latch => dirty \cap dropped \subseteq Excused
    /\ ~latch => \A i \in Requests : PastSync(i) => EntriesOf(i) \cap dirty \subseteq Excused
    /\ latch /\ spilling = NotSpilling => dirty \subseteq Excused \cup Spilled
    /\ \A i \in answered : EntriesOf(i) \subseteq Stored \cup Excused
CopiesDown ==
  up = "down" =>
    /\ dirty \cap dropped \subseteq Excused \cup Spilled
    /\ \A i \in answered :
         EntriesOf(i) \subseteq Stored \cup Excused \cup Spilled /\ EntriesOf(i) \cap dirty \subseteq Excused \cup Spilled
CopiesRepair ==
  up = "repair" =>
    /\ Spilled \subseteq Stored /\ dirty \subseteq Excused
    /\ \A i \in answered : EntriesOf(i) \subseteq Stored \cup Excused

Copied == CopiesUp /\ CopiesDown /\ CopiesRepair

\* A shutdown past its drain has no operation running, and past a flush that
\* worked nothing left to write.
Drained ==
  /\ stop # "no" => shutting_down
  /\ stop \notin {"no", "draining"} => Active = {}
  /\ stop \in {"header", "ok"} => dirty \subseteq Excused

DurabilityInv ==
  /\ DTypeOK /\ WritesOnce /\ Idle /\ OneSpill /\ Offsets
  /\ Copied /\ Drained /\ PublishedDurable

-----------------------------------------------------------------------------
(* Types *)

USE DurabilityAssumption

\* Request i moves to `at`, with these parts, outcome and offset.
Moves(i, at, part, ok, offset) ==
  /\ rq' \in [Requests -> RequestRecord]
  /\ \A j \in Requests : j # i => rq'[j] = rq[j]
  /\ rq'[i].at = at /\ rq'[i].part = part /\ rq'[i].ok = ok /\ rq'[i].offset = offset

Places == {"between", "checked", "locked", "ending", "hot", "head", "ended", "done"}

LEMMA MovesAt ==
  ASSUME rq \in [Requests -> RequestRecord], NEW i \in Requests, NEW a \in Places,
         rq' = [rq EXCEPT ![i].at = a]
  PROVE  Moves(i, a, rq[i].part, rq[i].ok, rq[i].offset)
BY DEF Moves, RequestRecord, Places

LEMMA MovesHead ==
  ASSUME rq \in [Requests -> RequestRecord], NEW i \in Requests, NEW n \in Nat,
         rq' = [rq EXCEPT ![i].at = "head", ![i].offset = n]
  PROVE  Moves(i, "head", rq[i].part, rq[i].ok, n)
BY Zenon DEF Moves, RequestRecord, Places

LEMMA MovesDone ==
  ASSUME rq \in [Requests -> RequestRecord], NEW i \in Requests,
         rq' = [rq EXCEPT ![i].at = "done", ![i].txn = FALSE]
  PROVE  Moves(i, "done", rq[i].part, rq[i].ok, rq[i].offset)
BY ZenonT(30) DEF Moves, RequestRecord, Places

LEMMA MovesWritten ==
  ASSUME rq \in [Requests -> RequestRecord], NEW i \in Requests, rq' = [rq EXCEPT ![i] = AfterPart(@)]
  PROVE  \/ rq[i].part = "chunk" /\ Moves(i, "between", "record", rq[i].ok, rq[i].offset)
         \/ rq[i].part = "record" /\ Moves(i, "between", "dirs", rq[i].ok, rq[i].offset)
         \/ rq[i].part = "dirs" /\ Moves(i, "ending", "dirs", rq[i].ok, rq[i].offset)
BY ZenonT(30) DEF Moves, RequestRecord, Places, AfterPart, Parts

LEMMA MovesBegun ==
  ASSUME rq \in [Requests -> RequestRecord], NEW i \in Requests, begin(i)
  PROVE  \/ ~shutting_down /\ ~latch /\ Moves(i, "checked", rq[i].part, rq[i].ok, rq[i].offset)
         \/ (shutting_down \/ latch) /\ rq[i].part = "chunk" /\ Moves(i, "done", rq[i].part, FALSE, rq[i].offset)
         \/ (shutting_down \/ latch) /\ rq[i].part # "chunk" /\ Moves(i, "ending", rq[i].part, FALSE, rq[i].offset)
<1> DEFINE r == rq[i]
<1>1. r \in RequestRecord
  OBVIOUS
<1>2. PICK v \in BOOLEAN : v = (r.part # "chunk")
  BY Zenon
<1>3. CASE ~shutting_down /\ ~latch
  <2>1. LET q == [r EXCEPT !.at = "checked", !.txn = v]
        IN  q \in RequestRecord /\ q.at = "checked" /\ q.part = r.part /\ q.ok = r.ok /\ q.offset = r.offset
    BY Zenon, <1>1 DEF RequestRecord, Places
  <2>2. rq' = [rq EXCEPT ![i] = [r EXCEPT !.at = "checked", !.txn = v]]
    BY <1>2, <1>3 DEF begin
  <2>3. QED
    BY <1>3, <2>1, <2>2 DEF Moves
<1>4. CASE shutting_down \/ latch
  <2>1. PICK a \in Places : a = IF r.part = "chunk" THEN "done" ELSE "ending"
    BY DEF Places
  <2>2. LET q == [r EXCEPT !.at = a, !.txn = v, !.ok = FALSE]
        IN  q \in RequestRecord /\ q.at = a /\ q.part = r.part /\ q.ok = FALSE /\ q.offset = r.offset
    BY Zenon, <1>1 DEF RequestRecord, Places
  <2>3. rq' = [rq EXCEPT ![i] = [r EXCEPT !.at = a, !.txn = v, !.ok = FALSE]]
    BY Zenon, <1>2, <1>4, <2>1 DEF begin
  <2>4. Moves(i, a, r.part, FALSE, r.offset)
    BY <2>2, <2>3 DEF Moves
  <2>5. QED
    BY Zenon, <1>4, <2>1, <2>4
<1>5. QED
  BY Zenon, <1>3, <1>4

-----------------------------------------------------------------------------
(* Sequences of entries.                                                    *)

Written == Entries \cup {TornEntry}

LEMMA AppendSet ==
  ASSUME NEW S, NEW s \in Seq(S), NEW e \in S
  PROVE  /\ Append(s, e) \in Seq(S) /\ Len(Append(s, e)) = Len(s) + 1
         /\ \A k \in 1..Len(s) : Append(s, e)[k] = s[k]
         /\ Range(Append(s, e)) = Range(s) \cup {e}
<1>1. /\ Append(s, e) \in Seq(S) /\ Len(Append(s, e)) = Len(s) + 1 /\ Append(s, e)[Len(s) + 1] = e
      /\ \A k \in 1..Len(s) : Append(s, e)[k] = s[k]
  OBVIOUS
<1>2. Range(Append(s, e)) = Range(s) \cup {e}
  BY <1>1 DEF Range
<1>3. QED
  BY <1>1, <1>2

LEMMA SubSeqSet ==
  ASSUME NEW S, NEW s \in Seq(S), NEW m \in Nat, NEW n \in Nat, n <= Len(s)
  PROVE  /\ SubSeq(s, m + 1, n) \in Seq(S)
         /\ Range(SubSeq(s, m + 1, n)) = {s[k] : k \in (m + 1)..n}
<1>1. SubSeq(s, m + 1, n) \in Seq(S)
  OBVIOUS
<1>2. CASE n <= m
  <2>1. SubSeq(s, m + 1, n) = <<>> /\ (m + 1)..n = {}
    BY <1>2
  <2>2. QED
    BY <1>1, <2>1 DEF Range
<1>3. CASE m < n
  <2>1. Len(SubSeq(s, m + 1, n)) = n - m /\ \A k \in 1..(n - m) : SubSeq(s, m + 1, n)[k] = s[m + k]
    BY <1>3
  <2>2. \A k \in (m + 1)..n : k - m \in 1..(n - m) /\ s[k] = SubSeq(s, m + 1, n)[k - m]
    BY <1>3, <2>1
  <2>3. \A k \in 1..(n - m) : m + k \in (m + 1)..n
    BY <1>3
  <2>4. DOMAIN SubSeq(s, m + 1, n) = 1..(n - m)
    BY <1>1, <2>1
  <2>5. PICK q : q = SubSeq(s, m + 1, n)
    BY Zenon
  <2>6. Range(q) = {q[k] : k \in 1..(n - m)}
    BY Zenon, <2>4, <2>5 DEF Range
  <2>7. {q[k] : k \in 1..(n - m)} = {s[k] : k \in (m + 1)..n}
    <3>1. \A k \in 1..(n - m) : q[k] = s[m + k] /\ m + k \in (m + 1)..n
      BY Zenon, <2>1, <2>3, <2>5
    <3>2. \A k \in (m + 1)..n : k - m \in 1..(n - m) /\ s[k] = q[k - m]
      BY <2>2, <2>5
    <3>3. QED
      BY <3>1, <3>2
  <2>8. QED
    BY Zenon, <1>1, <2>5, <2>6, <2>7
<1>4. QED
  BY <1>2, <1>3

\* What the spill copies: the entries from its start to the end, where the
\* writer lock is free.
LEMMA CopyFields ==
  ASSUME DTypeOK
  PROVE  LET a == copy_wal_tail_to_file
         IN  /\ a \in Artifact /\ [a EXCEPT !.torn = TRUE] \in Artifact
             /\ a.found = WriterUnlocked /\ ~a.torn /\ ~a.applied
             /\ a.start \in Nat /\ a.start <= Len(wal)
             /\ a.tail = IF WriterUnlocked THEN SubSeq(wal, a.start + 1, Len(wal)) ELSE <<>>
             /\ [a EXCEPT !.torn = TRUE].torn /\ [a EXCEPT !.torn = TRUE].tail = a.tail
<1> DEFINE end == Len(wal)
           start_ == IF boundary < end THEN boundary ELSE end
           from == IF SpillMax > 0 /\ end - start_ > SpillMax THEN end - SpillMax ELSE start_
           tail_ == IF WriterUnlocked THEN SubSeq(wal, from + 1, end) ELSE <<>>
<1>1. end \in Nat /\ start_ \in Nat /\ start_ <= end
  BY DEF DTypeOK
<1>2. from \in Nat /\ from <= end
  BY <1>1
<1>3. tail_ \in Seq(Written)
  <2>1. <<>> \in Seq(Written)
    OBVIOUS
  <2>2. wal \in Seq(Written)
    BY DEF DTypeOK, Written
  <2>3. QED
    BY <1>1, <1>2, <2>1, <2>2, SubSeqSet
<1>4. PICK f, w : f = WriterUnlocked /\ f \in BOOLEAN /\ w = (from = boundary) /\ w \in BOOLEAN
  BY Zenon DEF WriterUnlocked
<1>5. copy_wal_tail_to_file = [found |-> f, start |-> from, whole |-> w, tail |-> tail_, torn |-> FALSE, applied |-> FALSE]
  BY <1>4 DEF copy_wal_tail_to_file
<1> HIDE DEF from, tail_, end, start_
<1>6. copy_wal_tail_to_file \in Artifact /\ [copy_wal_tail_to_file EXCEPT !.torn = TRUE] \in Artifact
  BY Zenon, <1>2, <1>3, <1>4, <1>5 DEF Artifact, Written
<1>7. /\ copy_wal_tail_to_file.start = from /\ copy_wal_tail_to_file.tail = tail_ /\ copy_wal_tail_to_file.found = f
      /\ ~copy_wal_tail_to_file.torn /\ ~copy_wal_tail_to_file.applied
      /\ [copy_wal_tail_to_file EXCEPT !.torn = TRUE].torn /\ [copy_wal_tail_to_file EXCEPT !.torn = TRUE].tail = tail_
  BY <1>5
<1>8. QED
  BY <1>2, <1>4, <1>6, <1>7 DEF tail_, end

-----------------------------------------------------------------------------
(* Kinds of steps.                                                          *)

\* No entry is written, synced or copied.
QuietStep ==
  up = "up" /\ UNCHANGED <<wal, voided, dirty, dropped, boundary, latch, spilling, artifacts, ticker, up, excused>>

\* A sync that works, one that fails and is recorded, or none after all.
SyncStep ==
  /\ up = "up" /\ UNCHANGED <<wal, voided, artifacts, excused, up, answered, shutting_down>>
  /\ \/ dirty' = dirty \cap dropped /\ UNCHANGED <<dropped, latch, spilling>>
     \/ /\ UNCHANGED dirty /\ dropped' \in {dropped, dirty} /\ latch'
        /\ IF latch THEN UNCHANGED spilling ELSE spilling' \in Spillers \ {NotSpilling}
     \/ UNCHANGED <<dirty, dropped, latch, spilling, boundary, rq, stop>>

LEMMA Recorded ==
  ASSUME NEW who \in Requests \cup {"timer", "stop"}, NEW holding \in BOOLEAN, record_durability_failure(who, holding)
  PROVE  latch' /\ IF latch THEN UNCHANGED spilling ELSE spilling' \in Spillers \ {NotSpilling}
<1>1. who # "none"
  OBVIOUS
<1>2. [by |-> who, holding |-> holding].by # NotSpilling.by
  BY <1>1 DEF NotSpilling
<1>3. [by |-> who, holding |-> holding] \in Spillers
  BY DEF Spillers
<1>4. QED
  BY <1>2, <1>3 DEF record_durability_failure

LEMMA RequestSyncs ==
  ASSUME NEW i \in Requests, et_sync(i) \/ et_hot(i) \/ et_head(i)
  PROVE  SyncStep /\ UNCHANGED <<ticker, hotbuf, stop>>
<1>1. CASE et_sync(i)
  BY Zenon, <1>1, Recorded DEF et_sync, SyncStep, Synced, SyncFails
<1>2. CASE et_hot(i)
  BY Zenon, <1>2, Recorded DEF et_hot, SyncStep, Synced, SyncFails
<1>3. CASE et_head(i)
  BY Zenon, <1>3, Recorded DEF et_head, SyncStep, Synced, SyncFails
<1>4. QED
  BY <1>1, <1>2, <1>3

LEMMA TimerSyncs == Timer => SyncStep /\ UNCHANGED <<rq, stop>>
<1>1. CASE timer_sync
  BY Zenon, <1>1, Recorded DEF timer_sync, SyncStep, Synced, SyncFails
<1>2. CASE timer_hot
  BY Zenon, <1>2, Recorded DEF timer_hot, SyncStep, Synced, SyncFails
<1>3. CASE timer_head
  BY Zenon, <1>3, Recorded DEF timer_head, SyncStep, Synced, SyncFails
<1>4. QED
  BY <1>1, <1>2, <1>3 DEF Timer

LEMMA StopSyncs == shutdown_flush \/ shutdown_header => SyncStep /\ UNCHANGED <<rq, ticker>>
<1>1. CASE shutdown_flush
  BY Zenon, <1>1, Recorded DEF shutdown_flush, SyncStep, Synced, SyncFails
<1>2. CASE shutdown_header
  BY Zenon, <1>2, Recorded DEF shutdown_header, SyncStep, Synced, SyncFails
<1>3. QED
  BY <1>1, <1>2

\* Where a request goes in the steps of its transaction's end.
LEMMA RequestMoves ==
  ASSUME DTypeOK, NEW i \in Requests, et_sync(i) \/ et_hot(i) \/ et_head(i)
  PROVE  /\ rq[i].at \in {"ending", "hot", "head"}
         /\ \E a \in {"hot", "head", "ended"}, n \in Nat :
              /\ Moves(i, a, rq[i].part, rq[i].ok, n)
              /\ a = "head" => n = Len(wal)
<1>1. rq \in [Requests -> RequestRecord] /\ rq[i].offset \in Nat /\ Len(wal) \in Nat
  BY DEF DTypeOK, RequestRecord
<1>2. CASE et_sync(i)
  <2>1. (rq' = [rq EXCEPT ![i].at = "hot"] \/ rq' = [rq EXCEPT ![i].at = "ended"]) /\ rq[i].at = "ending"
    BY Zenon, <1>2 DEF et_sync
  <2>2. QED
    BY <1>1, <2>1, MovesAt DEF Places
<1>3. CASE et_hot(i)
  <2>1. (rq' = [rq EXCEPT ![i].at = "head", ![i].offset = Len(wal)] \/ rq' = [rq EXCEPT ![i].at = "ended"]) /\ rq[i].at = "hot"
    BY Zenon, <1>3 DEF et_hot
  <2>2. QED
    BY Zenon, <1>1, <2>1, MovesAt, MovesHead DEF Places
<1>4. CASE et_head(i)
  <2>1. rq' = [rq EXCEPT ![i].at = "ended"] /\ rq[i].at = "head"
    BY <1>4 DEF et_head
  <2>2. QED
    BY Zenon, <1>1, <2>1, MovesAt DEF Places
<1>5. QED
  BY Zenon, <1>2, <1>3, <1>4

\* After a death no request is in the middle of anything.
LEMMA DepartedRequests ==
  ASSUME DTypeOK, NEW torn, Departed(torn)
  PROVE  /\ rq' \in [Requests -> RequestRecord]
         /\ \A i \in Requests : rq'[i].at = "done" \/ (rq'[i].at = "between" /\ rq'[i].part = "chunk" /\ rq'[i] = rq[i])
<1>1. \A i \in Requests :
        LET r == [rq[i] EXCEPT !.at = "done", !.txn = FALSE]
        IN  r \in RequestRecord /\ r.at = "done"
  BY ZenonT(30) DEF DTypeOK, RequestRecord
<1>2. rq' = [i \in Requests |-> IF rq[i].at = "between" /\ rq[i].part = "chunk" THEN rq[i]
                               ELSE [rq[i] EXCEPT !.at = "done", !.txn = FALSE]]
  BY Zenon DEF Departed
<1>3. QED
  BY Zenon, <1>1, <1>2 DEF DTypeOK

-----------------------------------------------------------------------------
LEMMA DTypeInit == DInit => DTypeOK
<1> SUFFICES ASSUME DInit PROVE DTypeOK
  OBVIOUS
<1>1. rq \in [Requests -> RequestRecord]
  BY DEF DInit, RequestRecord, Parts
<1>2. wal \in Seq(Entries \cup {TornEntry}) /\ artifacts \in Seq(Artifact)
  BY DEF DInit
<1>3. NotSpilling \in Spillers
  BY DEF NotSpilling, Spillers
<1>4. QED
  BY Zenon, <1>1, <1>2, <1>3 DEF DInit, DTypeOK

LEMMA SyncTypes ==
  ASSUME DTypeOK, SyncStep
  PROVE  /\ wal' = wal /\ artifacts' = artifacts /\ up' = up /\ answered' = answered /\ shutting_down' = shutting_down
         /\ voided' = voided /\ dirty' \subseteq dirty /\ dropped' \subseteq dropped \cup dirty
         /\ latch' \in BOOLEAN /\ spilling' \in Spillers
BY Zenon DEF DTypeOK, SyncStep

LEMMA ArtifactFields ==
  ASSUME DTypeOK, NEW k \in DOMAIN artifacts
  PROVE  /\ artifacts[k] \in Artifact /\ artifacts[k].start \in Nat
         /\ artifacts[k].tail \in Seq(Written) /\ artifacts[k].applied \in BOOLEAN
<1>1. artifacts[k] \in Artifact
  BY DEF DTypeOK
<1>2. QED
  BY <1>1 DEF Artifact, Written

LEMMA MarkedFields ==
  ASSUME DTypeOK
  PROVE  /\ mark_artifacts_applied \in Seq(Artifact) /\ DOMAIN mark_artifacts_applied = DOMAIN artifacts
         /\ \A k \in DOMAIN artifacts :
              LET a == mark_artifacts_applied[k]
              IN  /\ a.tail = artifacts[k].tail /\ a.found = artifacts[k].found /\ a.torn = artifacts[k].torn
                  /\ a.applied = (artifacts[k].applied \/ k \in Unapplied)
<1> DEFINE mark(k, v) == [artifacts[k] EXCEPT !.applied = v]
<1>1. ASSUME NEW k \in DOMAIN artifacts, NEW v \in BOOLEAN
      PROVE  /\ mark(k, v) \in Artifact /\ mark(k, v).tail = artifacts[k].tail /\ mark(k, v).found = artifacts[k].found
             /\ mark(k, v).torn = artifacts[k].torn /\ mark(k, v).applied = v
  <2>1. PICK a \in Artifact : a = artifacts[k]
    BY ArtifactFields
  <2>2. LET b == [a EXCEPT !.applied = v]
        IN  b \in Artifact /\ b.tail = a.tail /\ b.found = a.found /\ b.torn = a.torn /\ b.applied = v
    BY <2>1 DEF Artifact
  <2>3. QED
    BY <2>1, <2>2
<1>2. DOMAIN artifacts = 1..Len(artifacts) /\ Len(artifacts) \in Nat
  BY DEF DTypeOK
<1>3. mark_artifacts_applied = [k \in DOMAIN artifacts |-> mark(k, artifacts[k].applied \/ k \in Unapplied)]
  BY DEF mark_artifacts_applied
<1>4. \A k \in DOMAIN artifacts : (artifacts[k].applied \/ k \in Unapplied) \in BOOLEAN
  OBVIOUS
<1> HIDE DEF mark
<1>5. \A k \in DOMAIN artifacts : mark_artifacts_applied[k] = mark(k, artifacts[k].applied \/ k \in Unapplied)
  BY <1>3
<1>6. \A k \in 1..Len(artifacts) : mark_artifacts_applied[k] \in Artifact
  BY ZenonT(30), <1>1, <1>2, <1>4, <1>5
<1>7. mark_artifacts_applied \in Seq(Artifact)
  BY <1>2, <1>3, <1>6
<1>8. QED
  BY Zenon, <1>1, <1>3, <1>4, <1>5, <1>7

\* A tail laid over a sequence it agrees with as far as that goes.
LEMMA Overlaid ==
  ASSUME NEW S, NEW w \in Seq(S), NEW t \in Seq(S), NEW b \in Nat, b <= Len(w), Len(w) - b < Len(t),
         \A j \in 1..(Len(w) - b) : w[b + j] = t[j]
  PROVE  /\ SubSeq(w, 1, b) \o t \in Seq(S)
         /\ Range(SubSeq(w, 1, b) \o t) = Range(w) \cup Range(t)
<1>1. PICK h : h = SubSeq(w, 1, b)
  BY Zenon
<1>2. h \in Seq(S) /\ Len(h) = b /\ \A j \in 1..b : h[j] = w[j]
  BY <1>1
<1>3. PICK x : x = h \o t
  BY Zenon
<1>4. /\ x \in Seq(S) /\ Len(x) = b + Len(t)
      /\ \A j \in 1..b : x[j] = h[j]
      /\ \A j \in 1..Len(t) : x[b + j] = t[j]
  <2>1. x \in Seq(S) /\ Len(x) = b + Len(t)
    <3>1. h \in Seq(S)
      BY <1>2
    <3>2. h \o t \in Seq(S) /\ Len(h \o t) = Len(h) + Len(t)
      BY <3>1
    <3>3. QED
      BY <1>2, <1>3, <3>2
  <2>2. \A j \in 1..(b + Len(t)) : x[j] = IF j <= b THEN h[j] ELSE t[j - b]
    BY <1>2, <1>3
  <2>3. \A j \in 1..Len(t) : b + j \in 1..(b + Len(t)) /\ ~(b + j <= b) /\ (b + j) - b = j
    OBVIOUS
  <2>4. \A j \in 1..Len(t) : x[b + j] = t[j]
    BY Zenon, <2>2, <2>3
  <2>5. \A j \in 1..b : j \in 1..(b + Len(t)) /\ j <= b
    OBVIOUS
  <2>6. QED
    BY Zenon, <2>1, <2>2, <2>4, <2>5
<1>5. \A j \in 1..b : x[j] = w[j] /\ j \in 1..Len(w)
  BY <1>2, <1>4
<1>6. \A j \in 1..Len(w) : x[j] = w[j] /\ j \in 1..Len(x)
  <2> SUFFICES ASSUME NEW j \in 1..Len(w) PROVE x[j] = w[j] /\ j \in 1..Len(x)
    BY Zenon
  <2>1. CASE j <= b
    BY <1>4, <1>5, <2>1
  <2>2. CASE j > b
    <3>1. PICK m \in 1..(Len(w) - b) : j = b + m
      <4>1. j - b \in 1..(Len(w) - b) /\ j = b + (j - b)
        BY <2>2
      <4>2. QED
        BY <4>1
    <3>2. m \in 1..Len(t)
      OBVIOUS
    <3>3. QED
      BY <1>4, <3>1, <3>2
  <2>3. QED
    BY <2>1, <2>2
<1>7. \A j \in 1..Len(t) : b + j \in 1..Len(x) /\ x[b + j] = t[j]
  BY <1>4
<1>8. \A j \in 1..Len(x) : j <= b \/ (j - b \in 1..Len(t) /\ x[j] = t[j - b])
  <2> SUFFICES ASSUME NEW j \in 1..Len(x), ~(j <= b) PROVE j - b \in 1..Len(t) /\ x[j] = t[j - b]
    OBVIOUS
  <2>1. j - b \in 1..Len(t) /\ b + (j - b) = j
    BY <1>4
  <2>2. QED
    BY Zenon, <1>4, <2>1
<1>9. Range(w) = {w[j] : j \in 1..Len(w)} /\ Range(t) = {t[j] : j \in 1..Len(t)} /\ Range(x) = {x[j] : j \in 1..Len(x)}
  <2>1. DOMAIN w = 1..Len(w) /\ DOMAIN t = 1..Len(t) /\ DOMAIN x = 1..Len(x)
    BY <1>4
  <2>2. QED
    BY <2>1 DEF Range
<1>10. Range(w) \cup Range(t) \subseteq Range(x)
  BY Zenon, <1>6, <1>7, <1>9
<1>11. Range(x) \subseteq Range(w) \cup Range(t)
  <2> SUFFICES ASSUME NEW j \in 1..Len(x) PROVE x[j] \in Range(w) \cup Range(t)
    BY Zenon, <1>9
  <2>1. CASE j <= b
    <3>1. j \in 1..b
      BY <1>4, <2>1
    <3>2. QED
      BY Zenon, <1>5, <1>9, <3>1
  <2>2. CASE ~(j <= b)
    BY Zenon, <1>8, <1>9, <2>2
  <2>3. QED
    BY <2>1, <2>2
<1>12. QED
  BY Zenon, <1>1, <1>3, <1>4, <1>10, <1>11

\* apply_one_wal_tail loses nothing the file has, and leaves all of the tail in it.
LEMMA TailApplied ==
  ASSUME DTypeOK, NEW k \in Unapplied, apply_wal_tails_to_database(artifacts[k])
  PROVE  wal' \in Seq(Written) /\ Range(wal') = Range(wal) \cup Range(artifacts[k].tail)
<1>1. k \in DOMAIN artifacts
  BY DEF Unapplied
<1>2. PICK a : a = artifacts[k]
  OBVIOUS
<1>3. PICK t \in Seq(Written), b \in Nat, w \in Seq(Written) : t = a.tail /\ b = a.start /\ w = wal
  BY Zenon, <1>1, <1>2, ArtifactFields DEF DTypeOK, Written
<1>4. (t = <<>> \/ Agrees(a)) /\ wal' = IF t = <<>> THEN w ELSE ApplyTail(a)
  BY <1>2, <1>3 DEF apply_wal_tails_to_database
<1>5. CASE t = <<>>
  <2>1. Range(t) = {}
    BY <1>5 DEF Range
  <2>2. QED
    BY <1>2, <1>3, <1>4, <1>5, <2>1
<1>6. CASE t # <<>>
  <2>1. b <= Len(w) /\ \A j \in 1..Overlap(a) : w[b + j] = t[j]
    BY <1>3, <1>4, <1>6 DEF Agrees
  <2>2. Overlap(a) = IF Len(w) - b < Len(t) THEN Len(w) - b ELSE Len(t)
    BY <1>3 DEF Overlap
  <2>3. wal' = IF Len(w) - b >= Len(t) THEN w ELSE SubSeq(w, 1, b) \o t
    BY <1>3, <1>4, <1>6 DEF ApplyTail
  <2>4. CASE Len(w) - b >= Len(t)
    <3>1. \A j \in 1..Len(t) : t[j] = w[b + j] /\ b + j \in 1..Len(w)
      BY <2>1, <2>2, <2>4
    <3>2. Range(t) \subseteq Range(w)
      BY <3>1 DEF Range
    <3>3. QED
      BY Zenon, <1>2, <1>3, <2>3, <2>4, <3>2
  <2>5. CASE Len(w) - b < Len(t)
    <3>0. \A j \in 1..(Len(w) - b) : w[b + j] = t[j]
      BY <2>1, <2>2, <2>5
    <3>1. /\ SubSeq(w, 1, b) \o t \in Seq(Written)
          /\ Range(SubSeq(w, 1, b) \o t) = Range(w) \cup Range(t)
      BY <2>1, <2>5, <3>0, Overlaid
    <3>2. wal' = SubSeq(w, 1, b) \o t
      BY <2>3, <2>5
    <3>3. QED
      BY Zenon, <1>2, <1>3, <3>1, <3>2
  <2>6. QED
    BY <2>4, <2>5
<1>7. QED
  BY <1>5, <1>6

LEMMA ExcusedMore ==
  ASSUME NEW es, NEW why, excused' = excused \cup Because(es, why)
  PROVE  Excused' = Excused \cup es
<1>1. \A e \in es : [entry |-> e, why |-> why] \in excused' /\ [entry |-> e, why |-> why].entry = e
  BY DEF Because
<1>2. \A x \in excused' : x \in excused \/ \E e \in es : x.entry = e
  BY DEF Because
<1>3. QED
  BY Zenon, <1>1, <1>2 DEF Excused

LEMMA WrittenFields ==
  ASSUME DTypeOK, NEW i \in Requests, NEW inVoid \in BOOLEAN, write_entry(i, inVoid)
  PROVE  /\ <<i, rq[i].part>> \in Entries /\ rq[i].at = "locked" /\ up = "up"
         /\ wal' \in Seq(Written) /\ Len(wal') >= Len(wal) /\ \A k \in 1..Len(wal) : wal'[k] = wal[k]
         /\ \A k \in 1..Len(wal') : k > Len(wal) => wal'[k] = <<i, rq[i].part>>
         /\ Stored' = Stored \cup {<<i, rq[i].part>>}
         /\ voided' \subseteq voided \cup {<<i, rq[i].part>>} /\ dirty' = dirty \cup {<<i, rq[i].part>>}
         /\ excused \subseteq excused' /\ (latch /\ spilling = NotSpilling => <<i, rq[i].part>> \in Excused')
         /\ UNCHANGED <<dropped, boundary, latch, spilling, artifacts, ticker, shutting_down, stop, up, answered>>
<1>1. PICK e \in Entries : e = <<i, rq[i].part>>
  BY Zenon DEF DTypeOK, RequestRecord, Entries
<1>2. wal \in Seq(Written) /\ e \in Written
  BY DEF DTypeOK, Written
<1>3. /\ Append(wal, e) \in Seq(Written) /\ Len(Append(wal, e)) = Len(wal) + 1
      /\ \A k \in 1..Len(wal) : Append(wal, e)[k] = wal[k]
      /\ Range(Append(wal, e)) = Range(wal) \cup {e}
  BY <1>2, AppendSet
<1>4. Append(wal, e)[Len(wal) + 1] = e
  BY <1>2
<1>5. /\ (inVoid /\ wal' = wal /\ voided' = voided \cup {e}) \/ (~inVoid /\ wal' = Append(wal, e) /\ voided' = voided)
      /\ dirty' = dirty \cup {e}
      /\ excused' = IF latch /\ spilling = NotSpilling THEN excused \cup Because({e}, "late") ELSE excused
      /\ up = "up" /\ rq[i].at = "locked"
      /\ UNCHANGED <<dropped, boundary, latch, spilling, artifacts, ticker, shutting_down, stop, up, answered>>
  BY Zenon, <1>1 DEF write_entry
<1>6. wal' \in Seq(Written) /\ Len(wal') >= Len(wal) /\ \A k \in 1..Len(wal) : wal'[k] = wal[k]
  BY <1>2, <1>3, <1>5
<1>7. \A k \in 1..Len(wal') : k > Len(wal) => wal'[k] = e
  BY <1>2, <1>3, <1>4, <1>5
<1>8. Stored' = Stored \cup {e}
  BY Zenon, <1>3, <1>5 DEF Stored
<1>9. latch /\ spilling = NotSpilling => e \in Excused'
  BY <1>5, ExcusedMore
<1>10. QED
  BY Zenon, <1>1, <1>5, <1>6, <1>7, <1>8, <1>9

LEMMA LostFields ==
  ASSUME DTypeOK, NEW n \in Lengths, NEW t \in BOOLEAN, NEW l \in BOOLEAN, PowerLoss(n, t, l)
  PROVE  /\ wal' \in Seq(Written) /\ voided' \subseteq voided
         /\ Stored' \subseteq Stored \cup {TornEntry} /\ Stored \ dirty \subseteq Stored'
         /\ dirty' = {} /\ dropped' = {} /\ Departed(FALSE)
<1>1. wal \in Seq(Written) /\ n \in Nat /\ n <= Len(wal) /\ \A k \in (n + 1)..Len(wal) : wal[k] \in dirty
  BY DEF DTypeOK, Written, Lengths
<1>2. wal' = [k \in 1..n |-> IF t /\ wal[k] \in dirty THEN TornEntry ELSE wal[k]]
  BY DEF PowerLoss
<1>3. \A k \in 1..n : wal[k] \in Written /\ k \in 1..Len(wal)
  BY <1>1
<1>4. \A k \in 1..n : wal'[k] \in Written /\ wal'[k] \in {wal[k], TornEntry} /\ (wal[k] \notin dirty => wal'[k] = wal[k])
  BY <1>2, <1>3 DEF Written
<1>5. DOMAIN wal' = 1..n /\ DOMAIN wal = 1..Len(wal)
  BY <1>1, <1>2
<1>6. wal' \in Seq(Written)
  BY <1>1, <1>2, <1>4
<1>7. Range(wal') \subseteq Range(wal) \cup {TornEntry}
  BY <1>3, <1>4, <1>5 DEF Range
<1>8. Range(wal) \ dirty \subseteq Range(wal')
  <2> SUFFICES ASSUME NEW k \in 1..Len(wal), wal[k] \notin dirty PROVE wal[k] \in Range(wal')
    BY <1>5 DEF Range
  <2>1. k \in 1..n
    BY <1>1
  <2>2. QED
    BY <1>4, <1>5, <2>1 DEF Range
<1>9. voided' \subseteq voided /\ voided \ dirty \subseteq voided' /\ dirty' = {} /\ dropped' = {} /\ Departed(FALSE)
  BY Zenon DEF PowerLoss
<1>10. QED
  BY Zenon, <1>6, <1>7, <1>8, <1>9 DEF Stored

LEMMA DTypeNext == DTypeOK /\ [DNext]_dvars => DTypeOK'
<1> SUFFICES ASSUME DTypeOK, [DNext]_dvars PROVE DTypeOK'
  OBVIOUS
<1>1. ASSUME NEW i \in Requests, begin(i) PROVE DTypeOK'
  <2>1. rq' \in [Requests -> RequestRecord]
    BY Zenon, <1>1, MovesBegun DEF DTypeOK, Moves
  <2>2. QED
    BY Zenon, <1>1, <2>1 DEF begin, DTypeOK
<1>2. ASSUME NEW i \in Requests, lock(i) PROVE DTypeOK'
  <2>1. rq' \in [Requests -> RequestRecord]
    BY Zenon, <1>2, MovesAt DEF lock, DTypeOK, Moves, Places
  <2>2. QED
    BY <1>2, <2>1 DEF lock, DTypeOK
<1>3. ASSUME NEW i \in Requests, NEW v \in BOOLEAN, write_entry(i, v) PROVE DTypeOK'
  <2>1. rq' \in [Requests -> RequestRecord]
    BY Zenon, <1>3, MovesWritten DEF write_entry, DTypeOK, Moves
  <2>2. PICK e \in Entries : /\ wal' \in Seq(Written) /\ voided' \subseteq voided \cup {e} /\ dirty' = dirty \cup {e}
                             /\ UNCHANGED <<dropped, boundary, latch, spilling, artifacts, ticker, shutting_down, stop, up, answered>>
    BY Zenon, <1>3, WrittenFields
  <2>3. hotbuf' = TRUE
    BY Zenon, <1>3 DEF write_entry
  <2>4. QED
    BY <2>1, <2>2, <2>3 DEF DTypeOK, Written
<1>4. ASSUME NEW i \in Requests, et_sync(i) \/ et_hot(i) \/ et_head(i) PROVE DTypeOK'
  <2>1. rq' \in [Requests -> RequestRecord]
    BY Zenon, <1>4, RequestMoves DEF Moves
  <2>2. SyncStep /\ UNCHANGED <<ticker, hotbuf, stop>>
    BY <1>4, RequestSyncs
  <2>3. boundary' \in Nat
    <3>1. rq[i].offset \in Nat /\ boundary \in Nat
      BY DEF DTypeOK, RequestRecord
    <3>2. QED
      BY Zenon, <1>4, <3>1 DEF et_sync, et_hot, et_head
  <2>4. QED
    BY Zenon, <2>1, <2>2, <2>3, SyncTypes DEF DTypeOK
<1>5. ASSUME NEW i \in Requests, answer_request(i) PROVE DTypeOK'
  <2>1. rq' \in [Requests -> RequestRecord]
    BY Zenon, <1>5, MovesDone DEF answer_request, DTypeOK, Moves
  <2>2. QED
    BY Zenon, <1>5, <2>1 DEF answer_request, DTypeOK
<1>6. CASE Timer
  <2>1. SyncStep /\ UNCHANGED <<rq, stop>>
    BY <1>6, TimerSyncs
  <2>2. boundary' \in Nat /\ hotbuf' \in BOOLEAN
    BY Zenon, <1>6 DEF Timer, timer_sync, timer_hot, timer_head, DTypeOK
  <2>3. \A a \in {"idle", "hot", "head"} : [ticker EXCEPT !.at = a] \in [at : {"idle", "hot", "head"}, offset : Nat]
    BY DEF DTypeOK
  <2>4. [at |-> "head", offset |-> Len(wal)] \in [at : {"idle", "hot", "head"}, offset : Nat]
    BY DEF DTypeOK
  <2>5. ticker' \in [at : {"idle", "hot", "head"}, offset : Nat]
    BY Zenon, <1>6, <2>3, <2>4 DEF Timer, timer_sync, timer_hot, timer_head, DTypeOK
  <2>6. QED
    BY Zenon, <2>1, <2>2, <2>5, SyncTypes DEF DTypeOK
<1>7. CASE shutdown_flush \/ shutdown_header
  <2>1. SyncStep /\ UNCHANGED <<rq, ticker>>
    BY <1>7, StopSyncs
  <2>2. Len(wal) \in Nat /\ boundary \in Nat /\ hotbuf \in BOOLEAN
    BY DEF DTypeOK
  <2>3. boundary' \in Nat /\ hotbuf' \in BOOLEAN
    BY Zenon, <1>7, <2>2 DEF shutdown_flush, shutdown_header
  <2>4. stop' \in {"header", "failing", "ok", "failed"}
    BY Zenon, <1>7 DEF shutdown_flush, shutdown_header
  <2>5. QED
    BY Zenon, <2>1, <2>3, <2>4, SyncTypes DEF DTypeOK
<1>8. CASE attempt_emergency_spill
  <2>1. artifacts' \in Seq(Artifact)
    <3>1. copy_wal_tail_to_file \in Artifact /\ artifacts \in Seq(Artifact)
      BY CopyFields DEF DTypeOK
    <3>2. artifacts' = artifacts \/ artifacts' = Append(artifacts, copy_wal_tail_to_file)
      BY <1>8 DEF attempt_emergency_spill, write_emergency_spill_files
    <3>3. QED
      BY <3>1, <3>2, AppendSet
  <2>2. NotSpilling \in Spillers
    BY DEF NotSpilling, Spillers
  <2>3. QED
    BY Zenon, <1>8, <2>1, <2>2 DEF attempt_emergency_spill, DTypeOK
<1>9. CASE begin_shutdown \/ wait_until_idle
  BY Zenon, <1>9 DEF begin_shutdown, wait_until_idle, DTypeOK
<1>10. ASSUME NEW t \in BOOLEAN, Departed(t), wal' \in Seq(Written), voided' \subseteq voided,
              dirty' \subseteq dirty, dropped' \subseteq dropped
       PROVE  DTypeOK'
  <2>1. artifacts' \in Seq(Artifact)
    BY Zenon, <1>10, CopyFields, AppendSet DEF Departed, DTypeOK
  <2>2. rq' \in [Requests -> RequestRecord]
    BY <1>10, DepartedRequests
  <2>3. NotSpilling \in Spillers
    BY DEF NotSpilling, Spillers
  <2>4. QED
    BY Zenon, <1>10, <2>1, <2>2, <2>3 DEF Departed, DTypeOK, Written
<1>11. CASE Exit \/ \E t \in BOOLEAN : Kill(t)
  BY Zenon, <1>10, <1>11 DEF Exit, Kill, DTypeOK, Written
<1>12. ASSUME NEW n \in Lengths, NEW t \in BOOLEAN, NEW l \in BOOLEAN, PowerLoss(n, t, l) PROVE DTypeOK'
  BY Zenon, <1>10, <1>12, LostFields
<1>13. CASE start
  BY <1>13 DEF start, Synced, DTypeOK
<1>14. CASE replay
  <2>1. wal' \in Seq(Written)
    BY <1>14, TailApplied DEF replay
  <2>2. QED
    BY Zenon, <1>14, <2>1 DEF replay, DTypeOK, Written
<1>15. CASE finish_repair
  <2>1. artifacts' \in Seq(Artifact)
    BY Zenon, <1>15, MarkedFields DEF finish_repair, DTypeOK
  <2>2. QED
    BY <1>15, <2>1 DEF finish_repair, DTypeOK
<1>16. CASE UNCHANGED dvars
  BY Zenon, <1>16 DEF dvars, DTypeOK
<1>17. QED
  BY Zenon, <1>1, <1>2, <1>3, <1>4, <1>5, <1>6, <1>7, <1>8, <1>9, <1>11, <1>12, <1>13, <1>14, <1>15, <1>16
  DEF DNext, Request, Working, Stopping, Dying, Restarting

-----------------------------------------------------------------------------
(* Entries are written once and kept.                                       *)

LEMMA SpillAdded ==
  ASSUME DTypeOK, NEW a \in Artifact, artifacts' = Append(artifacts, a)
  PROVE  /\ Copies' = Copies \cup Range(a.tail)
         /\ Unapplied' = Unapplied \cup (IF a.found /\ ~a.torn /\ ~a.applied THEN {Len(artifacts) + 1} ELSE {})
         /\ Spilled' = Spilled \cup (IF a.found /\ ~a.torn /\ ~a.applied THEN Range(a.tail) ELSE {})
<1>1. /\ DOMAIN artifacts' = DOMAIN artifacts \cup {Len(artifacts) + 1}
      /\ \A k \in DOMAIN artifacts : artifacts'[k] = artifacts[k]
      /\ artifacts'[Len(artifacts) + 1] = a
  BY DEF DTypeOK
<1>2. Copies' = Copies \cup Range(a.tail)
  BY <1>1 DEF Copies
<1>3. Unapplied' = Unapplied \cup (IF a.found /\ ~a.torn /\ ~a.applied THEN {Len(artifacts) + 1} ELSE {})
  BY <1>1 DEF Unapplied
<1>4. Spilled' = Spilled \cup (IF a.found /\ ~a.torn /\ ~a.applied THEN Range(a.tail) ELSE {})
  BY <1>1, <1>3 DEF Spilled, Unapplied
<1>5. QED
  BY <1>2, <1>3, <1>4

LEMMA SpillSame ==
  ASSUME artifacts' = artifacts
  PROVE  Copies' = Copies /\ Unapplied' = Unapplied /\ Spilled' = Spilled
BY DEF Copies, Unapplied, Spilled

LEMMA CopiedEntries ==
  ASSUME DTypeOK
  PROVE  /\ Range(copy_wal_tail_to_file.tail) \subseteq Range(wal)
         /\ WriterUnlocked => Range(copy_wal_tail_to_file.tail) = {wal[k] : k \in (copy_wal_tail_to_file.start + 1)..Len(wal)}
<1>1. wal \in Seq(Written) /\ Len(wal) \in Nat
  BY DEF DTypeOK, Written
<1>2. PICK b \in Nat : /\ b <= Len(wal) /\ b = copy_wal_tail_to_file.start
                       /\ copy_wal_tail_to_file.tail = IF WriterUnlocked THEN SubSeq(wal, b + 1, Len(wal)) ELSE <<>>
  BY CopyFields
<1>3. b <= Len(wal)
  BY <1>2
<1>4. Range(SubSeq(wal, b + 1, Len(wal))) = {wal[k] : k \in (b + 1)..Len(wal)}
  BY <1>1, <1>3, SubSeqSet
<1>5. \A k \in (b + 1)..Len(wal) : k \in DOMAIN wal
  BY <1>1
<1>6. Range(<<>>) = {} /\ {wal[k] : k \in (b + 1)..Len(wal)} \subseteq Range(wal)
  BY <1>5 DEF Range
<1>7. QED
  BY <1>2, <1>4, <1>6

\* What the spill leaves.
LEMMA SpillCopies ==
  ASSUME DTypeOK, write_emergency_spill_files
  PROVE  /\ Copies' \subseteq Copies \cup Range(wal)
         /\ Unapplied' = Unapplied \cup (IF WriterUnlocked THEN {Len(artifacts) + 1} ELSE {})
         /\ Spilled' = Spilled \cup (IF WriterUnlocked THEN Range(copy_wal_tail_to_file.tail) ELSE {})
<1>1. PICK a \in Artifact : /\ a = copy_wal_tail_to_file /\ artifacts' = Append(artifacts, a)
                            /\ a.found = WriterUnlocked /\ ~a.torn /\ ~a.applied
  BY CopyFields DEF write_emergency_spill_files
<1>2. QED
  BY Zenon, <1>1, CopiedEntries, SpillAdded

\* The artifacts a death leaves.
LEMMA DepartedSpills ==
  ASSUME DTypeOK, NEW t \in BOOLEAN, Departed(t)
  PROVE  Copies' \subseteq Copies \cup Range(wal) /\ Unapplied' = Unapplied /\ Spilled' = Spilled
<1>1. CASE ~t
  BY Zenon, <1>1, SpillSame DEF Departed
<1>2. CASE t
  <2>1. PICK a \in Artifact : /\ a.torn /\ artifacts' = Append(artifacts, a)
                              /\ a.tail = copy_wal_tail_to_file.tail
    BY Zenon, <1>2, CopyFields DEF Departed
  <2>2. Range(a.tail) \subseteq Range(wal)
    BY <2>1, CopiedEntries
  <2>3. QED
    BY Zenon, <2>1, <2>2, SpillAdded
<1>3. QED
  BY <1>1, <1>2

LEMMA WritesOnceInit == DInit => WritesOnce
BY DEF DInit, WritesOnce, Fresh, Kept, Unwritten, Storing, Closing, Stored, Copies, Range, Parts

\* Steps that write no entry.
LEMMA WritesKept ==
  ASSUME WritesOnce, Stored' \cup Copies' \subseteq Stored \cup Copies \cup {TornEntry},
         dirty' \cup dropped' \subseteq Stored',
         \A i \in Requests : Unwritten(rq'[i]) \subseteq Unwritten(rq[i]) /\ Kept(i)',
         \A i \in answered' : rq'[i].at = "done"
  PROVE  WritesOnce'
<1>1. ASSUME NEW i \in Requests PROVE Fresh(i)'
  <2>1. \A p \in Unwritten(rq'[i]) : <<i, p>> # TornEntry
    BY Zenon DEF Unwritten, TornEntry, Parts
  <2>2. QED
    BY Zenon, <2>1 DEF WritesOnce, Fresh
<1>2. QED
  BY <1>1 DEF WritesOnce

LEMMA WritesOnceNext == DTypeOK /\ Idle /\ WritesOnce /\ [DNext]_dvars => WritesOnce'
<1> SUFFICES ASSUME DTypeOK, Idle, WritesOnce, [DNext]_dvars PROVE WritesOnce'
  OBVIOUS
<1>1. ASSUME Stored' = Stored, Copies' \subseteq Copies \cup Stored, dirty' \cup dropped' \subseteq Stored, answered' = answered,
             UNCHANGED rq
      PROVE  WritesOnce'
  BY Zenon, <1>1, WritesKept DEF WritesOnce, Kept
<1>2. ASSUME NEW i \in Requests, begin(i) PROVE WritesOnce'
  <2>1. UNCHANGED <<wal, voided, dirty, dropped, artifacts, answered>> /\ rq[i].at = "between"
    BY <1>2 DEF begin
  <2>2. Stored' = Stored /\ Copies' = Copies
    BY <2>1 DEF Stored, Copies
  <2>3. \/ Moves(i, "checked", rq[i].part, rq[i].ok, rq[i].offset)
        \/ \E a \in {"done", "ending"} : Moves(i, a, rq[i].part, FALSE, rq[i].offset)
    BY Zenon, <1>2, MovesBegun DEF DTypeOK
  <2>4. \A j \in Requests : Unwritten(rq'[j]) \subseteq Unwritten(rq[j]) /\ Kept(j)'
    BY ZenonT(30), <2>1, <2>2, <2>3 DEF Moves, Unwritten, Kept, WritesOnce, Storing, Closing
  <2>5. \A j \in answered' : rq'[j].at = "done"
    BY ZenonT(30), <2>1, <2>3 DEF Moves, WritesOnce, DTypeOK
  <2>6. QED
    BY Zenon, <2>1, <2>2, <2>4, <2>5, WritesKept DEF WritesOnce
<1>3. ASSUME NEW i \in Requests, lock(i) PROVE WritesOnce'
  <2>1. UNCHANGED <<wal, voided, dirty, dropped, artifacts, answered>> /\ rq[i].at = "checked"
    BY <1>3 DEF lock
  <2>2. Stored' = Stored /\ Copies' = Copies
    BY Zenon, <2>1 DEF Stored, Copies
  <2>3. Moves(i, "locked", rq[i].part, rq[i].ok, rq[i].offset)
    BY Zenon, <1>3, MovesAt DEF lock, DTypeOK, Places
  <2>4. \A j \in Requests : Unwritten(rq'[j]) \subseteq Unwritten(rq[j]) /\ Kept(j)'
    BY ZenonT(30), <2>1, <2>2, <2>3 DEF Moves, Unwritten, Kept, WritesOnce, Storing, Closing
  <2>5. \A j \in answered' : rq'[j].at = "done"
    BY Zenon, <2>1, <2>3 DEF Moves, WritesOnce, DTypeOK
  <2>6. QED
    BY Zenon, <2>1, <2>2, <2>4, <2>5, WritesKept DEF WritesOnce
<1>4. ASSUME NEW i \in Requests, NEW v \in BOOLEAN, write_entry(i, v) PROVE WritesOnce'
  <2> DEFINE p == rq[i].part
  <2>1. /\ rq[i].at = "locked" /\ Stored' = Stored \cup {<<i, p>>} /\ dirty' = dirty \cup {<<i, p>>}
        /\ UNCHANGED <<dropped, artifacts, answered>>
    BY Zenon, <1>4, WrittenFields
  <2>2. Copies' = Copies
    BY <2>1 DEF Copies
  <2>3. \/ p = "chunk" /\ Moves(i, "between", "record", rq[i].ok, rq[i].offset)
        \/ p = "record" /\ Moves(i, "between", "dirs", rq[i].ok, rq[i].offset)
        \/ p = "dirs" /\ Moves(i, "ending", "dirs", rq[i].ok, rq[i].offset)
    BY Zenon, <1>4, MovesWritten DEF write_entry, DTypeOK
  <2>4. \A j \in Requests : j # i => rq'[j] = rq[j]
    BY Zenon, <2>3 DEF Moves
  <2>5. \A j \in Requests : j # i => Fresh(j)' /\ Kept(j)'
    BY Zenon, <2>1, <2>2, <2>4 DEF WritesOnce, Fresh, Kept
  <2>6. Unwritten(rq'[i]) = Unwritten(rq[i]) \ {p} /\ p \in Parts
    BY Zenon, <2>1, <2>3 DEF Moves, Unwritten, Storing, Parts
  <2>7. Fresh(i)'
    BY Zenon, <2>1, <2>2, <2>6 DEF WritesOnce, Fresh
  <2>8. Kept(i)'
    BY Zenon, <2>1, <2>6 DEF WritesOnce, Kept, Storing
  <2>9. \A j \in answered' : rq'[j].at = "done"
    BY Zenon, <2>1, <2>4 DEF WritesOnce, DTypeOK
  <2>10. QED
    BY Zenon, <2>1, <2>5, <2>7, <2>8, <2>9 DEF WritesOnce
<1>5. ASSUME NEW i \in Requests, et_sync(i) \/ et_hot(i) \/ et_head(i) PROVE WritesOnce'
  <2>1. SyncStep /\ rq[i].at \in {"ending", "hot", "head"}
    BY Zenon, <1>5, RequestSyncs, RequestMoves
  <2>2. PICK a \in {"hot", "head", "ended"}, n \in Nat : Moves(i, a, rq[i].part, rq[i].ok, n)
    BY Zenon, <1>5, RequestMoves
  <2>3. Stored' = Stored /\ Copies' = Copies /\ answered' = answered /\ dirty' \cup dropped' \subseteq Stored
    BY Zenon, <2>1, SyncTypes DEF Stored, Copies, WritesOnce
  <2>4. \A j \in Requests : Unwritten(rq'[j]) \subseteq Unwritten(rq[j]) /\ Kept(j)'
    BY Zenon, <2>1, <2>2, <2>3 DEF Moves, Unwritten, Kept, WritesOnce, Storing, Closing
  <2>5. \A j \in answered' : rq'[j].at = "done"
    BY Zenon, <2>1, <2>2, <2>3 DEF Moves, WritesOnce, DTypeOK
  <2>6. QED
    BY Zenon, <2>3, <2>4, <2>5, WritesKept
<1>6. ASSUME NEW i \in Requests, answer_request(i) PROVE WritesOnce'
  <2>1. UNCHANGED <<wal, voided, dirty, dropped, artifacts>> /\ answered' \subseteq answered \cup {i}
    BY Zenon, <1>6 DEF answer_request
  <2>2. Stored' = Stored /\ Copies' = Copies
    BY <2>1 DEF Stored, Copies
  <2>3. Moves(i, "done", rq[i].part, rq[i].ok, rq[i].offset)
    BY Zenon, <1>6, MovesDone DEF answer_request, DTypeOK
  <2>4. \A j \in Requests : Unwritten(rq'[j]) \subseteq Unwritten(rq[j]) /\ Kept(j)'
    BY ZenonT(30), <2>1, <2>2, <2>3 DEF Moves, Unwritten, Kept, WritesOnce, Storing, Closing
  <2>5. \A j \in answered' : rq'[j].at = "done"
    BY Zenon, <2>1, <2>3 DEF Moves, WritesOnce, DTypeOK
  <2>6. QED
    BY Zenon, <2>1, <2>2, <2>4, <2>5, WritesKept DEF WritesOnce
<1>7. CASE Timer \/ shutdown_flush \/ shutdown_header
  <2>1. SyncStep /\ UNCHANGED rq
    BY <1>7, TimerSyncs, StopSyncs
  <2>2. QED
    BY Zenon, <1>1, <2>1, SyncTypes DEF Stored, Copies, WritesOnce
<1>8. CASE attempt_emergency_spill
  <2>1. UNCHANGED <<wal, voided, dirty, dropped, answered, rq>>
    BY <1>8 DEF attempt_emergency_spill
  <2>2. Copies' \subseteq Copies \cup Range(wal)
    BY Zenon, <1>8, SpillSame, SpillCopies DEF attempt_emergency_spill
  <2>3. QED
    BY Zenon, <1>1, <2>1, <2>2 DEF Stored, WritesOnce
<1>9. CASE begin_shutdown \/ wait_until_idle \/ UNCHANGED dvars
  <2>1. UNCHANGED <<wal, voided, dirty, dropped, answered, artifacts, rq>>
    BY <1>9 DEF begin_shutdown, wait_until_idle, dvars
  <2>2. QED
    BY Zenon, <1>1, <2>1 DEF Stored, Copies, WritesOnce
<1>10. ASSUME NEW t \in BOOLEAN, Departed(t), Stored' \subseteq Stored \cup {TornEntry}, dirty' \cup dropped' \subseteq Stored'
       PROVE  WritesOnce'
  <2>1. /\ Copies' \subseteq Copies \cup Stored /\ answered' = answered
        /\ \A i \in Requests : rq'[i].at = "done" \/ (rq'[i].at = "between" /\ rq'[i].part = "chunk" /\ rq'[i] = rq[i])
    BY Zenon, <1>10, DepartedSpills, DepartedRequests DEF Departed, Stored
  <2>2. \A i \in Requests : Unwritten(rq'[i]) \subseteq Unwritten(rq[i]) /\ Kept(i)'
    BY Zenon, <2>1 DEF Unwritten, Kept, Storing, Closing
  <2>3. \A i \in answered' : rq'[i].at = "done"
    BY Zenon, <2>1 DEF WritesOnce, DTypeOK
  <2>4. QED
    BY Zenon, <1>10, <2>1, <2>2, <2>3, WritesKept
<1>11. CASE Exit \/ \E t \in BOOLEAN : Kill(t)
  <2>1. UNCHANGED <<wal, voided, dirty, dropped>> /\ \E t \in BOOLEAN : Departed(t)
    BY Zenon, <1>11 DEF Exit, Kill
  <2>2. Stored' = Stored
    BY <2>1 DEF Stored
  <2>3. QED
    BY Zenon, <1>10, <2>1, <2>2 DEF WritesOnce
<1>12. ASSUME NEW n \in Lengths, NEW t \in BOOLEAN, NEW l \in BOOLEAN, PowerLoss(n, t, l) PROVE WritesOnce'
  BY Zenon, <1>10, <1>12, LostFields
<1>13. CASE start
  <2>1. UNCHANGED <<wal, voided, dropped, answered, artifacts, rq>> /\ dirty' \subseteq dirty
    BY <1>13 DEF start, Synced
  <2>2. QED
    BY Zenon, <1>1, <2>1 DEF Stored, Copies, WritesOnce
<1>14. CASE replay
  <2>1. PICK k \in Unapplied : apply_wal_tails_to_database(artifacts[k])
    BY Zenon, <1>14 DEF replay
  <2>2. UNCHANGED <<voided, dropped, answered, artifacts, rq>> /\ dirty' \subseteq dirty
    BY <1>14 DEF replay
  <2>3. Stored' = Stored \cup Range(artifacts[k].tail) /\ Copies' = Copies
    BY <2>1, <2>2, TailApplied DEF Stored, Copies
  <2>4. Range(artifacts[k].tail) \subseteq Copies
    BY DEF Unapplied, Copies
  <2>5. \A i \in Requests : Unwritten(rq'[i]) \subseteq Unwritten(rq[i]) /\ Kept(i)'
    BY Zenon, <2>2, <2>3 DEF WritesOnce, Kept
  <2>6. QED
    BY Zenon, <2>2, <2>3, <2>4, <2>5, WritesKept DEF WritesOnce
<1>15. CASE finish_repair
  <2>1. UNCHANGED <<wal, voided, dirty, dropped, answered, rq>>
    BY <1>15 DEF finish_repair
  <2>2. Copies' = Copies
    BY <1>15, SpillSame, MarkedFields DEF finish_repair, Copies
  <2>3. QED
    BY Zenon, <1>1, <2>1, <2>2 DEF Stored, WritesOnce
<1>16. QED
  BY Zenon, <1>2, <1>3, <1>4, <1>5, <1>6, <1>7, <1>8, <1>9, <1>11, <1>12, <1>13, <1>14, <1>15
  DEF DNext, Request, Working, Stopping, Dying, Restarting

-----------------------------------------------------------------------------
(* Deaths, spills and offsets.                                              *)

LEMMA DInvInit == DInit => Idle /\ OneSpill /\ Offsets /\ Copied /\ Drained /\ PublishedDurable
BY DEF DInit, Idle, OneSpill, Offsets, Copied, CopiesUp, CopiesDown, CopiesRepair, Drained, PublishedDurable,
  Unapplied, Active, PastSync

LEMMA IdleNext == DTypeOK /\ Idle /\ [DNext]_dvars => Idle'
<1> SUFFICES ASSUME DTypeOK, Idle, [DNext]_dvars PROVE Idle'
  OBVIOUS
<1>1. ASSUME up = "up", up' = up PROVE Idle'
  BY <1>1 DEF Idle
<1>2. ASSUME NEW i \in Requests, Request(i) PROVE Idle'
  BY Zenon, <1>1, <1>2 DEF Request, Working, begin, lock, write_entry, et_sync, et_hot, et_head, answer_request
<1>3. CASE Timer \/ shutdown_flush \/ shutdown_header
  BY Zenon, <1>1, <1>3, TimerSyncs, StopSyncs DEF SyncStep
<1>4. CASE attempt_emergency_spill \/ begin_shutdown \/ wait_until_idle
  BY <1>1, <1>4 DEF attempt_emergency_spill, begin_shutdown, wait_until_idle
<1>5. ASSUME NEW t, Departed(t) PROVE Idle'
  BY Zenon, <1>5, DepartedRequests DEF Departed, Idle
<1>6. CASE Dying \/ Exit
  BY Zenon, <1>5, <1>6 DEF Dying, Kill, PowerLoss, Exit
<1>7. CASE Restarting \/ UNCHANGED dvars
  BY Zenon, <1>7 DEF Restarting, start, replay, finish_repair, Idle, dvars
<1>8. QED
  BY <1>2, <1>3, <1>4, <1>6, <1>7 DEF DNext, Stopping

LEMMA OneSpillNext == DTypeOK /\ Idle /\ OneSpill /\ [DNext]_dvars => OneSpill'
<1> SUFFICES ASSUME DTypeOK, Idle, OneSpill, [DNext]_dvars PROVE OneSpill'
  OBVIOUS
<1>1. ASSUME UNCHANGED <<artifacts, up, latch, spilling>> PROVE OneSpill'
  BY <1>1, SpillSame DEF OneSpill
<1>2. ASSUME NEW i \in Requests, begin(i) \/ lock(i) \/ (\E v \in BOOLEAN : write_entry(i, v)) \/ answer_request(i)
      PROVE  OneSpill'
  BY Zenon, <1>1, <1>2 DEF begin, lock, write_entry, answer_request
<1>3. CASE SyncStep
  <2>1. Unapplied' = Unapplied /\ up' = up
    BY <1>3, SpillSame DEF SyncStep
  <2>2. QED
    BY Zenon, <1>3, <2>1 DEF SyncStep, OneSpill, DTypeOK
<1>4. CASE begin_shutdown \/ wait_until_idle \/ replay \/ UNCHANGED dvars
  <2>1. CASE replay
    <3>1. Unapplied' = Unapplied /\ up' # "up" /\ spilling' = spilling /\ latch' = latch
      BY Zenon, <2>1, SpillSame DEF replay
    <3>2. QED
      BY <3>1 DEF OneSpill
  <2>2. CASE ~replay
    BY <1>1, <1>4, <2>2 DEF begin_shutdown, wait_until_idle, dvars
  <2>3. QED
    BY <2>1, <2>2
<1>5. CASE attempt_emergency_spill
  <2>1. Unapplied = {} /\ latch' /\ spilling' = NotSpilling /\ up' = up
    BY Zenon, <1>5 DEF attempt_emergency_spill, OneSpill, DTypeOK
  <2>2. Unapplied' \subseteq {Len(artifacts) + 1}
    BY Zenon, <1>5, <2>1, SpillSame, SpillCopies DEF attempt_emergency_spill
  <2>3. QED
    BY <2>1, <2>2 DEF OneSpill
<1>6. ASSUME NEW t \in BOOLEAN, Departed(t) PROVE OneSpill'
  <2>1. Unapplied' = Unapplied /\ up' = "down" /\ spilling' = NotSpilling
    BY Zenon, <1>6, DepartedSpills DEF Departed
  <2>2. QED
    BY <2>1 DEF OneSpill
<1>7. CASE Dying \/ Exit
  BY Zenon, <1>6, <1>7 DEF Dying, Kill, PowerLoss, Exit
<1>8. CASE start
  <2>1. Unapplied' = {} /\ spilling' = spilling /\ latch' = latch
    BY Zenon, <1>8, SpillSame DEF start
  <2>2. QED
    BY <2>1 DEF OneSpill
<1>9. CASE finish_repair
  <2>1. Unapplied' \subseteq Unapplied /\ up' = "down" /\ spilling' = spilling /\ latch' = latch
    BY Zenon, <1>9, SpillSame, MarkedFields DEF finish_repair, Unapplied
  <2>2. QED
    BY <2>1 DEF OneSpill
<1>10. QED
  BY Zenon, <1>2, <1>3, <1>4, <1>5, <1>7, <1>8, <1>9, RequestSyncs, TimerSyncs, StopSyncs
  DEF DNext, Request, Working, Stopping, Restarting

LEMMA OffsetsNext == DTypeOK /\ Idle /\ Offsets /\ [DNext]_dvars => Offsets'
<1> SUFFICES ASSUME DTypeOK, Idle, Offsets, [DNext]_dvars PROVE Offsets'
  OBVIOUS
<1>0. Len(wal) \in Nat /\ boundary \in Nat /\ ticker.offset \in Nat
  BY DEF DTypeOK
<1>1. ASSUME UNCHANGED <<up, boundary, ticker>>, Len(wal') \in Nat, Len(wal') >= Len(wal),
             \A j \in Requests : rq'[j].at = "head" => rq'[j] = rq[j]
      PROVE  Offsets'
  <2>1. \A j \in Requests : rq[j].offset \in Nat
    BY Zenon DEF DTypeOK, RequestRecord
  <2>2. QED
    BY <1>0, <1>1, <2>1 DEF Offsets
<1>2. ASSUME NEW i \in Requests, begin(i) \/ lock(i) \/ answer_request(i) PROVE Offsets'
  <2>1. UNCHANGED <<wal, up, boundary, ticker>>
    BY Zenon, <1>2 DEF begin, lock, answer_request
  <2>2. \E a \in {"checked", "done", "ending", "locked"} : \E o : Moves(i, a, rq[i].part, o, rq[i].offset)
    BY Zenon, <1>2, MovesBegun, MovesAt, MovesDone DEF lock, answer_request, DTypeOK, Places
  <2>3. \A j \in Requests : rq'[j].at = "head" => rq'[j] = rq[j]
    BY Zenon, <2>2 DEF Moves
  <2>4. QED
    BY <1>0, <1>1, <2>1, <2>3
<1>3. ASSUME NEW i \in Requests, NEW v \in BOOLEAN, write_entry(i, v) PROVE Offsets'
  <2>1. UNCHANGED <<up, boundary, ticker>> /\ wal' \in Seq(Written) /\ Len(wal') >= Len(wal)
    BY Zenon, <1>3, WrittenFields
  <2>2. \E a \in {"between", "ending"} : \E p : Moves(i, a, p, rq[i].ok, rq[i].offset)
    BY Zenon, <1>3, MovesWritten DEF write_entry, DTypeOK
  <2>3. \A j \in Requests : rq'[j].at = "head" => rq'[j] = rq[j]
    BY <2>2 DEF Moves
  <2>4. Len(wal') \in Nat
    BY <2>1
  <2>5. QED
    BY Zenon, <1>1, <2>1, <2>3, <2>4
<1>4. ASSUME NEW i \in Requests, et_sync(i) \/ et_hot(i) \/ et_head(i) PROVE Offsets'
  <2>1. UNCHANGED <<wal, up, ticker>> /\ up = "up"
    BY <1>4, RequestSyncs DEF SyncStep
  <2>2. PICK a \in {"hot", "head", "ended"}, n \in Nat : Moves(i, a, rq[i].part, rq[i].ok, n) /\ (a = "head" => n = Len(wal))
    BY Zenon, <1>4, RequestMoves
  <2>3. \A j \in Requests : rq'[j].at = "head" => rq'[j].offset <= Len(wal)
    BY <1>0, <2>1, <2>2 DEF Moves, Offsets
  <2>4. boundary' = boundary \/ (rq[i].at = "head" /\ boundary' = rq[i].offset)
    BY Zenon, <1>4 DEF et_sync, et_hot, et_head
  <2>5. QED
    BY Zenon, <2>1, <2>3, <2>4 DEF Offsets
<1>5. CASE Timer
  <2>1. UNCHANGED <<wal, up, rq>> /\ up = "up"
    BY Zenon, <1>5, TimerSyncs DEF SyncStep
  <2>2. boundary' = boundary \/ (ticker.at = "head" /\ boundary' = ticker.offset)
    BY Zenon, <1>5 DEF Timer, timer_sync, timer_hot, timer_head
  <2>3. \A a \in {"idle", "hot"} : [ticker EXCEPT !.at = a].at = a
    BY DEF DTypeOK
  <2>4. ticker'.at = "head" => ticker' = ticker \/ ticker'.offset = Len(wal)
    <3>1. CASE timer_sync
      BY Zenon, <2>3, <3>1 DEF timer_sync
    <3>2. CASE timer_hot
      <4>1. ticker' = [ticker EXCEPT !.at = "idle"] \/ ticker' = [at |-> "head", offset |-> Len(wal)]
        BY Zenon, <3>2 DEF timer_hot
      <4>2. [at |-> "head", offset |-> Len(wal)].offset = Len(wal) /\ [ticker EXCEPT !.at = "idle"].at = "idle"
        BY <2>3
      <4>3. QED
        BY Zenon, <4>1, <4>2
    <3>3. CASE timer_head
      BY <2>3, <3>3 DEF timer_head
    <3>4. QED
      BY <1>5, <3>1, <3>2, <3>3 DEF Timer
  <2>5. QED
    BY <1>0, <2>1, <2>2, <2>4 DEF Offsets
<1>6. CASE shutdown_flush \/ shutdown_header
  <2>1. UNCHANGED <<wal, up, rq, ticker>> /\ up = "up"
    BY <1>6, StopSyncs DEF SyncStep
  <2>2. boundary' = boundary \/ boundary' = Len(wal)
    BY Zenon, <1>6 DEF shutdown_flush, shutdown_header
  <2>3. QED
    BY <1>0, <2>1, <2>2 DEF Offsets
<1>7. CASE attempt_emergency_spill \/ begin_shutdown \/ wait_until_idle \/ UNCHANGED dvars
  <2>1. UNCHANGED <<up, boundary, ticker, wal, rq>>
    BY Zenon, <1>7 DEF attempt_emergency_spill, begin_shutdown, wait_until_idle, dvars
  <2>2. QED
    BY <1>0, <1>1, <2>1
<1>8. CASE Dying \/ Exit \/ replay \/ finish_repair
  <2>1. up' # "up"
    BY Zenon, <1>8 DEF Dying, Kill, PowerLoss, Exit, Departed, replay, finish_repair
  <2>2. QED
    BY <2>1 DEF Offsets
<1>9. CASE start
  <2>1. boundary' = Len(wal') /\ wal' = wal /\ UNCHANGED <<rq, ticker>> /\ up # "up"
    BY <1>9 DEF start
  <2>2. ticker'.at # "head" /\ \A j \in Requests : rq'[j].at # "head"
    BY Zenon, <2>1 DEF Idle
  <2>3. QED
    BY <1>0, <2>1, <2>2 DEF Offsets
<1>10. QED
  BY Zenon, <1>2, <1>3, <1>4, <1>5, <1>6, <1>7, <1>8, <1>9 DEF DNext, Request, Working, Stopping, Restarting

-----------------------------------------------------------------------------
(* Copies.                                                                  *)

LEMMA DrainedNext == DTypeOK /\ Idle /\ Copied /\ Drained /\ [DNext]_dvars => Drained'
<1> SUFFICES ASSUME DTypeOK, Idle, Copied, Drained, [DNext]_dvars PROVE Drained'
  OBVIOUS
<1>1. ASSUME stop' = "no" PROVE Drained'
  BY <1>1 DEF Drained
<1>2. ASSUME stop' = stop, shutting_down' = shutting_down, Active' \subseteq Active, dirty' \subseteq dirty, excused \subseteq excused'
      PROVE  Drained'
  BY Zenon, <1>2 DEF Drained, Excused
<1>3. ASSUME NEW i \in Requests, begin(i) \/ lock(i) \/ answer_request(i) PROVE Drained'
  <2>1. UNCHANGED <<stop, shutting_down, dirty, excused>>
    BY Zenon, <1>3 DEF begin, lock, answer_request
  <2>2. stop # "no" \/ rq[i].at = "checked" => Active' \subseteq Active
    <3>1. CASE begin(i)
      <4>1. rq[i].at = "between" /\ (stop # "no" => shutting_down)
        BY <3>1 DEF begin, Drained
      <4>2. stop # "no" => \E a \in {"done", "ending"} : Moves(i, a, rq[i].part, FALSE, rq[i].offset)
        BY Zenon, <3>1, <4>1, MovesBegun DEF DTypeOK
      <4>3. QED
        BY Zenon, <4>1, <4>2 DEF Active, Moves
    <3>2. CASE lock(i)
      <4>1. rq[i].at = "checked" /\ Moves(i, "locked", rq[i].part, rq[i].ok, rq[i].offset)
        BY Zenon, <3>2, MovesAt DEF lock, DTypeOK, Places
      <4>2. QED
        BY Zenon, <4>1 DEF Active, Moves
    <3>3. CASE answer_request(i)
      <4>1. Moves(i, "done", rq[i].part, rq[i].ok, rq[i].offset)
        BY Zenon, <3>3, MovesDone DEF answer_request, DTypeOK
      <4>2. QED
        BY Zenon, <4>1 DEF Active, Moves
    <3>4. QED
      BY Zenon, <1>3, <3>1, <3>2, <3>3
  <2>3. QED
    BY Zenon, <1>1, <1>2, <2>1, <2>2
<1>4. ASSUME NEW i \in Requests, NEW v \in BOOLEAN, write_entry(i, v) PROVE Drained'
  <2>1. i \in Active /\ UNCHANGED <<stop, shutting_down>>
    BY Zenon, <1>4, WrittenFields DEF Active
  <2>2. QED
    BY <2>1 DEF Drained
<1>5. ASSUME NEW i \in Requests, et_sync(i) \/ et_hot(i) \/ et_head(i) PROVE Drained'
  <2>1. UNCHANGED <<stop, shutting_down, excused>> /\ dirty' \subseteq dirty
    BY Zenon, <1>5, RequestSyncs, SyncTypes DEF SyncStep
  <2>2. Active' \subseteq Active
    BY Zenon, <1>5, RequestMoves DEF Active, Moves
  <2>3. QED
    BY <1>2, <2>1, <2>2
<1>6. CASE Timer
  <2>1. UNCHANGED <<stop, shutting_down, excused, rq>> /\ dirty' \subseteq dirty
    BY Zenon, <1>6, TimerSyncs, SyncTypes DEF SyncStep
  <2>2. QED
    BY Zenon, <1>2, <2>1 DEF Active
<1>7. CASE shutdown_flush \/ shutdown_header
  <2>1. UNCHANGED <<shutting_down, excused, rq>> /\ dirty' \subseteq dirty /\ up = "up"
    BY Zenon, <1>7, StopSyncs, SyncTypes DEF SyncStep
  <2>2. stop \in {"flushing", "header", "failing"}
    BY Zenon, <1>7 DEF shutdown_flush, shutdown_header
  <2>3. shutting_down' /\ Active' = {}
    BY Zenon, <2>1, <2>2 DEF Drained, Active
  <2>4. stop' \in {"header", "ok"} => dirty' \subseteq Excused'
    <3>1. CASE shutdown_flush
      <4>1. stop' \in {"header", "ok"} => ~latch /\ dirty' = dirty \cap dropped
        BY Zenon, <3>1 DEF shutdown_flush, Synced
      <4>2. QED
        BY Zenon, <2>1, <4>1 DEF Copied, CopiesUp, Excused
    <3>2. CASE shutdown_header
      <4>1. stop' \in {"header", "ok"} => stop = "header"
        BY Zenon, <3>2 DEF shutdown_header
      <4>2. QED
        BY Zenon, <2>1, <4>1 DEF Drained, Excused
    <3>3. QED
      BY <1>7, <3>1, <3>2
  <2>5. QED
    BY <2>3, <2>4 DEF Drained
<1>8. CASE attempt_emergency_spill
  BY Zenon, <1>2, <1>8 DEF attempt_emergency_spill, Active
<1>9. CASE begin_shutdown
  BY <1>9 DEF begin_shutdown, Drained
<1>10. CASE wait_until_idle
  BY Zenon, <1>10 DEF wait_until_idle, Drained, Active
<1>11. CASE Dying \/ Exit
  BY Zenon, <1>1, <1>11 DEF Dying, Kill, PowerLoss, Exit, Departed
<1>12. CASE Restarting
  BY Zenon, <1>1, <1>12 DEF Restarting, start, replay, finish_repair, Idle
<1>13. CASE UNCHANGED dvars
  BY Zenon, <1>2, <1>13 DEF dvars, Active
<1>14. QED
  BY Zenon, <1>3, <1>4, <1>5, <1>6, <1>7, <1>8, <1>9, <1>10, <1>11, <1>12, <1>13 DEF DNext, Request, Working, Stopping

LEMMA PublishedNext ==
  DTypeOK /\ WritesOnce /\ Idle /\ Offsets /\ Copied /\ PublishedDurable /\ [DNext]_dvars => PublishedDurable'
<1> SUFFICES ASSUME DTypeOK, WritesOnce, Idle, Offsets, Copied, PublishedDurable, [DNext]_dvars PROVE PublishedDurable'
  OBVIOUS
<1>1. CASE UNCHANGED <<up, latch, boundary, wal, dirty, excused>>
  BY Zenon, <1>1 DEF PublishedDurable, Excused
<1>2. CASE SyncStep
  <2>1. wal' = wal /\ excused' = excused /\ up' = "up" /\ up = "up"
    BY Zenon, <1>2 DEF SyncStep
  <2>2. CASE dirty' = dirty \cap dropped /\ latch' = latch
    BY Zenon, <2>1, <2>2 DEF PublishedDurable, Copied, CopiesUp, Excused
  <2>3. CASE latch'
    BY <2>3 DEF PublishedDurable
  <2>4. CASE UNCHANGED <<dirty, dropped, latch, spilling, boundary, rq, stop>>
    BY Zenon, <1>1, <2>1, <2>4
  <2>5. QED
    BY Zenon, <1>2, <2>2, <2>3, <2>4 DEF SyncStep
<1>3. ASSUME NEW i \in Requests, NEW v \in BOOLEAN, write_entry(i, v) PROVE PublishedDurable'
  <2>1. PICK e : e = <<i, rq[i].part>>
    BY Zenon
  <2>2. e \notin Stored
    BY ZenonT(30), <1>3, <2>1, WrittenFields DEF WritesOnce, Fresh, Unwritten, Storing, DTypeOK, RequestRecord, Parts
  <2>3. /\ dirty' = dirty \cup {e} /\ excused \subseteq excused' /\ UNCHANGED <<up, latch, boundary>> /\ up = "up"
        /\ \A k \in 1..Len(wal) : wal'[k] = wal[k]
    BY Zenon, <1>3, <2>1, WrittenFields
  <2>4. \A k \in 1..boundary : k \in 1..Len(wal) /\ wal[k] \in Stored
    BY <2>3 DEF Offsets, Stored, Range, DTypeOK
  <2>5. QED
    BY Zenon, <2>2, <2>3, <2>4 DEF PublishedDurable, Excused
<1>4. ASSUME NEW i \in Requests, begin(i) \/ lock(i) \/ answer_request(i) PROVE PublishedDurable'
  BY Zenon, <1>1, <1>4 DEF begin, lock, answer_request
<1>5. CASE begin_shutdown \/ wait_until_idle \/ UNCHANGED dvars
  BY Zenon, <1>1, <1>5 DEF begin_shutdown, wait_until_idle, dvars
<1>6. CASE attempt_emergency_spill
  <2>1. UNCHANGED <<up, latch, boundary, wal, dirty>> /\ excused \subseteq excused'
    BY Zenon, <1>6 DEF attempt_emergency_spill
  <2>2. QED
    BY Zenon, <2>1 DEF PublishedDurable, Excused
<1>7. CASE Dying \/ Exit \/ replay \/ finish_repair
  <2>1. up' # "up"
    BY Zenon, <1>7 DEF Dying, Kill, PowerLoss, Exit, Departed, replay, finish_repair
  <2>2. QED
    BY Zenon, <2>1 DEF PublishedDurable
<1>8. CASE start
  <2>1. up = "down" /\ Unapplied = {} /\ dirty' = dirty \cap dropped /\ excused' = excused
    BY <1>8 DEF start, Synced
  <2>2. dirty' \subseteq Excused'
    BY Zenon, <2>1 DEF Copied, CopiesDown, Spilled, Excused
  <2>3. QED
    BY <2>2 DEF PublishedDurable
<1>9. QED
  BY Zenon, <1>2, <1>3, <1>4, <1>5, <1>6, <1>7, <1>8, RequestSyncs, TimerSyncs, StopSyncs
  DEF DNext, Request, Working, Stopping, Restarting

\* A death leaves every entry that counts stored, copied or excused.
LEMMA DeathCopies ==
  ASSUME DTypeOK, Idle, OneSpill, Copied, NEW t \in BOOLEAN, Departed(t)
  PROVE  /\ Excused \subseteq Excused'
         /\ dirty \cap dropped \subseteq Excused' \cup Spilled
         /\ \A i \in answered : /\ EntriesOf(i) \subseteq Stored \cup Excused' \cup Spilled
                                /\ EntriesOf(i) \cap dirty \subseteq Excused' \cup Spilled
<1>1. Excused \subseteq Excused' /\ (spilling # NotSpilling => dirty \subseteq Excused')
  <2>1. CASE spilling # NotSpilling
    <3>1. excused' = excused \cup Because(dirty, "nowhere")
      BY Zenon, <2>1 DEF Departed
    <3>2. QED
      BY <3>1, ExcusedMore
  <2>2. CASE spilling = NotSpilling
    BY Zenon, <2>2 DEF Departed, Excused
  <2>3. QED
    BY <2>1, <2>2
<1>2. CASE up = "up"
  <2>1. \A i \in answered : i \in Requests /\ PastSync(i) /\ EntriesOf(i) \subseteq Stored \cup Excused
    BY Zenon, <1>2 DEF DTypeOK, PastSync, Copied, CopiesUp
  <2>2. CASE spilling # NotSpilling
    BY Zenon, <1>1, <2>1, <2>2
  <2>3. CASE spilling = NotSpilling /\ latch
    BY Zenon, <1>1, <1>2, <2>1, <2>3 DEF Copied, CopiesUp
  <2>4. CASE ~latch
    BY Zenon, <1>1, <1>2, <2>1, <2>4 DEF Copied, CopiesUp
  <2>5. QED
    BY Zenon, <2>2, <2>3, <2>4
<1>3. CASE up = "down"
  BY Zenon, <1>1, <1>3 DEF Copied, CopiesDown
<1>4. CASE up = "repair"
  BY Zenon, <1>1, <1>4 DEF Copied, CopiesRepair
<1>5. QED
  BY Zenon, <1>2, <1>3, <1>4 DEF DTypeOK

\* The spill leaves every dirty entry copied or excused.
LEMMA SpillCovers ==
  ASSUME DTypeOK, WritesOnce, Offsets, attempt_emergency_spill
  PROVE  Excused \subseteq Excused' /\ dirty \subseteq Excused' \cup Spilled'
<1> DEFINE a == copy_wal_tail_to_file
<1>1. CASE excused' = excused \cup Because(dirty, "nowhere")
  BY <1>1, ExcusedMore
<1>2. CASE write_emergency_spill_files /\ excused' = excused \cup Uncopied(a)
  <2>1. a.found = WriterUnlocked /\ a.start \in Nat /\ a.start <= Len(wal)
    BY CopyFields
  <2>2. CASE ~WriterUnlocked
    BY <1>2, <2>1, <2>2, ExcusedMore DEF Uncopied
  <2>3. CASE WriterUnlocked
    <3>1. Spilled' = Spilled \cup {wal[k] : k \in (a.start + 1)..Len(wal)}
      BY Zenon, <1>2, <2>3, SpillCopies, CopiedEntries
    <3>2. wal \in Seq(Written) /\ boundary \in Nat /\ boundary <= Len(wal) /\ Len(wal) \in Nat
      BY DEF DTypeOK, Written, Offsets, attempt_emergency_spill
    <3>3. /\ Range(SubSeq(wal, boundary + 1, a.start)) = {wal[k] : k \in (boundary + 1)..a.start}
          /\ Range(SubSeq(wal, 0 + 1, boundary)) = {wal[k] : k \in (0 + 1)..boundary}
      <4>1. PICK c \in Nat : c = a.start /\ c <= Len(wal)
        BY <2>1
      <4>2. Range(SubSeq(wal, boundary + 1, c)) = {wal[k] : k \in (boundary + 1)..c}
        <5>1. c <= Len(wal)
          BY <4>1
        <5>2. QED
          BY <3>2, <5>1, SubSeqSet
      <4>3. \A z \in Nat : Range(SubSeq(wal, z + 1, boundary)) = {wal[k] : k \in (z + 1)..boundary}
        BY <3>2, SubSeqSet
      <4>4. QED
        BY Zenon, <4>1, <4>2, <4>3
    <3>4. PICK capped, published : /\ capped = Range(SubSeq(wal, boundary + 1, a.start))
                                   /\ published = Range(SubSeq(wal, 1, boundary))
      OBVIOUS
    <3>5. capped = {wal[k] : k \in (boundary + 1)..a.start} /\ published = {wal[k] : k \in 1..boundary}
      BY <3>3, <3>4
    <3>6. excused' = excused \cup UNION {Because(dirty \cap capped, "capped"), Because(dirty \cap published, "published"),
                                         Because(dirty \cap voided, "void")}
      BY <1>2, <2>1, <2>3, <3>4 DEF Uncopied
    <3>7. \A es, why : Because(es, why) \subseteq excused' => es \subseteq Excused'
      <4> SUFFICES ASSUME NEW es, NEW why, Because(es, why) \subseteq excused', NEW e \in es PROVE e \in Excused'
        OBVIOUS
      <4>1. [entry |-> e, why |-> why] \in excused' /\ [entry |-> e, why |-> why].entry = e
        BY Zenon DEF Because
      <4>2. QED
        BY <4>1 DEF Excused
    <3>8. dirty \cap capped \subseteq Excused' /\ dirty \cap published \subseteq Excused' /\ dirty \cap voided \subseteq Excused'
      <4>1. /\ Because(dirty \cap capped, "capped") \subseteq excused'
            /\ Because(dirty \cap published, "published") \subseteq excused'
            /\ Because(dirty \cap voided, "void") \subseteq excused'
        BY <3>6
      <4>2. QED
        BY <3>7, <4>1
    <3>9. \A k \in 1..Len(wal) : k \in 1..boundary \/ k \in (boundary + 1)..a.start \/ k \in (a.start + 1)..Len(wal)
      BY <2>1, <3>2
    <3>10. Range(wal) \subseteq published \cup capped \cup {wal[k] : k \in (a.start + 1)..Len(wal)}
      <4>1. DOMAIN wal = 1..Len(wal)
        BY <3>2
      <4>2. QED
        BY <3>5, <3>9, <4>1 DEF Range
    <3>11. dirty \subseteq Range(wal) \cup voided
      BY DEF WritesOnce, Stored
    <3>12. Excused \subseteq Excused'
      BY <1>2 DEF Excused
    <3>13. QED
      BY Zenon, <3>1, <3>8, <3>10, <3>11, <3>12
  <2>4. QED
    BY <2>2, <2>3
<1>3. QED
  BY Zenon, <1>1, <1>2 DEF attempt_emergency_spill

LEMMA CopiedNext == DTypeOK /\ WritesOnce /\ Idle /\ OneSpill /\ Offsets /\ Copied /\ [DNext]_dvars => Copied'
<1> SUFFICES ASSUME DTypeOK, WritesOnce, Idle, OneSpill, Offsets, Copied, [DNext]_dvars PROVE Copied'
  OBVIOUS
<1>1. ASSUME UNCHANGED <<wal, voided, dirty, dropped, latch, spilling, artifacts, up, excused, answered>>,
             \A i \in Requests : PastSync(i)' => PastSync(i)
      PROVE  Copied'
  <2>1. Stored' = Stored /\ Spilled' = Spilled /\ Excused' = Excused
    BY Zenon, <1>1, SpillSame DEF Stored, Excused
  <2>2. QED
    BY Zenon, <1>1, <2>1 DEF Copied, CopiesUp, CopiesDown, CopiesRepair
<1>2. ASSUME NEW i \in Requests, begin(i) \/ lock(i) PROVE Copied'
  <2>1. \E a \in {"checked", "done", "ending", "locked"} : \E o : Moves(i, a, rq[i].part, o, rq[i].offset)
    BY Zenon, <1>2, MovesBegun, MovesAt DEF lock, DTypeOK, Places
  <2>2. answered' = answered
    BY <1>2 DEF begin, lock
  <2>3. \A j \in Requests : PastSync(j)' => PastSync(j)
    BY Zenon, <2>1, <2>2 DEF PastSync, Moves
  <2>4. QED
    BY Zenon, <1>1, <1>2, <2>3 DEF begin, lock
<1>3. ASSUME NEW i \in Requests, answer_request(i) PROVE Copied'
  <2>1. /\ UNCHANGED <<wal, voided, dirty, dropped, latch, spilling, artifacts, up, excused>> /\ up = "up"
        /\ rq[i].at = "ended" /\ answered' = IF rq[i].ok THEN answered \cup {i} ELSE answered
    BY <1>3 DEF answer_request
  <2>2. Stored' = Stored /\ Spilled' = Spilled /\ Excused' = Excused
    BY Zenon, <2>1, SpillSame DEF Stored, Excused
  <2>3. Moves(i, "done", rq[i].part, rq[i].ok, rq[i].offset)
    BY Zenon, <1>3, MovesDone DEF answer_request, DTypeOK
  <2>4. \A j \in Requests : PastSync(j)' => PastSync(j)
    BY Zenon, <2>1, <2>3 DEF PastSync, Moves
  <2>5. rq[i].ok => EntriesOf(i) \subseteq Stored
    BY Zenon, <2>1 DEF WritesOnce, Kept, Unwritten, Storing, Closing, EntriesOf
  <2>6. \A j \in answered' : EntriesOf(j) \subseteq Stored \cup Excused
    BY Zenon, <2>1, <2>5 DEF Copied, CopiesUp
  <2>7. QED
    BY Zenon, <2>1, <2>2, <2>4, <2>6 DEF Copied, CopiesUp, CopiesDown, CopiesRepair
<1>4. ASSUME NEW i \in Requests, NEW v \in BOOLEAN, write_entry(i, v) PROVE Copied'
  <2>1. PICK e : e = <<i, rq[i].part>>
    BY Zenon
  <2>2. /\ dirty' = dirty \cup {e} /\ excused \subseteq excused' /\ Stored' = Stored \cup {e} /\ rq[i].at = "locked" /\ up = "up"
        /\ UNCHANGED <<dropped, latch, spilling, artifacts, up, answered>>
        /\ latch /\ spilling = NotSpilling => e \in Excused'
    BY Zenon, <1>4, <2>1, WrittenFields
  <2>3. e \notin Stored
    BY Zenon, <2>1, <2>2 DEF WritesOnce, Fresh, Unwritten, Storing, DTypeOK, RequestRecord, Parts
  <2>4. Excused \subseteq Excused' /\ Spilled' = Spilled
    BY Zenon, <2>2, SpillSame DEF Excused
  <2>5. e \notin dropped
    BY <2>3 DEF WritesOnce
  <2>6. \E a \in {"between", "ending"} : \E p : Moves(i, a, p, rq[i].ok, rq[i].offset)
    BY Zenon, <1>4, MovesWritten DEF write_entry, DTypeOK
  <2>7. \A j \in Requests : PastSync(j)' => PastSync(j) /\ j # i
    BY Zenon, <2>2, <2>6 DEF PastSync, Moves, WritesOnce
  <2>8. \A j \in Requests : j # i => e \notin EntriesOf(j)
    BY Zenon, <2>1 DEF EntriesOf
  <2>9. CopiesUp'
    BY Zenon, <2>2, <2>4, <2>5, <2>7, <2>8 DEF Copied, CopiesUp
  <2>10. QED
    BY Zenon, <2>2, <2>9 DEF Copied, CopiesDown, CopiesRepair
<1>5. ASSUME SyncStep, \A i \in Requests : PastSync(i)' => PastSync(i) \/ dirty' = dirty \cap dropped \/ latch' PROVE Copied'
  <2>1. Stored' = Stored /\ Spilled' = Spilled /\ Excused' = Excused /\ up = "up" /\ up' = up /\ answered' = answered
    BY Zenon, <1>5, SpillSame DEF SyncStep, Stored, Excused
  <2>2. CASE dirty' = dirty \cap dropped /\ UNCHANGED <<dropped, latch, spilling>>
    BY Zenon, <2>1, <2>2 DEF Copied, CopiesUp, CopiesDown, CopiesRepair
  <2>3. CASE UNCHANGED dirty /\ latch' /\ IF latch THEN UNCHANGED spilling ELSE spilling' \in Spillers \ {NotSpilling}
    BY Zenon, <2>1, <2>3 DEF Copied, CopiesUp, CopiesDown, CopiesRepair
  <2>4. CASE UNCHANGED <<dirty, dropped, latch, spilling, boundary, rq, stop>>
    <3>1. \A i \in Requests : PastSync(i)' => PastSync(i)
      BY Zenon, <2>1, <2>4 DEF PastSync
    <3>2. QED
      BY Zenon, <2>1, <2>4, <3>1 DEF Copied, CopiesUp, CopiesDown, CopiesRepair
  <2>5. QED
    BY Zenon, <1>5, <2>2, <2>3, <2>4 DEF SyncStep
<1>6. ASSUME NEW i \in Requests, et_sync(i) \/ et_hot(i) \/ et_head(i) PROVE Copied'
  <2>1. SyncStep
    BY <1>6, RequestSyncs
  <2>2. dirty' = dirty \cap dropped \/ latch'
    BY Zenon, <1>6 DEF et_sync, et_hot, et_head, Synced, record_durability_failure
  <2>3. QED
    BY <1>5, <2>1, <2>2
<1>7. CASE Timer \/ shutdown_flush \/ shutdown_header
  <2>1. SyncStep /\ UNCHANGED <<rq, answered>>
    BY Zenon, <1>7, TimerSyncs, StopSyncs DEF SyncStep
  <2>2. QED
    BY <1>5, <2>1 DEF PastSync
<1>8. CASE begin_shutdown \/ wait_until_idle \/ UNCHANGED dvars
  BY Zenon, <1>1, <1>8 DEF begin_shutdown, wait_until_idle, dvars, PastSync
<1>9. CASE attempt_emergency_spill
  <2>1. /\ UNCHANGED <<wal, voided, dirty, latch, up, answered>> /\ up = "up" /\ latch
    BY Zenon, <1>9 DEF attempt_emergency_spill, OneSpill
  <2>2. Stored' = Stored /\ Excused \subseteq Excused' /\ dirty \subseteq Excused' \cup Spilled'
    BY Zenon, <1>9, <2>1, SpillCovers DEF Stored
  <2>3. QED
    BY Zenon, <2>1, <2>2 DEF Copied, CopiesUp, CopiesDown, CopiesRepair
<1>10. CASE Exit \/ \E t \in BOOLEAN : Kill(t)
  <2>1. PICK t \in BOOLEAN : UNCHANGED <<wal, voided, dirty, dropped>> /\ Departed(t)
    BY Zenon, <1>10 DEF Exit, Kill
  <2>2. Stored' = Stored /\ Spilled' = Spilled /\ up' = "down" /\ answered' = answered
    BY Zenon, <2>1, DepartedSpills DEF Stored, Departed
  <2>3. QED
    BY Zenon, <2>1, <2>2, DeathCopies DEF Copied, CopiesUp, CopiesDown, CopiesRepair
<1>11. ASSUME NEW n \in Lengths, NEW t \in BOOLEAN, NEW l \in BOOLEAN, PowerLoss(n, t, l) PROVE Copied'
  <2>1. Departed(FALSE) /\ dirty' = {} /\ Stored \ dirty \subseteq Stored'
    BY Zenon, <1>11, LostFields
  <2>2. Spilled' = Spilled /\ up' = "down" /\ answered' = answered
    BY Zenon, <2>1, DepartedSpills DEF Departed
  <2>3. \A i \in answered : /\ EntriesOf(i) \subseteq Stored \cup Excused' \cup Spilled
                            /\ EntriesOf(i) \cap dirty \subseteq Excused' \cup Spilled
    BY Zenon, <2>1, DeathCopies
  <2>4. QED
    BY Zenon, <2>1, <2>2, <2>3 DEF Copied, CopiesUp, CopiesDown, CopiesRepair
<1>12. CASE start
  <2>1. up = "down" /\ up' = "up" /\ Unapplied = {} /\ dirty' = dirty \cap dropped
        /\ UNCHANGED <<wal, voided, dropped, latch, excused, answered, artifacts>>
    BY Zenon, <1>12 DEF start, Synced
  <2>2. Stored' = Stored /\ Excused' = Excused /\ Spilled = {} /\ ~latch'
    BY Zenon, <2>1 DEF Stored, Excused, Spilled, Idle
  <2>3. QED
    BY Zenon, <2>1, <2>2 DEF Copied, CopiesUp, CopiesDown, CopiesRepair
<1>13. CASE replay
  <2>1. PICK k \in Unapplied : apply_wal_tails_to_database(artifacts[k])
    BY Zenon, <1>13 DEF replay
  <2>2. /\ up = "down" /\ up' = "repair" /\ dirty' = dirty \cap dropped
        /\ excused' = excused \cup Because(dropped \cap dirty, "cached") /\ UNCHANGED <<voided, artifacts, answered>>
    BY Zenon, <1>13 DEF replay
  <2>3. Excused' = Excused \cup (dropped \cap dirty)
    BY Zenon, <2>2, ExcusedMore
  <2>4. Spilled' = Spilled /\ Spilled = Range(artifacts[k].tail)
    BY <2>1, <2>2, SpillSame DEF Spilled, OneSpill
  <2>5. Stored' = Stored \cup Spilled
    BY Zenon, <2>1, <2>2, <2>4, TailApplied DEF Stored
  <2>6. QED
    BY Zenon, <2>2, <2>3, <2>4, <2>5 DEF Copied, CopiesUp, CopiesDown, CopiesRepair
<1>14. CASE finish_repair
  <2>1. up = "repair" /\ up' = "down" /\ UNCHANGED <<wal, voided, dirty, dropped, excused, answered>>
    BY <1>14 DEF finish_repair
  <2>2. Stored' = Stored /\ Excused' = Excused
    BY Zenon, <2>1 DEF Stored, Excused
  <2>3. QED
    BY Zenon, <2>1, <2>2 DEF Copied, CopiesUp, CopiesDown, CopiesRepair
<1>15. QED
  BY Zenon, <1>2, <1>3, <1>4, <1>6, <1>7, <1>8, <1>9, <1>10, <1>11, <1>12, <1>13, <1>14
  DEF DNext, Request, Working, Stopping, Dying, Restarting

-----------------------------------------------------------------------------
LEMMA DurabilityInductive ==
  (DInit => DurabilityInv) /\ (DurabilityInv /\ [DNext]_dvars => DurabilityInv')
BY Zenon, DTypeInit, WritesOnceInit, DInvInit, DTypeNext, WritesOnceNext, IdleNext, OneSpillNext, OffsetsNext, CopiedNext,
  DrainedNext, PublishedNext DEF DurabilityInv

\* For any requests, any cap of the spill and any sequence of failed syncs,
\* kills, power losses, restarts and repairs: a server that serves has every
\* entry of every request that was answered with success, but for the entries
\* named as having no copy.
THEOREM AcknowledgedServed == DSpec => []AckedServed
<1>1. DurabilityInv => AckedServed
  BY DEF DurabilityInv, Copied, CopiesUp, AckedServed
<1>2. QED
  BY <1>1, DurabilityInductive, PTL DEF DSpec

\* However requests, the timer and failures overlap a shutdown: when it reports
\* success no operation runs and everything is on disk.
THEOREM ShutdownLeavesNothing == DSpec => []CleanShutdown
<1>1. DurabilityInv => CleanShutdown
  BY DEF DurabilityInv, Drained, CleanShutdown
<1>2. QED
  BY <1>1, DurabilityInductive, PTL DEF DSpec

\* Whichever of the publishers publishes which offset, and in whatever order:
\* until a failure, what lies below the published offset is on disk.
THEOREM PublishedOnDisk == DSpec => []PublishedDurable
<1>1. DurabilityInv => PublishedDurable
  BY DEF DurabilityInv
<1>2. QED
  BY <1>1, DurabilityInductive, PTL DEF DSpec
=============================================================================
