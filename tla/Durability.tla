----------------------------- MODULE Durability -----------------------------
(***************************************************************************)
(* What the engine does when a sync, a hot-tail write or a header write    *)
(* fails, and when it is told to stop (engine/storage_engine.rs,           *)
(* engine/emergency_spill.rs, the start and verify commands).  The first   *)
(* failure latches the database read-only and copies the end of the WAL    *)
(* to an artifact outside the file; a start refuses while an artifact for  *)
(* the database is not applied; verify --repair applies it.  A request     *)
(* stores a chunk, then, under the namespace lock and in a transaction,    *)
(* a record and a directory.                                               *)
(*                                                                         *)
(* The WAL is the sequence of appended entries as the page cache has it.   *)
(* A failed sync leaves pages dirty or, as Linux does, marks them clean    *)
(* without having written them (the entries in dropped).                   *)
(***************************************************************************)
EXTENDS Naturals, Sequences, FiniteSets, Functions

CONSTANTS
    Requests,     \* one store each
    SpillMax,     \* AEORDB_EMERGENCY_WAL_SPILL_MAX_BYTES, in entries
    DMixes        \* what may happen: [who, timer, faults, deaths, void, stops]

ASSUME DurabilityAssumption ==
  /\ SpillMax \in Nat
  /\ Requests \cap {"none", "timer", "stop"} = {}

VARIABLES
    wal,          \* appended entries, TornEntry where a power loss tore one
    voided,       \* entries written into voids
    dirty,        \* entries not known to be on disk
    dropped,      \* dirty entries no later sync writes
    boundary,     \* last_published_hot_tail_offset
    hotbuf,       \* the hot buffer holds something
    latch,        \* durability_failure
    spilling,     \* who is at record_durability_failure, holding the writer lock?
    artifacts,    \* spill directories, oldest first
    rq,           \* requests
    ticker,       \* the 100 ms hot-tail timer
    shutting_down,
    stop,         \* StorageEngine::shutdown
    up,           \* "up", "down", or "repair"
    answered,     \* requests answered with success
    excused,      \* entries with no copy that a repair could use, and why
    mix           \* faults left

dvars == <<wal, voided, dirty, dropped, boundary, hotbuf, latch, spilling, artifacts, rq, ticker,
           shutting_down, stop, up, answered, excused, mix>>

TornEntry == <<0, "hole">>
Parts == {"chunk", "record", "dirs"}
EntriesOf(i) == {<<i, p>> : p \in Parts}
Because(es, why) == {[entry |-> e, why |-> why] : e \in es}
Excused == {x.entry : x \in excused}

Active == {i \in Requests : rq[i].at \in {"checked", "locked"}}        \* active_operations
WriterUnlocked == (\A i \in Requests : rq[i].at # "locked") /\ ~spilling.holding
NamespaceFree(i) == \A j \in Requests \ {i} : ~rq[j].txn

Fault == mix.faults > 0 /\ mix' = [mix EXCEPT !.faults = @ - 1]
NoFault == mix' = mix
NotSpilling == [by |-> "none", holding |-> FALSE]

-----------------------------------------------------------------------------
(* The operations of a request.                                             *)

\* EngineOperationTracker::begin and ensure_writable.  The chunk is stored
\* before the namespace lock is taken, the rest under it.  A refused
\* operation fails the request, whose transaction ends all the same.
begin(i) ==
  /\ up = "up" /\ rq[i].at = "between" /\ i \in mix.who
  /\ rq[i].part # "chunk" => NamespaceFree(i)
  /\ rq' = [rq EXCEPT ![i] =
       IF ~shutting_down /\ ~latch THEN [@ EXCEPT !.at = "checked", !.txn = rq[i].part # "chunk"]
       ELSE [@ EXCEPT !.at = IF rq[i].part = "chunk" THEN "done" ELSE "ending", !.txn = rq[i].part # "chunk", !.ok = FALSE]]
  /\ UNCHANGED <<wal, voided, dirty, dropped, boundary, hotbuf, latch, spilling, artifacts, ticker, shutting_down, stop, up, answered, excused, mix>>

\* store_entry_internal, flush_batch: the writer lock, then the KV lock.
lock(i) ==
  /\ up = "up" /\ rq[i].at = "checked" /\ WriterUnlocked
  /\ rq' = [rq EXCEPT ![i].at = "locked"]
  /\ UNCHANGED <<wal, voided, dirty, dropped, boundary, hotbuf, latch, spilling, artifacts, ticker, shutting_down, stop, up, answered, excused, mix>>

\* The entry goes into a void if it is a chunk and one is free, else to the
\* end.  One that arrives after the spill has no copy.
AfterPart(r) ==
  CASE r.part = "chunk"  -> [r EXCEPT !.part = "record", !.at = "between"]
    [] r.part = "record" -> [r EXCEPT !.part = "dirs", !.at = "between"]
    [] r.part = "dirs"   -> [r EXCEPT !.at = "ending"]
write_entry(i, inVoid) ==
  /\ up = "up" /\ rq[i].at = "locked"
  /\ inVoid => mix.void /\ rq[i].part = "chunk"
  /\ LET e == <<i, rq[i].part>>
     IN  /\ wal' = IF inVoid THEN wal ELSE Append(wal, e)
         /\ voided' = IF inVoid THEN voided \cup {e} ELSE voided
         /\ dirty' = dirty \cup {e}
         /\ excused' = IF latch /\ spilling = NotSpilling THEN excused \cup Because({e}, "late") ELSE excused
  /\ hotbuf' = TRUE
  /\ rq' = [rq EXCEPT ![i] = AfterPart(@)]
  /\ UNCHANGED <<dropped, boundary, latch, spilling, artifacts, ticker, shutting_down, stop, up, answered, mix>>

-----------------------------------------------------------------------------
(* Durability steps, and what a failing one does.                           *)

\* fdatasync of the one file, whichever handle it is called on.
Synced == dirty' = dirty \cap dropped /\ UNCHANGED dropped
\* It fails: the pages stay dirty, or are dropped.
SyncFails == UNCHANGED dirty /\ (UNCHANGED dropped \/ dropped' = dirty)

\* Variant: a failure is only spilled.
spill_without_latch(who, holding) ==
  /\ spilling' = [by |-> who, holding |-> holding]
  /\ UNCHANGED latch

\* record_durability_failure: the first one latches and spills before it
\* returns.
record_durability_failure(who, holding) ==
  /\ latch' = TRUE
  /\ spilling' = IF latch THEN spilling ELSE [by |-> who, holding |-> holding]

Going(who) == spilling.by # who     \* not inside record_durability_failure

\* end_transaction runs when the transaction guard is dropped.  A failure is
\* logged by the guard: the request's answer does not change.
et_sync(i) ==
  /\ up = "up" /\ rq[i].at = "ending" /\ Going(i) /\ WriterUnlocked
  /\ \/ NoFault /\ Synced /\ rq' = [rq EXCEPT ![i].at = "hot"] /\ UNCHANGED <<latch, spilling>>
     \/ Fault /\ SyncFails /\ rq' = [rq EXCEPT ![i].at = "ended"] /\ record_durability_failure(i, TRUE)
  /\ UNCHANGED <<wal, voided, boundary, hotbuf, artifacts, ticker, shutting_down, stop, up, answered, excused>>

\* force_flush_hot_buffer, then the header: two writes with a sync each.
et_hot(i) ==
  /\ up = "up" /\ rq[i].at = "hot" /\ \A j \in Requests : rq[j].at # "locked"
  /\ \/ NoFault /\ Synced /\ rq' = [rq EXCEPT ![i].at = "head", ![i].offset = Len(wal)] /\ UNCHANGED <<latch, spilling>>
     \/ Fault /\ SyncFails /\ rq' = [rq EXCEPT ![i].at = "ended"] /\ record_durability_failure(i, FALSE)
  /\ UNCHANGED <<wal, voided, boundary, hotbuf, artifacts, ticker, shutting_down, stop, up, answered, excused>>
et_head(i) ==
  /\ up = "up" /\ rq[i].at = "head" /\ WriterUnlocked
  /\ \/ NoFault /\ Synced /\ boundary' = rq[i].offset /\ UNCHANGED <<latch, spilling>>
     \/ Fault /\ SyncFails /\ UNCHANGED boundary /\ record_durability_failure(i, FALSE)
  /\ rq' = [rq EXCEPT ![i].at = "ended"]
  /\ UNCHANGED <<wal, voided, hotbuf, artifacts, ticker, shutting_down, stop, up, answered, excused>>

\* Variant: the error of a refused operation is swallowed.
answer_success(i) ==
  /\ up = "up" /\ rq[i].at = "ended" /\ Going(i)
  /\ rq' = [rq EXCEPT ![i].at = "done", ![i].txn = FALSE]
  /\ answered' = answered \cup {i}
  /\ UNCHANGED <<wal, voided, dirty, dropped, boundary, hotbuf, latch, spilling, artifacts, ticker, shutting_down, stop, up, excused, mix>>

answer_request(i) ==
  /\ up = "up" /\ rq[i].at = "ended" /\ Going(i)
  /\ rq' = [rq EXCEPT ![i].at = "done", ![i].txn = FALSE]
  /\ answered' = IF rq[i].ok THEN answered \cup {i} ELSE answered
  /\ UNCHANGED <<wal, voided, dirty, dropped, boundary, hotbuf, latch, spilling, artifacts, ticker, shutting_down, stop, up, excused, mix>>

\* try_flush_hot_buffer: every lock is only tried, and a step that finds one
\* taken gives the tick up.
Quiet(who) == (\A i \in Requests : rq[i].at # "locked") /\ Going(who)
timer_sync ==
  /\ up = "up" /\ ticker.at = "idle" /\ mix.timer /\ Quiet("timer") /\ WriterUnlocked /\ ~latch /\ hotbuf
  /\ \/ NoFault /\ Synced /\ ticker' = [ticker EXCEPT !.at = "hot"] /\ UNCHANGED <<latch, spilling>>
     \/ Fault /\ SyncFails /\ UNCHANGED ticker /\ record_durability_failure("timer", FALSE)
  /\ UNCHANGED <<wal, voided, boundary, hotbuf, artifacts, rq, shutting_down, stop, up, answered, excused>>
timer_hot ==
  /\ up = "up" /\ ticker.at = "hot" /\ Going("timer")
  /\ \/ ~(Quiet("timer") /\ hotbuf) /\ ticker' = [ticker EXCEPT !.at = "idle"]
        /\ UNCHANGED <<dirty, dropped, hotbuf, latch, spilling, mix>>
     \/ /\ Quiet("timer") /\ hotbuf /\ NoFault /\ Synced /\ hotbuf' = FALSE
        /\ ticker' = IF \E i \in Requests : rq[i].txn THEN [ticker EXCEPT !.at = "idle"] ELSE [at |-> "head", offset |-> Len(wal)]
        /\ UNCHANGED <<latch, spilling>>
     \/ /\ Quiet("timer") /\ hotbuf /\ Fault /\ SyncFails /\ ticker' = [ticker EXCEPT !.at = "idle"]
        /\ record_durability_failure("timer", FALSE) /\ UNCHANGED hotbuf
  /\ UNCHANGED <<wal, voided, boundary, artifacts, rq, shutting_down, stop, up, answered, excused>>
timer_head ==
  /\ up = "up" /\ ticker.at = "head"
  /\ \/ ~WriterUnlocked /\ UNCHANGED <<dirty, dropped, boundary, latch, spilling, mix>>
     \/ WriterUnlocked /\ NoFault /\ Synced /\ boundary' = ticker.offset /\ UNCHANGED <<latch, spilling>>
     \/ WriterUnlocked /\ Fault /\ SyncFails /\ UNCHANGED boundary /\ record_durability_failure("timer", FALSE)
  /\ ticker' = [ticker EXCEPT !.at = "idle"]
  /\ UNCHANGED <<wal, voided, hotbuf, artifacts, rq, shutting_down, stop, up, answered, excused>>

-----------------------------------------------------------------------------
(* The spill.                                                               *)

\* attempt_emergency_spill tries the writer lock: a writer that holds it, the
\* failing thread itself included, leaves the manifest without the path of
\* the database and without a WAL tail.  A destination may fail too.
copy_wal_tail_to_file ==
  LET end == Len(wal)
      start == IF boundary < end THEN boundary ELSE end
      from == IF SpillMax > 0 /\ end - start > SpillMax THEN end - SpillMax ELSE start
  IN  [found |-> WriterUnlocked, start |-> from, whole |-> from = boundary, tail |-> IF WriterUnlocked THEN SubSeq(wal, from + 1, end) ELSE <<>>,
       torn |-> FALSE, applied |-> FALSE]

write_emergency_spill_files == artifacts' = Append(artifacts, copy_wal_tail_to_file)

\* What the tail does not hold: everything, the part the cap cut off, what
\* was written into a void, or what a transaction that ended after the
\* failure left behind the offset it published.
Uncopied(a) ==
  IF ~a.found THEN Because(dirty, "locked")
  ELSE UNION {Because(dirty \cap Range(SubSeq(wal, boundary + 1, a.start)), "capped"),
              Because(dirty \cap Range(SubSeq(wal, 1, boundary)), "published"),
              Because(dirty \cap voided, "void")}

\* Variant: the spill waits for the writer lock.
spill_waits ==
  /\ up = "up" /\ spilling # NotSpilling /\ WriterUnlocked /\ NoFault
  /\ write_emergency_spill_files
  /\ excused' = excused \cup Uncopied(copy_wal_tail_to_file)
  /\ spilling' = NotSpilling
  /\ UNCHANGED <<wal, voided, dirty, dropped, boundary, hotbuf, latch, rq, ticker, shutting_down, stop, up, answered>>

attempt_emergency_spill ==
  /\ up = "up" /\ spilling # NotSpilling
  /\ \/ /\ NoFault
        /\ write_emergency_spill_files
        /\ excused' = excused \cup Uncopied(copy_wal_tail_to_file)
     \/ Fault /\ UNCHANGED artifacts /\ excused' = excused \cup Because(dirty, "nowhere")
  /\ spilling' = NotSpilling
  /\ UNCHANGED <<wal, voided, dirty, dropped, boundary, hotbuf, latch, rq, ticker, shutting_down, stop, up, answered>>

-----------------------------------------------------------------------------
(* Stopping.                                                                *)

\* The signal: begin_shutdown, then shutdown waits for the operations that
\* are running, not for the requests they belong to.
begin_shutdown ==
  /\ up = "up" /\ stop = "no"
  /\ mix.stops > 0 /\ mix' = [mix EXCEPT !.stops = @ - 1]
  /\ shutting_down' = TRUE /\ stop' = "draining"
  /\ UNCHANGED <<wal, voided, dirty, dropped, boundary, hotbuf, latch, spilling, artifacts, rq, ticker, up, answered, excused>>

\* Variant: shutdown does not wait.
wait_for_nobody ==
  /\ up = "up" /\ stop = "draining"
  /\ stop' = "flushing"
  /\ UNCHANGED <<wal, voided, dirty, dropped, boundary, hotbuf, latch, spilling, artifacts, rq, ticker, shutting_down, up, answered, excused, mix>>

wait_until_idle ==
  /\ up = "up" /\ stop = "draining" /\ Active = {}
  /\ stop' = "flushing"
  /\ UNCHANGED <<wal, voided, dirty, dropped, boundary, hotbuf, latch, spilling, artifacts, rq, ticker, shutting_down, up, answered, excused, mix>>

\* flush_index_buffer (which a latched engine refuses), the KV pages and the
\* hot tail; then the header and sync_all.  Failures are recorded once the
\* locks are released, the next steps are taken all the same, and the
\* result is an error.
shutdown_flush ==
  /\ up = "up" /\ stop = "flushing" /\ Going("stop")
  /\ \/ /\ NoFault /\ Synced /\ hotbuf' = FALSE
        /\ stop' = IF latch THEN "failing" ELSE "header"
        /\ UNCHANGED <<latch, spilling>>
     \/ Fault /\ SyncFails /\ stop' = "failing" /\ UNCHANGED hotbuf /\ record_durability_failure("stop", FALSE)
  /\ UNCHANGED <<wal, voided, boundary, artifacts, rq, ticker, shutting_down, up, answered, excused>>
shutdown_header ==
  /\ up = "up" /\ stop \in {"header", "failing"} /\ Going("stop") /\ WriterUnlocked
  /\ \/ /\ NoFault /\ Synced /\ boundary' = Len(wal)
        /\ stop' = IF stop = "header" THEN "ok" ELSE "failed"
        /\ UNCHANGED <<latch, spilling>>
     \/ Fault /\ SyncFails /\ stop' = "failed" /\ UNCHANGED boundary /\ record_durability_failure("stop", FALSE)
  /\ UNCHANGED <<wal, voided, hotbuf, artifacts, rq, ticker, shutting_down, up, answered, excused>>

\* The process is gone, and with it a spill that was not finished (torn: its
\* manifest is there in part): after the shutdown, after a drain that timed
\* out, or killed.
Departed(torn) ==
  /\ up' = "down" /\ latch' = FALSE /\ spilling' = NotSpilling /\ hotbuf' = FALSE
  /\ ticker' = [at |-> "idle", offset |-> 0] /\ shutting_down' = FALSE /\ stop' = "no"
  /\ rq' = [i \in Requests |-> IF rq[i].at = "between" /\ rq[i].part = "chunk" THEN rq[i]
                               ELSE [rq[i] EXCEPT !.at = "done", !.txn = FALSE]]
  /\ torn => spilling # NotSpilling
  /\ artifacts' = IF torn THEN Append(artifacts, [copy_wal_tail_to_file EXCEPT !.torn = TRUE]) ELSE artifacts
  /\ excused' = IF spilling # NotSpilling THEN excused \cup Because(dirty, "nowhere") ELSE excused
  /\ UNCHANGED <<boundary, answered>>
Exit ==
  /\ up = "up"
  /\ stop \in {"ok", "failed"} \/ (stop = "draining" /\ Active # {})
  /\ Going("stop")
  /\ Departed(FALSE)
  /\ UNCHANGED <<wal, voided, dirty, dropped, mix>>

Deaths == mix.deaths > 0 /\ mix' = [mix EXCEPT !.deaths = @ - 1]
Kill(torn) ==
  /\ up # "down" /\ Deaths
  /\ Departed(torn)
  /\ UNCHANGED <<wal, voided, dirty, dropped>>

\* The machine stops: of the dirty entries, appended ones are cut off or torn
\* and the ones in voids are kept or lost.  The file is no shorter than when
\* it was last synced.
Lengths == {n \in boundary..Len(wal) : \A k \in (n + 1)..Len(wal) : wal[k] \in dirty}
PowerLoss(n, tear, lose) ==
  /\ Deaths
  /\ wal' = [k \in 1..n |-> IF tear /\ wal[k] \in dirty THEN TornEntry ELSE wal[k]]
  /\ voided' = IF lose THEN voided \ dirty ELSE voided
  /\ dirty' = {} /\ dropped' = {}
  /\ Departed(FALSE)

-----------------------------------------------------------------------------
(* Starting and repairing.                                                  *)

\* scan_unapplied_for_database: an unreadable manifest fails the scan; one
\* that names no database, or is applied, is passed over.
Unapplied == {k \in DOMAIN artifacts : artifacts[k].found /\ ~artifacts[k].torn /\ ~artifacts[k].applied}
ScanFails == \E k \in DOMAIN artifacts : artifacts[k].torn

\* fail_if_unresolved_emergency_spills, then open, which rebuilds the index
\* and publishes the end of the WAL.
start ==
  /\ up = "down" /\ ~ScanFails /\ Unapplied = {}
  /\ up' = "up"
  /\ boundary' = Len(wal) /\ Synced
  /\ UNCHANGED <<wal, voided, hotbuf, latch, spilling, artifacts, rq, ticker, shutting_down, stop, answered, excused, mix>>

\* apply_one_wal_tail: the file must reach the start of the tail and agree
\* with it as far as it goes; the rest is appended and synced.  At the
\* published offset the disk still has the hot tail that was written there
\* when nothing of the WAL's tail reached it.
HotTailThere(a) == a.whole /\ Len(wal) = a.start
Overlap(a) == IF Len(wal) - a.start < Len(a.tail) THEN Len(wal) - a.start ELSE Len(a.tail)
Agrees(a) == Len(wal) >= a.start /\ ~HotTailThere(a) /\ \A k \in 1..Overlap(a) : wal[a.start + k] = a.tail[k]
\* Variant: the whole tail is appended, whatever is already there.
append_tail(a) == wal \o a.tail
ApplyTail(a) == IF Len(wal) - a.start >= Len(a.tail) THEN wal ELSE SubSeq(wal, 1, a.start) \o a.tail

\* verify: corrupt entries, file records without their chunks, and listed
\* files that cannot be read.
Stored == Range(wal) \cup voided
scan_entries == TornEntry \in Range(wal)
check_path_file_records == {i \in Requests : <<i, "record">> \in Stored /\ <<i, "chunk">> \notin Stored}
check_directories == {i \in Requests : <<i, "dirs">> \in Stored /\ ~({<<i, "record">>, <<i, "chunk">>} \subseteq Stored)}
has_issues == scan_entries \/ check_path_file_records # {} \/ check_directories # {}

apply_wal_tails_to_database(a) ==
  /\ a.tail = <<>> \/ Agrees(a)
  /\ wal' = IF a.tail = <<>> THEN wal ELSE ApplyTail(a)
mark_artifacts_applied == [k \in DOMAIN artifacts |-> [artifacts[k] EXCEPT !.applied = @ \/ k \in Unapplied]]

\* verify --repair --force-fix-in-place replays the tail, then rebuilds and
\* checks, and sets the marker when there is nothing to complain about.
\* Pages that an earlier sync dropped are read back from the cache and found
\* to agree.
replay ==
  /\ up = "down" /\ ~ScanFails
  /\ \E k \in Unapplied : apply_wal_tails_to_database(artifacts[k])
  /\ dirty' = dirty \cap dropped
  /\ excused' = excused \cup Because(dropped \cap dirty, "cached")
  /\ up' = "repair"
  /\ UNCHANGED <<voided, dropped, boundary, hotbuf, latch, spilling, artifacts, rq, ticker, shutting_down, stop, answered, mix>>
finish_repair ==
  /\ up = "repair"
  /\ artifacts' = IF has_issues THEN artifacts ELSE mark_artifacts_applied
  /\ boundary' = Len(wal)
  /\ up' = "down"
  /\ UNCHANGED <<wal, voided, dirty, dropped, hotbuf, latch, spilling, rq, ticker, shutting_down, stop, answered, excused, mix>>

-----------------------------------------------------------------------------
DInit ==
  /\ wal = <<>> /\ voided = {} /\ dirty = {} /\ dropped = {} /\ boundary = 0 /\ hotbuf = FALSE
  /\ latch = FALSE /\ spilling = NotSpilling /\ artifacts = <<>>
  /\ rq = [i \in Requests |-> [at |-> "between", part |-> "chunk", txn |-> FALSE, ok |-> TRUE, offset |-> 0]]
  /\ ticker = [at |-> "idle", offset |-> 0]
  /\ shutting_down = FALSE /\ stop = "no" /\ up = "up" /\ answered = {} /\ excused = {}
  /\ mix \in DMixes

Working(i) == lock(i) \/ (\E v \in BOOLEAN : write_entry(i, v)) \/ et_sync(i) \/ et_hot(i) \/ et_head(i) \/ answer_request(i)
Request(i) == begin(i) \/ Working(i)
Timer == timer_sync \/ timer_hot \/ timer_head
Stopping == begin_shutdown \/ wait_until_idle \/ shutdown_flush \/ shutdown_header \/ Exit
Dying == (\E t \in BOOLEAN : Kill(t)) \/ \E n \in Lengths, t, l \in BOOLEAN : PowerLoss(n, t, l)
Restarting == start \/ replay \/ finish_repair

DNext == (\E i \in Requests : Request(i)) \/ Timer \/ attempt_emergency_spill \/ Stopping \/ Dying \/ Restarting

\* Threads run: a request goes on, and record_durability_failure returns.
DSpec == DInit /\ [][DNext]_dvars /\ (\A i \in Requests : WF_dvars(Request(i))) /\ WF_dvars(attempt_emergency_spill)

-----------------------------------------------------------------------------
(* Properties.                                                              *)

Entries == Requests \X Parts
RequestRecord == [at : {"between", "checked", "locked", "ending", "hot", "head", "ended", "done"}, part : Parts,
                  txn : BOOLEAN, ok : BOOLEAN, offset : Nat]
Artifact == [found : BOOLEAN, start : Nat, whole : BOOLEAN, tail : Seq(Entries \cup {TornEntry}),
             torn : BOOLEAN, applied : BOOLEAN]
Spillers == [by : Requests \cup {"none", "timer", "stop"}, holding : BOOLEAN]
DTypeOK ==
  /\ wal \in Seq(Entries \cup {TornEntry})
  /\ voided \subseteq Entries /\ dirty \subseteq Entries /\ dropped \subseteq Entries
  /\ boundary \in Nat
  /\ latch \in BOOLEAN /\ hotbuf \in BOOLEAN /\ shutting_down \in BOOLEAN
  /\ spilling \in Spillers
  /\ artifacts \in Seq(Artifact)
  /\ rq \in [Requests -> RequestRecord]
  /\ ticker \in [at : {"idle", "hot", "head"}, offset : Nat]
  /\ stop \in {"no", "draining", "flushing", "header", "failing", "ok", "failed"}
  /\ up \in {"up", "down", "repair"} /\ answered \subseteq Requests

\* A request answered with success is there whenever a server serves, after
\* any failures, deaths and repairs, unless one of its entries had no copy:
\* the spill found the writer lock taken, no destination worked, the cap cut
\* it off, it went into a void, arrived after the spill or was published
\* before it, or the replay trusted the page cache
\* (attempt_emergency_spill, apply_one_wal_tail).
AckedServed ==
  up = "up" => \A i \in answered : EntriesOf(i) \subseteq Stored \cup Excused

\* An artifact a start refuses on can be replayed: the file reaches its tail
\* and agrees with it, however often the replay was cut short.  Only what a
\* power loss leaves can stop it: a torn write under the tail, a gap before
\* a capped tail, or the old hot tail in the place of all of it.
SpillApplies ==
  up # "up" => \A k \in Unapplied :
    LET a == artifacts[k]
    IN  a.tail = <<>> \/ Agrees(a) \/ HotTailThere(a) \/ TornEntry \in Range(wal) \/ \E x \in excused : x.why = "capped"

\* After shutdown has reported success no operation runs and every entry is
\* on disk, also those of requests it cut off between two operations (one
\* excused in an earlier run of the server may not be).
CleanShutdown == stop = "ok" => Active = {} /\ dirty \subseteq Excused

\* What lies below the published hot-tail offset is on disk: the spill
\* copies from there.  The offset is read under one lock and published under
\* another, by three publishers, and may go backwards.  (After a failure a
\* transaction that ends still publishes, over pages the failed sync lost.)
PublishedDurable == up = "up" /\ ~latch => \A k \in 1..boundary : wal[k] \in dirty => wal[k] \in Excused

\* A request ends, whoever fails, spills or shuts down meanwhile: nobody
\* waits for a lock that the spill holds, or the other way round.
RequestsEnd == \A i \in Requests : rq[i].at \in {"checked", "locked", "ending", "hot", "head", "ended"} ~> rq[i].at \in {"between", "done"}
=============================================================================
