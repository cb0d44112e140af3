-------------------------- MODULE HeaderSlotsProofs --------------------------
(***************************************************************************)
(* TLAPS proofs about HeaderSlots, for any number of header writes.        *)
(***************************************************************************)
EXTENDS HeaderSlots, TLAPS

\* The other slot.
Opp(i) == 1 - i

\* While an AppendWriter is open its cache describes a readable slot, and the
\* other slot is unreadable, older, or exactly one write ahead of the cache.
CacheInv ==
  pc \notin {"closed", "offline"} =>
    /\ slot[writer.active].ok
    /\ slot[writer.active].seq = writer.seq
    /\ slot[writer.active].resizing = writer.resizing
    /\ slot[Opp(writer.active)].ok =>
         /\ slot[Opp(writer.active)].seq # writer.seq
         /\ slot[Opp(writer.active)].seq <= writer.seq + 1

\* Before finalize_expansion reads the header back, the resize mark is the
\* newest header on disk and the one the cache holds.
MarkInv ==
  /\ pc \in {"marked", "finalize"} =>
       /\ slot[Opp(writer.active)].ok => slot[Opp(writer.active)].seq < writer.seq
       /\ slot[writer.active].rev >= acked
  /\ pc \in {"marked", "finalize", "finalized", "publish"} => writer.resizing
  /\ pc = "mark" => next.resizing

\* Every write in flight goes to the slot the cache (or, offline, the disk)
\* does not point at, with the next sequence number.
FlightInv ==
  pc \in InFlight =>
    /\ next.ok
    /\ next.rev >= acked /\ next.rev <= revs
    /\ IF pc = "offline"
       THEN target = Opp(ActiveSlot(slot)) /\ next.seq = read_active_header(slot).seq + 1
       ELSE target = Opp(writer.active) /\ next.seq = writer.seq + 1

\* What is on disk, complete, is never behind what was promised, and what the
\* cache points at is behind it only while the cache holds a resize mark.
PromiseInv ==
  /\ Readable(slot)
  /\ read_active_header(slot).rev >= acked
  /\ acked <= revs
  /\ pc \notin {"closed", "offline"} => slot[writer.active].rev >= acked \/ writer.resizing

\* No slot holds a revision that was never written.
RevInv == \A i \in Slots : slot[i].rev <= revs

IInv ==
  TypeOK /\ NoSequenceTie /\ CacheInv /\ MarkInv /\ FlightInv /\ PromiseInv /\ RevInv

-----------------------------------------------------------------------------
\* The two slots are each other's opposite.
LEMMA OppFacts ==
  ASSUME NEW i \in Slots
  PROVE  /\ Opp(i) \in Slots
         /\ Opp(i) # i
         /\ Opp(Opp(i)) = i
         /\ \A j \in Slots : j = i \/ j = Opp(i)
BY DEF Opp, Slots

\* read_active_header answers with a readable slot if there is one, and with
\* the one of the larger sequence number.
LEMMA ActiveFacts ==
  ASSUME NEW s \in [Slots -> Header]
  PROVE  /\ ActiveSlot(s) \in Slots
         /\ read_active_header(s) \in Header
         /\ Readable(s) => read_active_header(s).ok
         /\ \A i \in Slots :
              s[i].ok /\ (s[Opp(i)].ok => s[Opp(i)].seq < s[i].seq) => ActiveSlot(s) = i
         /\ \A i \in Slots :
              i = ActiveSlot(s) /\ s[Opp(i)].ok => s[Opp(i)].seq <= s[i].seq
BY DEF ActiveSlot, read_active_header, Readable, Header, Slots, Opp

\* Writing one slot leaves the other.
LEMMA WriteSlot ==
  ASSUME NEW s \in [Slots -> Header], NEW i \in Slots, NEW h \in Header
  PROVE  /\ [s EXCEPT ![i] = h] \in [Slots -> Header]
         /\ [s EXCEPT ![i] = h][i] = h
         /\ [s EXCEPT ![i] = h][Opp(i)] = s[Opp(i)]
BY OppFacts

LEMMA TornHeader == Torn \in Header /\ ~Torn.ok
BY DEF Torn, Header

LEMMA InitIInv == Init => IInv
<1> SUFFICES ASSUME Init PROVE IInv OBVIOUS
<1>1. TypeOK BY DEF Init, TypeOK, Slots, Header, Steps, Torn, InFlight
<1>2. NoSequenceTie BY DEF Init, NoSequenceTie, Slots
<1>3. CacheInv
  <2>1. writer.active = 1 /\ writer.seq = 2 BY DEF Init
  <2>2. slot[1].ok /\ slot[1].seq = 2 BY DEF Init, Slots
  <2>5. slot[1].resizing = FALSE /\ writer.resizing = FALSE BY DEF Init, Slots
  <2>6. slot[1].resizing = writer.resizing BY <2>5, Zenon
  <2>3. slot[0].seq = 1 BY DEF Init, Slots
  <2>4. Opp(1) = 0 BY DEF Opp
  <2> QED BY <2>1, <2>2, <2>3, <2>4, <2>6 DEF CacheInv
<1>4. MarkInv /\ FlightInv BY DEF Init, MarkInv, FlightInv, InFlight
<1>5. PromiseInv BY DEF Init, PromiseInv, Readable, read_active_header, ActiveSlot, Slots
<1>6. RevInv BY DEF Init, RevInv, Slots
<1> QED BY <1>1, <1>2, <1>3, <1>4, <1>5, <1>6 DEF IInv

\* Slots only ever receive headers that were numbered by revs.
LEMMA RevStep == IInv /\ [Next]_vars => RevInv'
<1> SUFFICES ASSUME IInv, [Next]_vars PROVE RevInv' OBVIOUS
<1>1. /\ slot \in [Slots -> Header] /\ target \in Slots /\ revs \in Nat
      /\ next \in Header /\ (pc \in InFlight => next.rev <= revs)
      /\ \A i \in Slots : slot[i].rev <= revs
  BY DEF IInv, TypeOK, FlightInv, RevInv
<1>2. CASE UNCHANGED slot /\ (revs' = revs \/ revs' = revs + 1)
  <2>1. \A i \in Slots : slot[i].rev \in Nat BY <1>1 DEF Header
  <2> QED BY <1>1, <1>2, <2>1 DEF RevInv
<1>3. CASE pc \in InFlight /\ revs' = revs
           /\ \E h \in {slot[target], next, Torn} : slot' = [slot EXCEPT ![target] = h]
  <2>1. PICK h \in {slot[target], next, Torn} : slot' = [slot EXCEPT ![target] = h] BY <1>3
  <2>2. h.rev <= revs BY <1>1, <1>3, <2>1 DEF Torn
  <2> QED BY <1>1, <1>3, <2>1, <2>2 DEF RevInv
<1>4. CASE update_header \/ MarkResize \/ finalize_expansion \/ PublishExpansion \/ expand_kv_block
  BY <1>2, <1>4 DEF update_header, MarkResize, finalize_expansion, PublishExpansion,
                    expand_kv_block, write_header_to_inactive_slot
<1>5. CASE WriteDone BY <1>3, <1>5 DEF WriteDone
<1>6. CASE WriteFailed BY <1>3, <1>6 DEF WriteFailed, CutShort
<1>7. CASE Crash BY <1>2, <1>3, <1>7 DEF Crash, CutShort
<1>8. CASE Open BY <1>2, <1>8 DEF Open
<1>9. CASE UNCHANGED vars BY <1>2, <1>9 DEF vars
<1> QED BY <1>4, <1>5, <1>6, <1>7, <1>8, <1>9 DEF Next

\* A header write that starts at AppendWriter's cache keeps the invariant.
LEMMA StartWriter ==
  ASSUME IInv, NEW mark \in BOOLEAN, NEW from \in {"idle", "finalized"}, pc = from,
         NEW to \in {"update", "mark", "publish"}, pc' = to,
         to = "publish" => from = "finalized", to = "mark" => mark,
         write_header_to_inactive_slot(writer.seq, writer.active, mark), UNCHANGED writer,
         Next
  PROVE  IInv'
<1> USE DEF write_header_to_inactive_slot, IInv
<1>1. TypeOK' BY DEF TypeOK, Slots, Header, Steps, InFlight
<1>2. NoSequenceTie' BY DEF NoSequenceTie
<1>3. CacheInv' BY DEF CacheInv
<1>4. MarkInv' BY DEF MarkInv
<1>5. FlightInv' BY DEF FlightInv, TypeOK, PromiseInv, InFlight, Opp
<1>6. PromiseInv' BY DEF PromiseInv, TypeOK, Readable, read_active_header, ActiveSlot
<1> QED BY <1>1, <1>2, <1>3, <1>4, <1>5, <1>6, RevStep

\* Reading the active slot into a fresh cache gives a cache that satisfies
\* CacheInv.
LEMMA CachedFacts ==
  ASSUME NEW s \in [Slots -> Header], Readable(s),
         s[0].ok /\ s[1].ok => s[0].seq # s[1].seq
  PROVE  LET c == Cached(s) IN
         /\ c \in [seq : Nat, active : Slots, resizing : BOOLEAN]
         /\ s[c.active] = read_active_header(s)
         /\ s[c.active].ok
         /\ s[c.active].seq = c.seq
         /\ s[c.active].resizing = c.resizing
         /\ s[Opp(c.active)].ok => s[Opp(c.active)].seq < c.seq
<1>1. PICK i \in Slots : ActiveSlot(s) = i BY ActiveFacts
<1>2. read_active_header(s) = s[i] BY <1>1 DEF read_active_header
<1>3. s[i] \in Header /\ s[i].ok BY <1>1, <1>2, ActiveFacts
<1>4. Cached(s) = [seq |-> s[i].seq, active |-> i, resizing |-> s[i].resizing]
  BY <1>1, <1>2 DEF Cached
<1>5. s[Opp(i)].ok => s[Opp(i)].seq < s[i].seq
  <2>1. s[Opp(i)].ok => s[Opp(i)].seq <= s[i].seq BY <1>1, ActiveFacts
  <2>2. s[Opp(i)].seq \in Nat /\ s[i].seq \in Nat BY OppFacts DEF Header
  <2>3. s[Opp(i)].ok => s[Opp(i)].seq # s[i].seq BY <1>3 DEF Slots, Opp
  <2> QED BY <2>1, <2>2, <2>3
<1> QED BY <1>2, <1>3, <1>4, <1>5 DEF Header

\* If slot i is readable and newer than the other one, it is the header.
LEMMA NewerWins ==
  ASSUME NEW s \in [Slots -> Header], NEW i \in Slots, s[i].ok,
         s[Opp(i)].ok => s[Opp(i)].seq < s[i].seq
  PROVE  /\ ActiveSlot(s) = i
         /\ read_active_header(s) = s[i]
         /\ Readable(s)
         /\ s[0].ok /\ s[1].ok => s[0].seq # s[1].seq
<1>1. ActiveSlot(s) = i BY ActiveFacts
<1>2. read_active_header(s) = s[i] BY <1>1 DEF read_active_header
<1>3. Readable(s) BY DEF Readable, Slots
<1>4. s[0].ok /\ s[1].ok => s[0].seq # s[1].seq BY DEF Slots, Opp, Header
<1> QED BY <1>1, <1>2, <1>3, <1>4

LEMMA DoneStep == IInv /\ WriteDone => IInv'
<1> SUFFICES ASSUME IInv, WriteDone PROVE IInv' OBVIOUS
<1> DEFINE s == [slot EXCEPT ![target] = next]
<1>1. slot' = s /\ acked' = next.rev /\ UNCHANGED <<target, next, revs>> BY DEF WriteDone
<1>2. next \in Header /\ next.ok /\ target \in Slots /\ slot \in [Slots -> Header]
  BY DEF IInv, TypeOK, FlightInv, WriteDone
<1>3. s \in [Slots -> Header] /\ s[target] = next /\ s[Opp(target)] = slot[Opp(target)]
  BY <1>2, WriteSlot
\* the new header is newer than the one it leaves in place
<1>4. slot[Opp(target)].ok => slot[Opp(target)].seq < next.seq
  <2>1. CASE pc = "offline"
    <3>1. PICK i \in Slots : i = ActiveSlot(slot) BY <1>2, ActiveFacts
    <3>2. target = Opp(i) /\ next.seq = slot[i].seq + 1
      BY <2>1, <3>1 DEF IInv, FlightInv, InFlight, read_active_header
    <3>3. Opp(target) = i /\ slot[i] \in Header BY <3>2, OppFacts, <1>2
    <3> QED BY <3>2, <3>3 DEF Header
  <2>2. CASE pc # "offline"
    <3>1. target = Opp(writer.active) /\ next.seq = writer.seq + 1
      BY <2>2 DEF IInv, FlightInv, WriteDone
    <3>2. writer.active \in Slots /\ writer.seq \in Nat BY DEF IInv, TypeOK
    <3>3. Opp(target) = writer.active BY <3>1, <3>2, OppFacts
    <3>4. slot[writer.active].seq = writer.seq
      BY <2>2 DEF IInv, CacheInv, WriteDone, InFlight
    <3> QED BY <3>1, <3>2, <3>3, <3>4
  <2> QED BY <2>1, <2>2
<1>5. /\ ActiveSlot(s) = target /\ read_active_header(s) = next /\ Readable(s)
      /\ s[0].ok /\ s[1].ok => s[0].seq # s[1].seq
  BY <1>2, <1>3, <1>4, NewerWins
<1>6. NoSequenceTie' BY <1>1, <1>5 DEF NoSequenceTie
<1>7. Cached(s) = [seq |-> next.seq, active |-> target, resizing |-> next.resizing]
  BY <1>5 DEF Cached
<1>8. next.rev <= revs BY DEF IInv, FlightInv, WriteDone
<1>9. CASE pc = "offline"
  <2>1. pc' = "idle" /\ writer' = Cached(s) BY <1>1, <1>9 DEF WriteDone
  <2>2. TypeOK' BY <1>1, <1>2, <1>3, <1>5, <2>1, CachedFacts DEF IInv, TypeOK, Steps, Header
  <2>3. CacheInv' BY <1>1, <1>2, <1>3, <1>4, <1>7, <2>1, CachedFacts DEF CacheInv, Header, Opp, Slots
  <2>4. MarkInv' /\ FlightInv' BY <2>1 DEF MarkInv, FlightInv, InFlight
  <2>5. PromiseInv' BY <1>1, <1>2, <1>3, <1>5, <1>7, <1>8, <2>1 DEF PromiseInv, Header
  <2> QED BY <2>2, <2>3, <2>4, <2>5, <1>6, RevStep DEF IInv, Next
<1>10. CASE pc = "finalize"
  <2>1. pc' = "finalized" /\ writer' = writer BY <1>10 DEF WriteDone
  <2>2. TypeOK' BY <1>1, <1>2, <1>3, <2>1 DEF IInv, TypeOK, Steps, Header
  <2>3. target = Opp(writer.active) /\ next.seq = writer.seq + 1
    BY <1>10 DEF IInv, FlightInv, InFlight
  <2>4. writer.active \in Slots /\ writer.seq \in Nat /\ Opp(target) = writer.active
    BY <2>3, OppFacts DEF IInv, TypeOK
  <2>5. CacheInv'
    BY <1>1, <1>3, <1>10, <2>1, <2>3, <2>4 DEF IInv, CacheInv
  <2>6. MarkInv' /\ FlightInv' BY <1>10, <2>1 DEF IInv, MarkInv, FlightInv, InFlight
  <2>7. PromiseInv' BY <1>1, <1>2, <1>5, <1>8, <1>10, <2>1 DEF IInv, MarkInv, PromiseInv, Header
  <2> QED BY <2>2, <2>5, <2>6, <2>7, <1>6, RevStep DEF IInv, Next
<1>11. CASE pc \in {"update", "mark", "publish"}
  <2>1. /\ pc' = IF pc = "mark" THEN "marked" ELSE "idle"
        /\ writer' = [seq |-> next.seq, active |-> target, resizing |-> next.resizing]
    BY <1>11 DEF WriteDone
  <2>2. TypeOK' BY <1>1, <1>2, <1>3, <2>1 DEF IInv, TypeOK, Steps, Header
  <2>3. slot'[target] = next /\ writer'.active = target /\ writer'.seq = next.seq
        /\ writer'.resizing = next.resizing /\ next.seq \in Nat /\ next.rev \in Nat
    BY <1>1, <1>2, <1>3, <2>1 DEF Header
  <2>4. slot'[Opp(target)].seq \in Nat
    BY <1>1, <1>2, <1>3, OppFacts DEF Header
  <2>5. CacheInv' BY <1>1, <1>2, <1>3, <1>4, <2>3, <2>4 DEF CacheInv
  <2>6. pc = "mark" => next.resizing BY DEF IInv, MarkInv
  <2>7. MarkInv' BY <1>1, <1>3, <1>4, <1>11, <2>1, <2>3, <2>6 DEF MarkInv
  <2>8. FlightInv' BY <2>1 DEF FlightInv, InFlight
  <2>9. PromiseInv' BY <1>1, <1>2, <1>5, <1>8, <2>1, <2>3 DEF PromiseInv
  <2> QED BY <2>2, <2>5, <2>7, <2>8, <2>9, <1>6, RevStep DEF IInv, Next
<1> QED BY <1>9, <1>10, <1>11 DEF WriteDone, InFlight

\* The slots a cut-short write leaves behind: one is readable, none ties, the
\* slot the write was not aimed at is as it was, and the header read back is
\* the old one, the new one, or (only if the old header sat in the target
\* slot) the one the cache points at.
LEMMA CutShortFacts ==
  ASSUME IInv, pc \in InFlight, NEW s \in CutShort(target)
  PROVE  /\ s \in [Slots -> Header]
         /\ Readable(s)
         /\ s[0].ok /\ s[1].ok => s[0].seq # s[1].seq
         /\ s[Opp(target)] = slot[Opp(target)]
         /\ slot[Opp(target)].ok
         /\ s[target].ok => s[target].seq <= slot[Opp(target)].seq + 1
         /\ read_active_header(s).rev \in Nat
         /\ \/ read_active_header(s).rev >= acked
            \/ pc # "offline" /\ read_active_header(s) = slot[writer.active]
<1>1. /\ next \in Header /\ next.ok /\ next.rev >= acked /\ acked \in Nat
      /\ target \in Slots /\ slot \in [Slots -> Header]
  BY DEF IInv, TypeOK, FlightInv
<1>2. PICK h \in {slot[target], next, Torn} : s = [slot EXCEPT ![target] = h] BY DEF CutShort
<1>3. h \in Header BY <1>1, <1>2, TornHeader
<1>4. /\ s \in [Slots -> Header] /\ s[target] = h /\ s[Opp(target)] = slot[Opp(target)]
      /\ Opp(target) \in Slots /\ Opp(Opp(target)) = target
  BY <1>1, <1>2, <1>3, WriteSlot, OppFacts
<1>5. read_active_header(s).rev \in Nat BY <1>4, ActiveFacts DEF Header
<1>6. /\ slot[Opp(target)].ok
      /\ next.seq = slot[Opp(target)].seq + 1
      /\ slot[target].ok => slot[target].seq <= slot[Opp(target)].seq + 1
      /\ pc = "offline" => slot[Opp(target)].rev >= acked
      /\ pc # "offline" => Opp(target) = writer.active
  <2>1. CASE pc = "offline"
    <3>1. PICK i \in Slots : i = ActiveSlot(slot) BY <1>1, ActiveFacts
    <3>2. target = Opp(i) /\ next.seq = slot[i].seq + 1
      BY <2>1, <3>1 DEF IInv, FlightInv, InFlight, read_active_header
    <3>3. Opp(target) = i BY <3>2, OppFacts
    <3>4. slot[i].ok /\ slot[i].rev >= acked
      BY <1>1, <3>1, ActiveFacts DEF IInv, PromiseInv, read_active_header
    <3>5. slot[target].ok => slot[target].seq <= slot[i].seq BY <1>1, <3>1, <3>2, ActiveFacts
    <3>6. slot[target].seq \in Nat /\ slot[i].seq \in Nat BY <1>1 DEF Header
    <3> QED BY <2>1, <3>2, <3>3, <3>4, <3>5, <3>6
  <2>2. CASE pc # "offline"
    <3>1. target = Opp(writer.active) /\ next.seq = writer.seq + 1
      BY <2>2 DEF IInv, FlightInv
    <3>2. writer.active \in Slots /\ Opp(target) = writer.active
      BY <3>1, OppFacts DEF IInv, TypeOK
    <3> QED BY <2>2, <3>1, <3>2 DEF IInv, CacheInv, InFlight
  <2> QED BY <2>1, <2>2
<1>7. slot[Opp(target)].seq \in Nat /\ next.seq \in Nat BY <1>1, <1>4 DEF Header
<1>8. CASE h = slot[target]
  <2>1. s = slot BY <1>1, <1>2, <1>8
  <2> QED BY <1>4, <1>5, <1>6, <2>1 DEF IInv, NoSequenceTie, PromiseInv
<1>9. CASE h = next
  <2>1. s[target].ok /\ s[Opp(target)].seq < s[target].seq BY <1>1, <1>4, <1>6, <1>7, <1>9
  <2>2. read_active_header(s) = next /\ Readable(s) /\ (s[0].ok /\ s[1].ok => s[0].seq # s[1].seq)
    BY <1>1, <1>4, <1>9, <2>1, NewerWins
  <2> QED BY <1>1, <1>4, <1>5, <1>6, <1>7, <1>9, <2>2
<1>10. CASE h = Torn
  <2>1. ~s[target].ok BY <1>4, <1>10, TornHeader
  <2>2. s[Opp(target)].ok BY <1>4, <1>6
  <2>3. /\ read_active_header(s) = s[Opp(target)] /\ Readable(s)
        /\ s[0].ok /\ s[1].ok => s[0].seq # s[1].seq
    BY <1>4, <2>1, <2>2, NewerWins
  <2> QED BY <1>4, <1>5, <1>6, <2>1, <2>3
<1> QED BY <1>2, <1>8, <1>9, <1>10

LEMMA FailedStep == IInv /\ WriteFailed => IInv'
<1> SUFFICES ASSUME IInv, WriteFailed PROVE IInv' OBVIOUS
<1>1. /\ pc \in InFlight /\ slot' \in CutShort(target) /\ pc' = "idle"
      /\ UNCHANGED <<target, next, revs>>
  BY DEF WriteFailed
<1>2. /\ slot' \in [Slots -> Header] /\ Readable(slot')
      /\ slot'[0].ok /\ slot'[1].ok => slot'[0].seq # slot'[1].seq
      /\ slot'[Opp(target)] = slot[Opp(target)]
      /\ slot'[target].ok => slot'[target].seq <= slot[Opp(target)].seq + 1
      /\ read_active_header(slot').rev \in Nat
  BY <1>1, CutShortFacts
<1>3. acked \in Nat /\ revs \in Nat /\ acked <= revs BY DEF IInv, TypeOK, PromiseInv
<1>4. acked' \in Nat /\ acked' <= acked /\ acked' <= read_active_header(slot').rev
  BY <1>2, <1>3 DEF WriteFailed
<1>5. NoSequenceTie' BY <1>2 DEF NoSequenceTie
<1>6. MarkInv' /\ FlightInv' BY <1>1 DEF MarkInv, FlightInv, InFlight
<1>7. CASE pc = "offline"
  <2>1. writer' = Cached(slot') BY <1>7 DEF WriteFailed
  <2>2. writer' \in [seq : Nat, active : Slots, resizing : BOOLEAN]
    BY <1>2, <2>1, CachedFacts
  <2>3. TypeOK' BY <1>1, <1>2, <1>4, <2>2 DEF IInv, TypeOK, Steps
  <2>4. /\ slot'[writer'.active] = read_active_header(slot')
        /\ slot'[writer'.active].ok
        /\ slot'[writer'.active].seq = writer'.seq
        /\ slot'[writer'.active].resizing = writer'.resizing
        /\ slot'[Opp(writer'.active)].ok => slot'[Opp(writer'.active)].seq < writer'.seq
    BY <1>2, <2>1, CachedFacts
  <2>5. slot'[Opp(writer'.active)].seq \in Nat /\ writer'.seq \in Nat
    BY <1>2, <2>2, OppFacts DEF Header
  <2>6. CacheInv' BY <2>4, <2>5 DEF CacheInv
  <2>7. PromiseInv' BY <1>1, <1>2, <1>3, <1>4, <2>4 DEF PromiseInv
  <2> QED BY <1>5, <1>6, <2>3, <2>6, <2>7, RevStep DEF IInv, Next
<1>8. CASE pc # "offline"
  <2>1. writer' = writer BY <1>8 DEF WriteFailed
  <2>2. target = Opp(writer.active) /\ writer.active \in Slots /\ Opp(target) = writer.active
    BY <1>1, <1>8, OppFacts DEF IInv, FlightInv, TypeOK
  <2>3. TypeOK' BY <1>1, <1>2, <1>4, <2>1 DEF IInv, TypeOK, Steps
  <2>4. slot[writer.active].seq = writer.seq BY <1>1, <1>8 DEF IInv, CacheInv, InFlight
  <2>5. slot'[target].ok => slot'[target].seq # slot'[writer.active].seq
    <3>1. slot'[writer.active].ok BY <1>1, <1>2, <1>8, <2>2 DEF IInv, CacheInv, InFlight
    <3>2. CASE target = 0 BY <1>2, <2>2, <3>1, <3>2 DEF Opp
    <3>3. CASE target = 1 BY <1>2, <2>2, <3>1, <3>3 DEF Opp
    <3> QED BY <2>2, <3>2, <3>3, OppFacts DEF Slots
  <2>6. CacheInv' BY <1>1, <1>2, <1>8, <2>1, <2>2, <2>4, <2>5 DEF IInv, CacheInv, InFlight
  <2>7. slot[writer.active].rev \in Nat BY <2>2 DEF IInv, TypeOK, Header
  <2>8. PromiseInv' BY <1>1, <1>2, <1>3, <1>4, <1>8, <2>1, <2>2, <2>7 DEF IInv, PromiseInv, InFlight
  <2> QED BY <1>5, <1>6, <2>3, <2>6, <2>8, RevStep DEF IInv, Next
<1> QED BY <1>7, <1>8

LEMMA CrashStep == IInv /\ Crash => IInv'
<1> SUFFICES ASSUME IInv, Crash PROVE IInv' OBVIOUS
<1>1. pc' = "closed" /\ UNCHANGED <<writer, target, next, revs>> BY DEF Crash
<1>2. /\ slot' \in [Slots -> Header] /\ Readable(slot')
      /\ slot'[0].ok /\ slot'[1].ok => slot'[0].seq # slot'[1].seq
  <2>1. CASE pc \in InFlight BY <2>1, CutShortFacts DEF Crash
  <2>2. CASE pc \notin InFlight
    BY <2>2 DEF Crash, IInv, TypeOK, NoSequenceTie, PromiseInv
  <2> QED BY <2>1, <2>2
<1>3. acked' = read_active_header(slot').rev /\ acked' \in Nat
  BY <1>2, ActiveFacts DEF Crash, Header
<1>4. TypeOK' BY <1>1, <1>2, <1>3 DEF IInv, TypeOK, Steps
<1>5. NoSequenceTie' BY <1>2 DEF NoSequenceTie
<1>6. CacheInv' /\ MarkInv' /\ FlightInv' BY <1>1 DEF CacheInv, MarkInv, FlightInv, InFlight
<1>7. acked' <= revs'
  <2>1. \A i \in Slots : slot'[i].rev <= revs' BY RevStep DEF RevInv, Next
  <2> QED BY <1>2, <1>3, <2>1, ActiveFacts DEF read_active_header
<1>8. PromiseInv' BY <1>1, <1>2, <1>3, <1>7 DEF PromiseInv
<1> QED BY <1>4, <1>5, <1>6, <1>8, RevStep DEF IInv, Next

LEMMA OpenStep == IInv /\ Open => IInv'
<1> SUFFICES ASSUME IInv, Open PROVE IInv' OBVIOUS
<1>1. /\ writer' = Cached(slot) /\ pc' = "idle" /\ UNCHANGED <<slot, target, next, revs, acked>>
      /\ Readable(slot) /\ slot \in [Slots -> Header]
      /\ slot[0].ok /\ slot[1].ok => slot[0].seq # slot[1].seq
  BY DEF Open, IInv, TypeOK, NoSequenceTie
<1>2. /\ writer' \in [seq : Nat, active : Slots, resizing : BOOLEAN]
      /\ slot[writer'.active] = read_active_header(slot)
      /\ slot[writer'.active].ok
      /\ slot[writer'.active].seq = writer'.seq
      /\ slot[writer'.active].resizing = writer'.resizing
      /\ slot[Opp(writer'.active)].ok => slot[Opp(writer'.active)].seq < writer'.seq
  BY <1>1, CachedFacts
<1>3. slot[Opp(writer'.active)].seq \in Nat /\ writer'.seq \in Nat
  BY <1>1, <1>2, OppFacts DEF Header
<1>4. TypeOK' BY <1>1, <1>2 DEF IInv, TypeOK, Steps
<1>5. NoSequenceTie' BY <1>1 DEF NoSequenceTie
<1>6. CacheInv' BY <1>1, <1>2, <1>3 DEF CacheInv
<1>7. MarkInv' /\ FlightInv' BY <1>1 DEF MarkInv, FlightInv, InFlight
<1>8. PromiseInv' BY <1>1, <1>2 DEF IInv, PromiseInv
<1> QED BY <1>4, <1>5, <1>6, <1>7, <1>8, RevStep DEF IInv, Next

LEMMA OfflineStep == IInv /\ expand_kv_block => IInv'
<1> SUFFICES ASSUME IInv, expand_kv_block PROVE IInv' OBVIOUS
<1> USE DEF expand_kv_block, write_header_to_inactive_slot, IInv
<1>1. PICK i \in Slots : i = ActiveSlot(slot) BY ActiveFacts DEF TypeOK
<1>2. read_active_header(slot).seq \in Nat BY ActiveFacts DEF TypeOK, Header
<1>3. TypeOK' BY <1>1, <1>2 DEF TypeOK, Slots, Header, Steps, InFlight
<1>4. NoSequenceTie' BY DEF NoSequenceTie
<1>5. CacheInv' /\ MarkInv' BY DEF CacheInv, MarkInv
<1>6. slot' = slot /\ ActiveSlot(slot)' = ActiveSlot(slot)
      /\ read_active_header(slot)' = read_active_header(slot) /\ Readable(slot)' = Readable(slot)
  BY DEF ActiveSlot, read_active_header, Readable
<1>7. FlightInv' BY <1>1, <1>6 DEF FlightInv, TypeOK, PromiseInv, InFlight, Opp
<1>8. PromiseInv' BY <1>6 DEF PromiseInv, TypeOK
<1> QED BY <1>3, <1>4, <1>5, <1>7, <1>8, RevStep DEF Next

LEMMA FinalizeStep == IInv /\ finalize_expansion => IInv'
<1> SUFFICES ASSUME IInv, finalize_expansion PROVE IInv' OBVIOUS
<1> USE DEF finalize_expansion, write_header_to_inactive_slot, IInv
<1>1. slot \in [Slots -> Header] /\ writer.active \in Slots /\ writer.seq \in Nat BY DEF TypeOK
<1>2. /\ slot[writer.active].ok /\ slot[writer.active].seq = writer.seq
      /\ slot[Opp(writer.active)].ok => slot[Opp(writer.active)].seq < writer.seq
  BY DEF CacheInv, MarkInv
<1>3. ActiveSlot(slot) = writer.active /\ read_active_header(slot).seq = writer.seq
  BY <1>1, <1>2, NewerWins
<1>4. TypeOK' BY <1>1, <1>3 DEF TypeOK, Slots, Header, Steps, InFlight
<1>5. NoSequenceTie' /\ CacheInv' /\ MarkInv' BY DEF NoSequenceTie, CacheInv, MarkInv
<1>6. FlightInv' BY <1>1, <1>3 DEF FlightInv, TypeOK, PromiseInv, InFlight, Opp
<1>7. PromiseInv' BY DEF PromiseInv, TypeOK, Readable, read_active_header, ActiveSlot
<1> QED BY <1>4, <1>5, <1>6, <1>7, RevStep DEF Next

LEMMA NextIInv == IInv /\ [Next]_vars => IInv'
<1> SUFFICES ASSUME IInv, [Next]_vars PROVE IInv' OBVIOUS
<1>1. CASE update_header
  BY <1>1, StartWriter DEF update_header, IInv, TypeOK, Next
<1>2. CASE MarkResize BY <1>2, StartWriter DEF MarkResize, Next
<1>3. CASE finalize_expansion BY <1>3, FinalizeStep
<1>4. CASE PublishExpansion BY <1>4, StartWriter DEF PublishExpansion, Next
<1>5. CASE WriteDone BY <1>5, DoneStep
<1>6. CASE WriteFailed BY <1>6, FailedStep
<1>7. CASE Crash BY <1>7, CrashStep
<1>8. CASE Open BY <1>8, OpenStep
<1>9. CASE expand_kv_block BY <1>9, OfflineStep
<1>10. CASE UNCHANGED vars
  BY <1>10 DEF vars, IInv, TypeOK, NoSequenceTie, CacheInv, MarkInv, FlightInv, PromiseInv,
               RevInv, Readable, read_active_header, ActiveSlot
<1> QED BY <1>1, <1>2, <1>3, <1>4, <1>5, <1>6, <1>7, <1>8, <1>9, <1>10 DEF Next

-----------------------------------------------------------------------------
LEMMA Inductive == Spec => []IInv
BY InitIInv, NextIInv, PTL DEF Spec

\* The variables of HeaderSlots keep their types.
THEOREM TypeCorrect == Spec => []TypeOK
<1>1. IInv => TypeOK BY DEF IInv
<1> QED BY <1>1, Inductive, PTL

\* However many headers are written and whenever the process dies, one of the
\* two slots parses and the file opens.
THEOREM HeaderAlwaysReadable == Spec => []AlwaysReadable
<1>1. IInv => AlwaysReadable
  BY CutShortFacts DEF AlwaysReadable, AfterCrash, IInv, PromiseInv
<1> QED BY <1>1, Inductive, PTL

\* read_active_header never breaks a tie.
THEOREM SequencesDiffer == Spec => []NoSequenceTie
<1>1. IInv => NoSequenceTie BY DEF IInv
<1> QED BY <1>1, Inductive, PTL

\* A crash takes the header back behind a completed write only to the resize
\* mark that AppendWriter still caches.
THEOREM RollbackBounded == Spec => []RollbackPointKeptElsewhere
<1>1. IInv => RollbackPointKeptElsewhere
  <2> SUFFICES ASSUME IInv, NEW s \in AfterCrash
               PROVE  \/ read_active_header(s).rev >= acked
                      \/ /\ writer.resizing /\ read_active_header(s).resizing
                         /\ read_active_header(s).seq = writer.seq
                         /\ pc \in {"update", "mark", "publish"}
    BY DEF RollbackPointKeptElsewhere
  <2>1. CASE pc \notin InFlight BY <2>1 DEF AfterCrash, IInv, PromiseInv
  <2>2. CASE pc = "offline" BY <2>2, CutShortFacts DEF AfterCrash, InFlight
  <2>3. CASE pc = "finalize" BY <2>3, CutShortFacts DEF AfterCrash, InFlight, IInv, MarkInv
  <2>4. CASE pc \in {"update", "mark", "publish"}
    <3>1. \/ read_active_header(s).rev >= acked
          \/ read_active_header(s) = slot[writer.active]
      BY <2>4, CutShortFacts DEF AfterCrash, InFlight
    <3>2. slot[writer.active].rev >= acked \/ writer.resizing
      BY <2>4 DEF IInv, PromiseInv
    <3>3. /\ slot[writer.active].resizing = writer.resizing
          /\ slot[writer.active].seq = writer.seq
      BY <2>4 DEF IInv, CacheInv
    <3> QED BY <2>4, <3>1, <3>2, <3>3
  <2> QED BY <2>1, <2>2, <2>3, <2>4 DEF InFlight
<1> QED BY <1>1, Inductive, PTL

=============================================================================
