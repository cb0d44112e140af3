------------------------------ MODULE CacheProofs ------------------------------
(***************************************************************************)
(* Cache::get implements the loading cache of LoadingCache.tla, for any    *)
(* keys, values and callers, and any number of calls and writes.  Which    *)
(* mutex a caller holds plays no part in the argument: the mutexes decide  *)
(* who loads, never what a load may do.                                    *)
(***************************************************************************)
EXTENDS Cache, TLAPS

\* What each program point of get knows: the fields of the call's record, its
\* key, and, once the loader has returned, a result that is a value of the
\* store or Failed, and no failure on the way to the map.
CallShape(r) ==
  \/ r = Idle
  \/ r = [at |-> "missed", key |-> r.key] /\ r.key \in Keys
  \/ /\ \E p \in {"waiting", "rechecking", "owning", "loading"} :
          r = [at |-> p, key |-> r.key, lock |-> r.lock]
     /\ r.key \in Keys
  \/ /\ \E p \in {"filling", "removing", "returning"} :
          r = [at |-> p, key |-> r.key, lock |-> r.lock, result |-> r.result]
     /\ r.key \in Keys
     /\ r.result \in Values \cup {Failed}
     /\ r.at = "filling" => r.result \in Values

\* The inductive invariant of the refinement: the store, the map and the
\* answers are functions on their domains, and every call has its shape.
CacheInv ==
  /\ store \in [Keys -> Values]
  /\ entries \in [Keys -> Values \cup {Nothing}]
  /\ answer \in [Callers -> Values \cup {Nothing, Failed}]
  /\ DOMAIN call = Callers
  /\ call = [c \in Callers |-> call[c]]
  /\ \A c \in Callers : CallShape(call[c])

\* The steps of get by their effect on one caller's record.
LEMMA CallsKeepShape ==
  ASSUME CacheInv, NEW c \in Callers, NEW r, CallShape(r),
         call' = [call EXCEPT ![c] = r]
  PROVE  /\ DOMAIN call' = Callers
         /\ call' = [d \in Callers |-> call'[d]]
         /\ \A d \in Callers : CallShape(call'[d])
BY DEF CacheInv

\* Initially no call has begun.
LEMMA CacheInvInit == CInit => CacheInv
BY DEF CInit, CacheInv, CallShape

\* The shape of a call's record by its program point.
LEMMA ShapeAt ==
  ASSUME NEW r, CallShape(r)
  PROVE  /\ r.at = "missed" => r = [at |-> "missed", key |-> r.key] /\ r.key \in Keys
         /\ r.at \in {"waiting", "rechecking", "owning", "loading"} =>
              r = [at |-> r.at, key |-> r.key, lock |-> r.lock] /\ r.key \in Keys
         /\ r.at \in {"filling", "removing", "returning"} =>
              /\ r = [at |-> r.at, key |-> r.key, lock |-> r.lock, result |-> r.result]
              /\ r.key \in Keys /\ r.result \in Values \cup {Failed}
              /\ r.at = "filling" => r.result \in Values
BY DEF CallShape, Idle

\* The records the steps of get make have a shape.
LEMMA MadeShapes ==
  ASSUME NEW k \in Keys, NEW m, NEW v \in Values \cup {Failed}
  PROVE  /\ CallShape(Idle)
         /\ CallShape([at |-> "missed", key |-> k])
         /\ \A p \in {"waiting", "rechecking", "owning", "loading"} :
              CallShape([at |-> p, key |-> k, lock |-> m])
         /\ \A p \in {"removing", "returning"} :
              CallShape([at |-> p, key |-> k, lock |-> m, result |-> v])
         /\ v # Failed => CallShape([at |-> "filling", key |-> k, lock |-> m, result |-> v])
BY DEF CallShape, Idle

\* Each step of get, eviction and writer keeps the invariant.
LEMMA CacheInvNext == CacheInv /\ [CNext]_cvars => CacheInv'
<1> SUFFICES ASSUME CacheInv, [CNext]_cvars PROVE CacheInv'
  OBVIOUS
<1>1. ASSUME NEW c \in Callers, Join(c) PROVE CacheInv'
  <2> DEFINE k == call[c].key
  <2>1. k \in Keys
    BY <1>1, ShapeAt DEF CacheInv, Join
  <2>2. PICK r : CallShape(r) /\ call' = [call EXCEPT ![c] = r]
    BY <1>1, <2>1, MadeShapes DEF Join
  <2>3. QED
    BY <1>1, <2>2, CallsKeepShape DEF CacheInv, Join
<1>2. ASSUME NEW c \in Callers, Lock(c, "waiting", "rechecking") PROVE CacheInv'
  <2> DEFINE r == [at |-> "rechecking", key |-> call[c].key, lock |-> call[c].lock]
  <2>1. call[c] = [at |-> "waiting", key |-> call[c].key, lock |-> call[c].lock] /\ call[c].key \in Keys
    BY <1>2, ShapeAt DEF CacheInv, Lock
  <2>2. call' = [call EXCEPT ![c] = r] /\ CallShape(r)
    <3>1. CallShape(r)
      BY <2>1, MadeShapes
    <3>2. [call[c] EXCEPT !.at = "rechecking"] = r
      BY <2>1
    <3>3. call' = [call EXCEPT ![c] = [call[c] EXCEPT !.at = "rechecking"]]
      BY <1>2 DEF Lock, CacheInv
    <3>4. QED
      BY <3>1, <3>2, <3>3
  <2>3. QED
    BY <1>2, <2>2, CallsKeepShape DEF CacheInv, Lock
<1>3. ASSUME NEW c \in Callers, Lock(c, "owning", "loading") PROVE CacheInv'
  <2> DEFINE r == [at |-> "loading", key |-> call[c].key, lock |-> call[c].lock]
  <2>1. call[c] = [at |-> "owning", key |-> call[c].key, lock |-> call[c].lock] /\ call[c].key \in Keys
    BY <1>3, ShapeAt DEF CacheInv, Lock
  <2>2. call' = [call EXCEPT ![c] = r] /\ CallShape(r)
    <3>1. CallShape(r)
      BY <2>1, MadeShapes
    <3>2. [call[c] EXCEPT !.at = "loading"] = r
      BY <2>1
    <3>3. call' = [call EXCEPT ![c] = [call[c] EXCEPT !.at = "loading"]]
      BY <1>3 DEF Lock, CacheInv
    <3>4. QED
      BY <3>1, <3>2, <3>3
  <2>3. QED
    BY <1>3, <2>2, CallsKeepShape DEF CacheInv, Lock
<1>4. ASSUME NEW c \in Callers, Recheck(c) PROVE CacheInv'
  <2>1. call[c].key \in Keys
    BY <1>4, ShapeAt DEF CacheInv, Recheck
  <2>2. PICK r : CallShape(r) /\ call' = [call EXCEPT ![c] = r]
    BY <1>4, <2>1, MadeShapes DEF Recheck
  <2>3. answer' \in [Callers -> Values \cup {Nothing, Failed}]
    BY <1>4, <2>1 DEF Recheck, CacheInv
  <2>4. QED
    BY <1>4, <2>2, <2>3, CallsKeepShape DEF CacheInv, Recheck
<1>5. ASSUME NEW c \in Callers, Load(c) PROVE CacheInv'
  <2>1. call[c].key \in Keys
    BY <1>5, ShapeAt DEF CacheInv, Load
  <2>2. store[call[c].key] \in Values
    BY <2>1 DEF CacheInv
  <2>3. PICK r : CallShape(r) /\ call' = [call EXCEPT ![c] = r]
    BY <1>5, <2>1, <2>2, MadeShapes, CacheAssumption DEF Load
  <2>4. QED
    BY <1>5, <2>3, CallsKeepShape DEF CacheInv, Load
<1>6. ASSUME NEW c \in Callers, Fill(c) PROVE CacheInv'
  <2> DEFINE r == [at |-> "removing", key |-> call[c].key, lock |-> call[c].lock, result |-> call[c].result]
  <2>1. /\ call[c] = [at |-> "filling", key |-> call[c].key, lock |-> call[c].lock, result |-> call[c].result]
        /\ call[c].key \in Keys /\ call[c].result \in Values \cup {Failed}
        /\ call[c].result \in Values
    BY <1>6, ShapeAt DEF CacheInv, Fill
  <2>2. call' = [call EXCEPT ![c] = r] /\ CallShape(r)
    <3>1. CallShape(r)
      BY <2>1, MadeShapes
    <3>2. [call[c] EXCEPT !.at = "removing"] = r
      BY <2>1
    <3>3. call' = [call EXCEPT ![c] = [call[c] EXCEPT !.at = "removing"]]
      BY <1>6 DEF Fill, CacheInv
    <3>4. QED
      BY <3>1, <3>2, <3>3
  <2>3. QED
    BY <1>6, <2>1, <2>2, CallsKeepShape DEF CacheInv, Fill
<1>7. ASSUME NEW c \in Callers, Unregister(c) PROVE CacheInv'
  <2> DEFINE r == [at |-> "returning", key |-> call[c].key, lock |-> call[c].lock, result |-> call[c].result]
  <2>1. /\ call[c] = [at |-> "removing", key |-> call[c].key, lock |-> call[c].lock, result |-> call[c].result]
        /\ call[c].key \in Keys /\ call[c].result \in Values \cup {Failed}
    BY <1>7, ShapeAt DEF CacheInv, Unregister
  <2>2. call' = [call EXCEPT ![c] = r] /\ CallShape(r)
    <3>1. CallShape(r)
      BY <2>1, MadeShapes
    <3>2. [call[c] EXCEPT !.at = "returning"] = r
      BY <2>1
    <3>3. call' = [call EXCEPT ![c] = [call[c] EXCEPT !.at = "returning"]]
      BY <1>7 DEF Unregister, CacheInv
    <3>4. QED
      BY <3>1, <3>2, <3>3
  <2>3. QED
    BY <1>7, <2>1, <2>2, CallsKeepShape DEF CacheInv, Unregister
<1>8. ASSUME NEW c \in Callers, Return(c) PROVE CacheInv'
  <2>1. call[c].result \in Values \cup {Failed} /\ call[c].key \in Keys
    BY <1>8, ShapeAt DEF CacheInv, Return
  <2>2. call' = [call EXCEPT ![c] = Idle] /\ CallShape(Idle)
    BY <1>8, <2>1, MadeShapes DEF Return
  <2>3. QED
    BY <1>8, <2>1, <2>2, CallsKeepShape DEF CacheInv, Return
<1>9. ASSUME NEW c \in Callers, NEW k \in Keys, FastPath(c, k) PROVE CacheInv'
  <2>1. CASE entries[k] # Nothing
    BY <1>9, <2>1 DEF CacheInv, FastPath
  <2>2. CASE entries[k] = Nothing
    <3>1. CallShape([at |-> "missed", key |-> k])
      BY DEF CallShape
    <3>2. QED
      BY <1>9, <2>2, <3>1, CallsKeepShape DEF CacheInv, FastPath
  <2>3. QED
    BY <2>1, <2>2
<1>10. ASSUME NEW ks \in SUBSET Keys, evict(ks) PROVE CacheInv'
  BY <1>10 DEF CacheInv, CallShape, evict
<1>11. ASSUME NEW k \in Keys, NEW v \in Values, Write(k, v) PROVE CacheInv'
  BY <1>11 DEF CacheInv, CallShape, Write
<1>12. ASSUME UNCHANGED cvars PROVE CacheInv'
  BY <1>12 DEF CacheInv, CallShape, cvars
<1>13. QED
  BY <1>1, <1>2, <1>3, <1>4, <1>5, <1>6, <1>7, <1>8, <1>9, <1>10, <1>11, <1>12
  DEF CNext, Step

-----------------------------------------------------------------------------
\* The abstract load a call's record stands for, and all of them.
LoadIn(r) ==
  IF r.at \in {"filling", "removing", "returning"} /\ r.result # Failed
  THEN [key |-> r.key, value |-> r.result]
  ELSE Nothing

Loads == [c \in Callers |-> LoadOf(c)]

\* A step that writes one caller's record changes at most that caller's load.
LEMMA LoadsFollowCall ==
  ASSUME CacheInv, NEW c \in Callers, NEW r, call' = [call EXCEPT ![c] = r]
  PROVE  /\ Loads[c] = LoadIn(call[c])
         /\ Loads' = [Loads EXCEPT ![c] = LoadIn(r)]
         /\ LoadIn(r) = LoadIn(call[c]) => Loads' = Loads
<1>1. \A d \in Callers : call'[d] = IF d = c THEN r ELSE call[d]
  BY DEF CacheInv
<1>2. Loads[c] = LoadIn(call[c])
  BY DEF Loads, LoadOf, LoadIn
<1>3. Loads' = [d \in Callers |-> IF d = c THEN LoadIn(r) ELSE LoadOf(d)]
  BY <1>1 DEF Loads, LoadOf, LoadIn
<1>4. QED
  BY <1>2, <1>3 DEF Loads

\* The empty cache with no call begun is the empty loading cache.
LEMMA InitRefines == CInit => Promise!CacheInit
BY DEF CInit, Promise!CacheInit, LoadOf, Idle

\* Every step of get, evict and the writer is a step of the loading cache or
\* leaves it alone: a fast path or a second look that hits answers from the
\* entry, a loader's read is Loaded, the insert is Filled, the return answers
\* from the caller's own load or with its failure; joining, waiting, locking
\* and unregistering are stutters.
LEMMA StepRefines == CacheInv /\ [CNext]_cvars => [Promise!CacheNext]_(Promise!cacheVars)
<1> SUFFICES ASSUME CacheInv, [CNext]_cvars PROVE [Promise!CacheNext]_(Promise!cacheVars)
  OBVIOUS
<1>a. Loads = [c \in Callers |-> LoadOf(c)]
  BY DEF Loads
<1>b. ASSUME Loads' = Loads, UNCHANGED <<store, entries, answer>>
      PROVE  UNCHANGED Promise!cacheVars
  BY <1>b DEF Loads, Promise!cacheVars
<1>1. ASSUME NEW c \in Callers, Join(c) PROVE UNCHANGED Promise!cacheVars
  <2>1. call[c] = [at |-> "missed", key |-> call[c].key] /\ call[c].key \in Keys
    BY <1>1, ShapeAt DEF CacheInv, Join
  <2>2. PICK r : LoadIn(r) = Nothing /\ call' = [call EXCEPT ![c] = r]
    BY <1>1, <2>1 DEF Join, LoadIn
  <2>3. LoadIn(call[c]) = Nothing
    BY <2>1 DEF LoadIn
  <2>4. QED
    BY <1>1, <1>b, <2>2, <2>3, LoadsFollowCall DEF Join
<1>2. ASSUME NEW c \in Callers, NEW p \in {"waiting", "owning"}, NEW q \in {"rechecking", "loading"}, Lock(c, p, q)
      PROVE  UNCHANGED Promise!cacheVars
  <2> DEFINE r == [at |-> q, key |-> call[c].key, lock |-> call[c].lock]
  <2>1. call[c] = [at |-> p, key |-> call[c].key, lock |-> call[c].lock] /\ call[c].key \in Keys
    BY <1>2, ShapeAt DEF CacheInv, Lock
  <2>2. LoadIn(call[c]) = Nothing /\ LoadIn(r) = Nothing
    BY <2>1 DEF LoadIn
  <2>3. call' = [call EXCEPT ![c] = r]
    <3>1. [call[c] EXCEPT !.at = q] = r
      BY <2>1
    <3>2. call' = [call EXCEPT ![c] = [call[c] EXCEPT !.at = q]]
      BY <1>2 DEF Lock, CacheInv
    <3>3. QED
      BY <3>1, <3>2
  <2>4. Loads' = Loads
    BY <2>2, <2>3, LoadsFollowCall
  <2>5. QED
    BY <1>2, <1>b, <2>4 DEF Lock
<1>3. ASSUME NEW c \in Callers, Recheck(c) PROVE [Promise!CacheNext]_(Promise!cacheVars)
  <2>1. call[c] = [at |-> "rechecking", key |-> call[c].key, lock |-> call[c].lock] /\ call[c].key \in Keys
    BY <1>3, ShapeAt DEF CacheInv, Recheck
  <2>2. LoadIn(call[c]) = Nothing
    BY <2>1 DEF LoadIn
  <2>3. PICK r : LoadIn(r) = Nothing /\ call' = [call EXCEPT ![c] = r]
    BY <1>3, <2>1 DEF Recheck, LoadIn, Idle
  <2>4. Loads[c] = Nothing /\ Loads' = Loads
    BY <2>2, <2>3, LoadsFollowCall
  <2>5. CASE entries[call[c].key] # Nothing
    <3>1. Promise!AnsweredFromEntry(c, call[c].key)
      BY <1>3, <2>4, <2>5 DEF Recheck, Loads, Promise!AnsweredFromEntry
    <3>2. QED
      BY <3>1, <2>1 DEF Promise!CacheNext
  <2>6. CASE entries[call[c].key] = Nothing
    BY <1>3, <1>b, <2>4, <2>6 DEF Recheck
  <2>7. QED
    BY <2>5, <2>6
<1>4. ASSUME NEW c \in Callers, Load(c) PROVE [Promise!CacheNext]_(Promise!cacheVars)
  <2> DEFINE k == call[c].key
             r(v) == [at |-> IF v = Failed THEN "removing" ELSE "filling",
                      key |-> k, lock |-> call[c].lock, result |-> v]
  <2>1. call[c] = [at |-> "loading", key |-> k, lock |-> call[c].lock] /\ k \in Keys
    BY <1>4, ShapeAt DEF CacheInv, Load
  <2>2. store[k] \in Values /\ store[k] # Failed
    BY <2>1, CacheAssumption DEF CacheInv
  <2>3. LoadIn(call[c]) = Nothing
    BY <2>1 DEF LoadIn
  <2>4. PICK v \in {store[k], Failed} : call' = [call EXCEPT ![c] = r(v)]
    BY <1>4 DEF Load
  <2>5. LoadIn(r(v)) = IF v = Failed THEN Nothing ELSE [key |-> k, value |-> v]
    BY <2>1, <2>2 DEF LoadIn
  <2>6. Loads[c] = Nothing /\ Loads' = [Loads EXCEPT ![c] = LoadIn(r(v))]
    BY <2>3, <2>4, LoadsFollowCall
  <2>7. CASE v = Failed
    <3>1. Loads' = Loads
      BY <2>3, <2>4, <2>5, <2>7, LoadsFollowCall
    <3>2. QED
      BY <3>1, <1>4, <1>b DEF Load
  <2>8. CASE v = store[k]
    <3>1. Loads' = [Loads EXCEPT ![c] = [key |-> k, value |-> store[k]]]
      BY <2>2, <2>5, <2>6, <2>8
    <3>2. UNCHANGED <<store, entries, answer>>
      BY <1>4 DEF Load
    <3>3. Promise!Loaded(c, k)
      BY <2>6, <3>1, <3>2 DEF Loads, Promise!Loaded
    <3>4. QED
      BY <3>3, <2>1 DEF Promise!CacheNext
  <2>9. QED
    BY <2>7, <2>8
<1>5. ASSUME NEW c \in Callers, Fill(c) PROVE [Promise!CacheNext]_(Promise!cacheVars)
  <2> DEFINE k == call[c].key
             v == call[c].result
             r == [at |-> "removing", key |-> k, lock |-> call[c].lock, result |-> v]
  <2>1. /\ call[c] = [at |-> "filling", key |-> k, lock |-> call[c].lock, result |-> v]
        /\ k \in Keys /\ v \in Values
    BY <1>5, ShapeAt DEF CacheInv, Fill
  <2>2. LoadIn(call[c]) = [key |-> k, value |-> v] /\ LoadIn(r) = [key |-> k, value |-> v]
    BY <2>1, CacheAssumption DEF LoadIn
  <2>3. call' = [call EXCEPT ![c] = r]
    <3>1. [call[c] EXCEPT !.at = "removing"] = r
      BY <2>1
    <3>2. call' = [call EXCEPT ![c] = [call[c] EXCEPT !.at = "removing"]]
      BY <1>5 DEF Fill, CacheInv
    <3>3. QED
      BY <3>1, <3>2
  <2>4. Loads[c] = [key |-> k, value |-> v] /\ Loads' = Loads
    BY <2>2, <2>3, LoadsFollowCall
  <2>5. Loads[c] # Nothing /\ Loads[c].key = k /\ Loads[c].value = v
    BY <2>1, <2>4, CacheAssumption
  <2>6. entries' = [entries EXCEPT ![k] = v] /\ UNCHANGED <<store, answer>>
    BY <1>5 DEF Fill
  <2>7. Promise!Filled(c)
    BY <2>4, <2>5, <2>6 DEF Loads, Promise!Filled
  <2>8. QED
    BY <2>7 DEF Promise!CacheNext
<1>6. ASSUME NEW c \in Callers, Unregister(c) PROVE UNCHANGED Promise!cacheVars
  <2> DEFINE r == [at |-> "returning", key |-> call[c].key, lock |-> call[c].lock, result |-> call[c].result]
  <2>1. /\ call[c] = [at |-> "removing", key |-> call[c].key, lock |-> call[c].lock, result |-> call[c].result]
        /\ call[c].key \in Keys /\ call[c].result \in Values \cup {Failed}
    BY <1>6, ShapeAt DEF CacheInv, Unregister
  <2>2. LoadIn(call[c]) = LoadIn(r)
    BY <2>1 DEF LoadIn
  <2>3. call' = [call EXCEPT ![c] = r]
    <3>1. [call[c] EXCEPT !.at = "returning"] = r
      BY <2>1
    <3>2. call' = [call EXCEPT ![c] = [call[c] EXCEPT !.at = "returning"]]
      BY <1>6 DEF Unregister, CacheInv
    <3>3. QED
      BY <3>1, <3>2
  <2>4. QED
    BY <1>6, <1>b, <2>2, <2>3, LoadsFollowCall DEF Unregister
<1>7. ASSUME NEW c \in Callers, Return(c) PROVE [Promise!CacheNext]_(Promise!cacheVars)
  <2> DEFINE k == call[c].key
             v == call[c].result
  <2>1. /\ call[c] = [at |-> "returning", key |-> k, lock |-> call[c].lock, result |-> v]
        /\ k \in Keys /\ v \in Values \cup {Failed}
    BY <1>7, ShapeAt DEF CacheInv, Return
  <2>2. /\ LoadIn(call[c]) = IF v = Failed THEN Nothing ELSE [key |-> k, value |-> v]
        /\ LoadIn(Idle) = Nothing
    BY <2>1 DEF LoadIn, Idle
  <2>3. call' = [call EXCEPT ![c] = Idle] /\ answer' = [answer EXCEPT ![c] = v] /\ UNCHANGED <<store, entries>>
    BY <1>7 DEF Return
  <2>4. Loads[c] = LoadIn(call[c]) /\ Loads' = [Loads EXCEPT ![c] = Nothing]
    BY <2>2, <2>3, LoadsFollowCall
  <2>5. CASE v = Failed
    <3>1. Loads[c] = Nothing /\ Loads' = Loads
      BY <2>2, <2>3, <2>4, <2>5, LoadsFollowCall
    <3>2. Promise!AnsweredFailure(c)
      BY <2>3, <2>5, <3>1 DEF Loads, Promise!AnsweredFailure
    <3>3. QED
      BY <3>2 DEF Promise!CacheNext
  <2>6. CASE v # Failed
    <3>1. Loads[c] = [key |-> k, value |-> v] /\ Loads[c] # Nothing /\ Loads[c].value = v
      BY <2>1, <2>2, <2>4, <2>6, CacheAssumption
    <3>2. Promise!AnsweredFromLoad(c)
      BY <2>3, <2>4, <3>1 DEF Loads, Promise!AnsweredFromLoad
    <3>3. QED
      BY <3>2 DEF Promise!CacheNext
  <2>7. QED
    BY <2>5, <2>6
<1>8. ASSUME NEW c \in Callers, NEW k \in Keys, FastPath(c, k) PROVE [Promise!CacheNext]_(Promise!cacheVars)
  <2>1. LoadIn(call[c]) = Nothing
    BY <1>8 DEF FastPath, LoadIn
  <2>2. Loads[c] = Nothing
    BY <2>1 DEF Loads, LoadOf, LoadIn
  <2>3. CASE entries[k] # Nothing
    <3>1. Loads' = Loads
      BY <1>8, <2>3 DEF FastPath, Loads, LoadOf
    <3>2. Promise!AnsweredFromEntry(c, k)
      BY <1>8, <2>2, <2>3, <3>1 DEF FastPath, Loads, Promise!AnsweredFromEntry
    <3>3. QED
      BY <3>2 DEF Promise!CacheNext
  <2>4. CASE entries[k] = Nothing
    <3>1. call' = [call EXCEPT ![c] = [at |-> "missed", key |-> k]] /\ UNCHANGED <<store, entries, answer>>
      BY <1>8, <2>4 DEF FastPath
    <3>2. LoadIn([at |-> "missed", key |-> k]) = Nothing
      BY DEF LoadIn
    <3>3. Loads' = Loads
      BY <2>1, <3>1, <3>2, LoadsFollowCall
    <3>4. QED
      BY <3>1, <3>3, <1>b
  <2>5. QED
    BY <2>3, <2>4
<1>9. ASSUME NEW ks \in SUBSET Keys, evict(ks) PROVE Promise!CacheNext
  <2>1. Loads' = Loads
    BY <1>9 DEF evict, Loads, LoadOf
  <2>2. Promise!Evicted(ks)
    BY <1>9, <2>1 DEF evict, Loads, Promise!Evicted
  <2>3. QED
    BY <2>2 DEF Promise!CacheNext
<1>10. ASSUME NEW k \in Keys, NEW v \in Values, Write(k, v) PROVE Promise!CacheNext
  <2>1. Loads' = Loads
    BY <1>10 DEF Write, Loads, LoadOf
  <2>2. Promise!Written(k)
    BY <1>10, <2>1 DEF Write, Loads, Promise!Written
  <2>3. QED
    BY <2>2 DEF Promise!CacheNext
<1>11. ASSUME UNCHANGED cvars PROVE UNCHANGED Promise!cacheVars
  BY <1>11 DEF cvars, LoadOf, Promise!cacheVars
<1>12. QED
  <2>1. ASSUME NEW c \in Callers, Step(c) PROVE [Promise!CacheNext]_(Promise!cacheVars)
    BY <2>1, <1>1, <1>2, <1>3, <1>4, <1>5, <1>6, <1>7 DEF Step
  <2>2. QED
    BY <2>1, <1>8, <1>9, <1>10, <1>11 DEF CNext

\* In every reachable state the calls of get have their shapes.
THEOREM CallsWellFormed == CSpec => []CacheInv
BY CacheInvInit, CacheInvNext, PTL DEF CSpec

\* For any keys, values and callers: whatever the mutexes of Cache::get do with
\* misses that overlap, failing loaders, evictions and writers, callers see a
\* loading cache.  An answer is the entry or the caller's own load, and a map
\* entry is always what some load read.
THEOREM CacheRefines == CSpec => Implements
<1>1. CSpec => []CacheInv
  BY CallsWellFormed
<1>2. QED
  BY <1>1, InitRefines, StepRefines, PTL DEF CSpec, Implements, Promise!CacheSpec
=============================================================================
