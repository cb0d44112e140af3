--------------------------------- MODULE Cache ---------------------------------
(***************************************************************************)
(* Cache::get, evict and evict_all (engine/cache.rs): the cache in front   *)
(* of API keys, permissions, groups, grants and index configurations.  A   *)
(* miss registers a mutex for its key in the in-flight map and holds it    *)
(* while it loads; a miss that finds one registered waits on it and looks  *)
(* again.  Each step below is what a thread does between two lock          *)
(* operations.                                                             *)
(***************************************************************************)
EXTENDS FiniteSets, Integers

CONSTANTS Keys, Values, Callers, Nothing, Failed,
          MaxWrites,      \* bound on the writes of the environment
          MaxCalls        \* bound on the calls of get

ASSUME CacheAssumption ==
  /\ IsFiniteSet(Callers) /\ IsFiniteSet(Keys)
  /\ Nothing \notin Values /\ Failed \notin Values /\ Nothing # Failed
  /\ Nothing \notin [key : Keys, value : Values]
  /\ {MaxWrites, MaxCalls} \subseteq Nat

VARIABLES store,          \* the engine's records the loader reads
          entries,        \* RwLock<HashMap<Key, Value>>
          in_flight,      \* [Keys -> mutex or Nothing]
          holder,         \* [Mutexes -> caller holding it, or Nothing]
          call,           \* per caller: where its get stands
          answer,         \* per caller: what its last get returned
          writes, calls

cvars == <<store, entries, in_flight, holder, call, answer, writes, calls>>

\* Arc<Mutex<()>>: a caller refers to one at a time, so twice as many as
\* callers is enough for one to be free.
Mutexes == 1 .. 2 * Cardinality(Callers)

Idle == [at |-> "idle"]

\* A fresh Arc is a mutex that nothing refers to.
Referenced ==
  {in_flight[k] : k \in Keys} \cup {call[c].lock : c \in {d \in Callers : call[d].at \notin {"idle", "missed"}}}

Fresh == CHOOSE m \in Mutexes \ Referenced : \A n \in Mutexes \ Referenced : m <= n

CInit ==
  /\ store \in [Keys -> Values]
  /\ entries = [k \in Keys |-> Nothing]
  /\ in_flight = [k \in Keys |-> Nothing]
  /\ holder = [m \in Mutexes |-> Nothing]
  /\ call = [c \in Callers |-> Idle]
  /\ answer = [c \in Callers |-> Nothing]
  /\ writes = 0 /\ calls = 0

\* The fast path: one look under the read lock.
FastPath(c, k) ==
  /\ call[c].at = "idle"
  /\ calls < MaxCalls
  /\ calls' = calls + 1
  /\ IF entries[k] # Nothing
     THEN answer' = [answer EXCEPT ![c] = entries[k]] /\ UNCHANGED call
     ELSE call' = [call EXCEPT ![c] = [at |-> "missed", key |-> k]] /\ UNCHANGED answer
  /\ UNCHANGED <<store, entries, in_flight, holder, writes>>

\* Under the in_flight lock: take the registered mutex or register a new one.
\* The new one is not locked yet when the map is released.
Join(c) ==
  /\ call[c].at = "missed"
  /\ LET k == call[c].key
     IN  IF in_flight[k] # Nothing
         THEN /\ call' = [call EXCEPT ![c] = [at |-> "waiting", key |-> k, lock |-> in_flight[k]]]
              /\ UNCHANGED in_flight
         ELSE /\ call' = [call EXCEPT ![c] = [at |-> "owning", key |-> k, lock |-> Fresh]]
              /\ in_flight' = [in_flight EXCEPT ![k] = Fresh]
  /\ UNCHANGED <<store, entries, holder, answer, writes, calls>>

Lock(c, from, to) ==
  /\ call[c].at = from
  /\ holder[call[c].lock] = Nothing
  /\ holder' = [holder EXCEPT ![call[c].lock] = c]
  /\ call' = [call EXCEPT ![c].at = to]
  /\ UNCHANGED <<store, entries, in_flight, answer, writes, calls>>

\* As if a waiter that finds no entry went on without releasing the mutex.
RecheckHolding(c) ==
  /\ call[c].at = "rechecking"
  /\ LET k == call[c].key
     IN  IF entries[k] # Nothing
         THEN /\ answer' = [answer EXCEPT ![c] = entries[k]]
              /\ call' = [call EXCEPT ![c] = Idle]
              /\ holder' = [holder EXCEPT ![call[c].lock] = Nothing]
         ELSE /\ call' = [call EXCEPT ![c] = [at |-> "owning", key |-> k, lock |-> Fresh]]
              /\ UNCHANGED <<answer, holder>>
  /\ UNCHANGED <<store, entries, in_flight, writes, calls>>

\* The look after the wait; without an entry the waiter goes on alone, with a
\* mutex nobody else can reach.
Recheck(c) ==
  /\ call[c].at = "rechecking"
  /\ holder' = [holder EXCEPT ![call[c].lock] = Nothing]
  /\ LET k == call[c].key
     IN  IF entries[k] # Nothing
         THEN /\ answer' = [answer EXCEPT ![c] = entries[k]]
              /\ call' = [call EXCEPT ![c] = Idle]
         ELSE /\ call' = [call EXCEPT ![c] = [at |-> "owning", key |-> k, lock |-> Fresh]]
              /\ UNCHANGED answer
  /\ UNCHANGED <<store, entries, in_flight, writes, calls>>

\* CacheLoader::load reads the engine, or fails.
Load(c) ==
  /\ call[c].at = "loading"
  /\ \E result \in {store[call[c].key], Failed} :
       call' = [call EXCEPT ![c] = [at |-> IF result = Failed THEN "removing" ELSE "filling",
                                    key |-> call[c].key, lock |-> call[c].lock, result |-> result]]
  /\ UNCHANGED <<store, entries, in_flight, holder, answer, writes, calls>>

Fill(c) ==
  /\ call[c].at = "filling"
  /\ entries' = [entries EXCEPT ![call[c].key] = call[c].result]
  /\ call' = [call EXCEPT ![c].at = "removing"]
  /\ UNCHANGED <<store, in_flight, holder, answer, writes, calls>>

\* The key's registration goes, whoever made it.
Unregister(c) ==
  /\ call[c].at = "removing"
  /\ in_flight' = [in_flight EXCEPT ![call[c].key] = Nothing]
  /\ call' = [call EXCEPT ![c].at = "returning"]
  /\ UNCHANGED <<store, entries, holder, answer, writes, calls>>

\* As if the answer were read back from the map.
ReturnEntry(c) ==
  /\ call[c].at = "returning"
  /\ holder' = [holder EXCEPT ![call[c].lock] = Nothing]
  /\ answer' = [answer EXCEPT ![c] = IF call[c].result = Failed THEN Failed ELSE entries[call[c].key]]
  /\ call' = [call EXCEPT ![c] = Idle]
  /\ UNCHANGED <<store, entries, in_flight, writes, calls>>

Return(c) ==
  /\ call[c].at = "returning"
  /\ holder' = [holder EXCEPT ![call[c].lock] = Nothing]
  /\ answer' = [answer EXCEPT ![c] = call[c].result]
  /\ call' = [call EXCEPT ![c] = Idle]
  /\ UNCHANGED <<store, entries, in_flight, writes, calls>>

evict(ks) ==
  /\ entries' = [k \in Keys |-> IF k \in ks THEN Nothing ELSE entries[k]]
  /\ UNCHANGED <<store, in_flight, holder, call, answer, writes, calls>>

\* Whoever writes the record, followed sooner or later by an eviction.
Write(k, v) ==
  /\ writes < MaxWrites
  /\ store[k] # v
  /\ store' = [store EXCEPT ![k] = v]
  /\ writes' = writes + 1
  /\ UNCHANGED <<entries, in_flight, holder, call, answer, calls>>

\* A call that has begun goes on; whether and when a caller calls is its own.
Step(c) ==
  \/ Join(c)
  \/ Lock(c, "waiting", "rechecking")
  \/ Lock(c, "owning", "loading")
  \/ Recheck(c)
  \/ Load(c)
  \/ Fill(c)
  \/ Unregister(c)
  \/ Return(c)

CNext ==
  \/ \E c \in Callers : Step(c) \/ \E k \in Keys : FastPath(c, k)
  \/ \E k \in Keys : evict({k})
  \/ evict(Keys)
  \/ \E k \in Keys, v \in Values : Write(k, v)

CSpec == CInit /\ [][CNext]_cvars /\ \A c \in Callers : WF_cvars(Step(c))

-----------------------------------------------------------------------------
CTypeOK ==
  /\ store \in [Keys -> Values]
  /\ entries \in [Keys -> Values \cup {Nothing}]
  /\ in_flight \in [Keys -> Mutexes \cup {Nothing}]
  /\ holder \in [Mutexes -> Callers \cup {Nothing}]
  /\ answer \in [Callers -> Values \cup {Nothing, Failed}]
  /\ writes \in 0 .. MaxWrites /\ calls \in 0 .. MaxCalls
  /\ call \in [Callers -> {Idle} \cup [at : {"missed"}, key : Keys]
                 \cup [at : {"waiting", "rechecking", "owning", "loading"}, key : Keys, lock : Mutexes]
                 \cup [at : {"filling", "removing", "returning"}, key : Keys, lock : Mutexes,
                       result : Values \cup {Failed}]]

\* A load of the abstract cache lasts from the loader's read to the return.
LoadOf(c) ==
  IF call[c].at \in {"filling", "removing", "returning"} /\ call[c].result # Failed
  THEN [key |-> call[c].key, value |-> call[c].result]
  ELSE Nothing

Promise == INSTANCE LoadingCache WITH entry <- entries, load <- [c \in Callers |-> LoadOf(c)]

\* The locks of Cache::get change nothing a caller can see: every run of it is
\* a run of the loading cache of LoadingCache.tla.
Implements == Promise!CacheSpec

\* No arrangement of waiting callers, failing loaders and evictions leaves a
\* call of get waiting for ever on another caller's mutex.
GetReturns == \A c \in Callers : call[c].at # "idle" ~> call[c].at = "idle"

=============================================================================
