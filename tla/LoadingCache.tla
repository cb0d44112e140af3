------------------------------ MODULE LoadingCache ------------------------------
(***************************************************************************)
(* What an eviction-based loading cache promises its callers, whatever it  *)
(* does to share loads among them.  A load reads the store at one moment   *)
(* and may become the cached entry at a later one; a caller is answered    *)
(* from the entry or from a load of its own, never from anything else; an  *)
(* eviction empties entries and touches nothing else.  Cache.tla is the    *)
(* implementation, with its locks.                                         *)
(***************************************************************************)
CONSTANTS Keys, Values, Callers,
          Nothing,    \* no entry, no load, no answer yet
          Failed      \* the answer of a call whose loader failed

VARIABLES store,      \* [Keys -> Values], what a loader reads from the engine
          entry,      \* [Keys -> Values \cup {Nothing}]
          load,       \* per caller: the key and the value it read, or Nothing
          answer      \* per caller: what its last call returned

cacheVars == <<store, entry, load, answer>>

CacheInit ==
  /\ store \in [Keys -> Values]
  /\ entry = [k \in Keys |-> Nothing]
  /\ load = [c \in Callers |-> Nothing]
  /\ answer = [c \in Callers |-> Nothing]

\* A writer changes what the loader would read, then evicts.
Written(k) ==
  /\ \E v \in Values : store' = [store EXCEPT ![k] = v]
  /\ UNCHANGED <<entry, load, answer>>

Evicted(ks) ==
  /\ entry' = [k \in Keys |-> IF k \in ks THEN Nothing ELSE entry[k]]
  /\ UNCHANGED <<store, load, answer>>

Loaded(c, k) ==
  /\ load[c] = Nothing
  /\ load' = [load EXCEPT ![c] = [key |-> k, value |-> store[k]]]
  /\ UNCHANGED <<store, entry, answer>>

Filled(c) ==
  /\ load[c] # Nothing
  /\ entry' = [entry EXCEPT ![load[c].key] = load[c].value]
  /\ UNCHANGED <<store, load, answer>>

AnsweredFromEntry(c, k) ==
  /\ load[c] = Nothing
  /\ entry[k] # Nothing
  /\ answer' = [answer EXCEPT ![c] = entry[k]]
  /\ UNCHANGED <<store, entry, load>>

AnsweredFromLoad(c) ==
  /\ load[c] # Nothing
  /\ answer' = [answer EXCEPT ![c] = load[c].value]
  /\ load' = [load EXCEPT ![c] = Nothing]
  /\ UNCHANGED <<store, entry>>

AnsweredFailure(c) ==
  /\ load[c] = Nothing
  /\ answer' = [answer EXCEPT ![c] = Failed]
  /\ UNCHANGED <<store, entry, load>>

CacheNext ==
  \/ \E k \in Keys : Written(k)
  \/ \E ks \in SUBSET Keys : Evicted(ks)
  \/ \E c \in Callers : Filled(c) \/ AnsweredFromLoad(c) \/ AnsweredFailure(c)
  \/ \E c \in Callers, k \in Keys : Loaded(c, k) \/ AnsweredFromEntry(c, k)

CacheSpec == CacheInit /\ [][CacheNext]_cacheVars

=============================================================================
