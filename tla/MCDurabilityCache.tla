-------------------------- MODULE MCDurabilityCache --------------------------
(***************************************************************************)
(* Durability and Cache for TLC.  They share no state: `part` says which a *)
(* behaviour is about, and the other stays as it begins.  The cache has    *)
(* three callers on one key, a writer, and loaders that may fail.          *)
(***************************************************************************)
EXTENDS MCDurability, Cache

VARIABLE part

PInit ==
  /\ part \in {"durability", "cache"}
  /\ DInit /\ CInit
  /\ part = "cache" => mix = DMix(Requests, TRUE, 1, 0, FALSE, 0)
  /\ \A k \in Keys : store[k] = CHOOSE v \in Values : TRUE   \* values are interchangeable

Durable == part = "durability" /\ UNCHANGED <<cvars, part>>
Caching == part = "cache" /\ UNCHANGED <<dvars, part>>

PNext == (Durable /\ DNext) \/ (Caching /\ CNext)

PSpec ==
  /\ PInit /\ [][PNext]_<<dvars, cvars, part>>
  /\ \A i \in Requests : WF_dvars(Durable /\ Request(i))
  /\ WF_dvars(Durable /\ attempt_emergency_spill)
  /\ \A c \in Callers : WF_cvars(Caching /\ Step(c))
=============================================================================
