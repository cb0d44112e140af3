------------------------------ MODULE MCSearch ------------------------------
(***************************************************************************)
(* TaskQueue (which contains IndexBuffer) and QuerySession for TLC.  They  *)
(* share no state: `part` says which a behaviour is about, and the other   *)
(* stays as it begins.                                                     *)
(***************************************************************************)
EXTENDS MCIndexing, MCQuery

VARIABLE part

SInit ==
  /\ part \in {"indexing", "query"}
  /\ Init /\ QInit
  /\ part = "indexing" => setup = Paged
  /\ part = "query" => requests = Load(0, 0, 0, 0, 1, 1, 1)

Indexing == part = "indexing" /\ UNCHANGED <<qvars, part>>
Querying == part = "query" /\ UNCHANGED <<vars, part>>

SNext == (Indexing /\ Next) \/ (Querying /\ QNext)

SSpec ==
  /\ SInit /\ [][SNext]_<<vars, qvars, part>>
  /\ WF_vars(Indexing /\ WorkerStep) /\ WF_vars(Indexing /\ Cleaner) /\ WF_vars(Indexing /\ ShutdownDone)
  /\ \A t \in Threads : WF_vars(Indexing /\ BufferStep(t))
  /\ \A c \in Clients : WF_vars(Indexing /\ RequestStep(c))
=============================================================================
