--------------------------- MODULE MCStorageCore ---------------------------
(* StorageCore with model values for keys, and the setups it is checked in. *)
EXTENDS StorageCore, TLC

CONSTANTS c1, c2, f, r

\* Two path keys and no chunks; buffers that every second insert fills; one
\* kill or power loss anywhere but in a repair.
CrashSetup ==
    [chunks |-> {}, files |-> {f, r}, keys |-> {f, r, DeletionKey(f), DeletionKey(r)}, batch |-> <<f, r>>,
     hot_threshold |-> 2, write_threshold |-> 2,
     max_offset |-> 4, max_version |-> 3, max_crashes |-> 1,
     power_loss |-> TRUE, page_faults |-> {"lost", "torn"},
     torn_chunks |-> FALSE, crash_in_repair |-> FALSE,
     sweep_chunks |-> FALSE, sweep_alone |-> TRUE, tree_rebuild |-> FALSE]

\* Two chunks over the root; sweeps, reuse and a kill; buffers that never fill.
GcSetup ==
    [chunks |-> {c1, c2}, files |-> {r}, keys |-> {c1, c2, r, DeletionKey(r)}, batch |-> <<r>>,
     hot_threshold |-> 9, write_threshold |-> 9,
     max_offset |-> 3, max_version |-> 3, max_crashes |-> 1,
     power_loss |-> FALSE, page_faults |-> {},
     torn_chunks |-> FALSE, crash_in_repair |-> FALSE,
     sweep_chunks |-> TRUE, sweep_alone |-> TRUE, tree_rebuild |-> TRUE]

CrashAndGc == {CrashSetup, GcSetup}

\* As GcSetup, with a hot buffer that fills in the middle of a store.
StaleVoids == {[GcSetup EXCEPT !.hot_threshold = 2, !.max_offset = 4, !.max_version = 4, !.tree_rebuild = FALSE]}

\* As CrashSetup, with a second crash that may come while the pages are rebuilt.
RebuildCrash == {[CrashSetup EXCEPT !.hot_threshold = 9, !.max_crashes = 2, !.page_faults = {"torn"},
                                    !.crash_in_repair = TRUE]}

\* Chunks are interchangeable: nothing orders their keys.
ChunkSymmetry == Permutations({c1, c2})
============================================================================
