---------------------------- MODULE MCLiveTree ----------------------------
(* LiveTree for TLC: leaves of three entries, nodes of three keys. *)
EXTENDS LiveTree, TLC

Numbered(n) == [k \in 1..n |-> <<k, 1>>]
FlatOf(n) == IF n = 0 THEN NoDir ELSE Flat(Numbered(n))   \* a batch wrote it
TreeOfSize(n) == btree_from_entries(Numbered(n))          \* a rebuild did

Budget(put, up, del, reb, snap, coll, crash, task, month) ==
    ("put" :> put) @@ ("upload" :> up) @@ ("delete" :> del) @@ ("rebuild" :> reb) @@ ("snap" :> snap)
      @@ ("gc" :> coll) @@ ("crash" :> crash) @@ ("task" :> task) @@ ("month" :> month)
Keep(auto, manual, writes) == [auto |-> auto, manual |-> manual, writes |-> writes]
Start(dir, conf, b) == [dir |-> dir, config |-> conf, budget |-> b]

MCNames == 1..13
MCSystem == {13}
MCBatches == {<<1, 2>>, <<3, 1, 5, 4>>}
Forever == Keep(0, 0, FALSE)
Always == Keep(0, 0, TRUE)
\* Growing and shrinking a tree; a full tree; collections beside puts,
\* uploads, tasks, snapshots and a restart.
MCStarts ==
  {Start(TreeOfSize(6), Forever, Budget(0, 0, 4, 1, 0, 0, 0, 0, 0)),
   Start(TreeOfSize(12), Forever, Budget(1, 0, 2, 0, 0, 0, 0, 0, 0)),
   Start(FlatOf(3), Forever, Budget(2, 1, 0, 0, 0, 0, 0, 0, 0)),
   Start(FlatOf(2), Forever, Budget(1, 0, 1, 0, 0, 1, 0, 0, 0)),
   Start(FlatOf(0), Forever, Budget(0, 2, 0, 0, 0, 1, 0, 0, 0)),
   Start(FlatOf(2), Keep(1, 1, TRUE), Budget(0, 0, 1, 0, 1, 1, 0, 0, 1)),
   Start(TreeOfSize(5), Always, Budget(0, 0, 1, 0, 1, 2, 0, 0, 0)),
   Start(FlatOf(1), Forever, Budget(1, 0, 0, 0, 0, 1, 1, 1, 0))}

\* One put during one collection.
MCSweepStarts == {Start(FlatOf(2), Forever, Budget(1, 0, 0, 0, 0, 1, 0, 0, 0))}

\* A batch wrote one file more than MaxKeys + 1 full leaves hold.
MCManyNames == 1..14
MCManySystem == {14}
MCBuildStarts == {Start(FlatOf(13), Forever, Budget(2, 0, 1, 1, 0, 0, 0, 0, 0))}
=============================================================================
