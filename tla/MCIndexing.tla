----------------------------- MODULE MCIndexing -----------------------------
(***************************************************************************)
(* The instance of TaskQueue that TLC checks: two files, a metadata and a  *)
(* content field, one client, at most two tasks and one fault, under eight *)
(* small mixes of requests.                                                *)
(***************************************************************************)
EXTENDS TaskQueue

MCConfigs == {{"m"}, {"c"}}

Load(store, delete, cfg, cancel, reindex, gc, fault) ==
  [kind \in RequestKinds |->
     CASE kind = "store" -> store [] kind = "delete" -> delete [] kind = "config" -> cfg
       [] kind = "cancel" -> cancel [] kind = "reindex" -> reindex [] kind = "gc" -> gc
       [] OTHER -> fault]

MCWorkloads == {Load(1, 0, 0, 0, 1, 0, 1), Load(1, 1, 0, 0, 0, 0, 1), Load(0, 1, 0, 0, 1, 0, 1),
                Load(0, 0, 0, 1, 1, 0, 1), Load(0, 0, 0, 1, 0, 2, 1), Load(0, 0, 0, 0, 1, 1, 1),
                Load(1, 0, 1, 0, 0, 0, 1), Load(0, 0, 1, 0, 1, 0, 0)}

=============================================================================
