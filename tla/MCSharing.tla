------------------------------- MODULE MCSharing -------------------------------
(***************************************************************************)
(* A tree of depth three, two users and one group.  Each mix is a set of   *)
(* handlers that may overlap, with the number begun in one behaviour.      *)
(***************************************************************************)
EXTENDS Sharing

a == <<"a">>
ab == <<"a", "b">>
abf == <<"a", "b", "f">>
c == <<"c">>
MCTree == [p \in {<<>>, a, ab, abf, c} |-> CASE p \in {<<>>, a, ab} -> "dir" [] p = abf -> "file" [] OTHER -> "none"]

MCContents == {
  {Link("g", NoName, {}, {"r", "l"})},
  {[Link("g", NoName, {"l"}, {}) EXCEPT !.others_allow = {"r"}], Link("u1", "b", {"u"}, {})}}

MCTag == [u \in {"u1", "u2"} |-> IF u = "u1" THEN "t1" ELSE "t2"]
MCQuery == [g \in {"g"} |-> "t2"]

Mix(actions, handlers, lists, with) == [actions |-> actions, handlers |-> handlers, lists |-> lists, with |-> with]
MCMixes == {
  Mix({"share", "unshare"}, 3, {<<ab>>, <<abf>>, <<abf, c>>}, {"u1", "g"}),
  Mix({"share", "read"}, 3, {<<abf>>, <<a, ab>>}, {"g"}),
  Mix({"put", "delete", "rename"}, 3, {}, {}),
  Mix({"put", "rename", "read"}, 2, {}, {}),
  Mix({"put", "delete", "copy"}, 3, {}, {}),
  Mix({"share", "snapshot", "read"}, 4, {<<ab>>}, {"u1"}),
  Mix({"people", "read"}, 4, {}, {}),
  Mix({"share", "files"}, 3, {<<abf>>, <<c>>}, {"u1"}),
  Mix({"link", "files"}, 3, {<<ab>>, <<abf>>, <<abf, c>>, <<a, ab>>}, {})}
=============================================================================
