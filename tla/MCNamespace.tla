----------------------------- MODULE MCNamespace -----------------------------
(* Two directories under the root, files in both, and a symlink.           *)
EXTENDS Namespace, TLC

CONSTANTS val1, val2, snap1, snap2

VersionSymmetry == Permutations({snap1, snap2})
ContentSymmetry == Permutations({val1, val2})

TwoDirs == {<<"a">>, <<"b">>}
OneDir == {<<"a">>}
FilesInBoth == {<<"a", "x">>, <<"a", "y">>, <<"b", "x">>}
FilesInOne == {<<"a", "x">>, <<"a", "y">>}
FileAtRoot == {<<"x">>, <<"a", "y">>}
TwoLinks == {<<"a", "l">>, <<"a", "m">>}
NoPaths == {}
SameParent == {{<<"a">>}}
RootAndChild == {{Root, <<"a">>}}
NoBatch == {}
=============================================================================
