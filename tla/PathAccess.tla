------------------------------ MODULE PathAccess ------------------------------
(***************************************************************************)
(* What a request may do at a path: the permission walk of                 *)
(* engine/permission_resolver.rs, the navigation index of                  *)
(* engine/grants_index.rs, the ordered rules of engine/api_key_rules.rs,   *)
(* and how permission_middleware and the listing handlers use them.  A     *)
(* path is the sequence of its names, and a flag says whether it was       *)
(* written with a trailing slash.  Every operator takes the view v the     *)
(* caches give of one user: v.groups, v.perms (links by directory) and     *)
(* v.grants (group and target).                                            *)
(***************************************************************************)
EXTENDS Integers, Sequences, Functions

CONSTANT NoName     \* the path_pattern of a link for a whole directory

\* A path is one of its ancestors, followed by more names.
parent_path(path) == SubSeq(path, 1, Len(path) - 1)
file_name(path) == path[Len(path)]
path_is_ancestor_or_equal(dir, path) == \E n \in 0 .. Len(path) : dir = SubSeq(path, 1, n)
path_is_strict_ancestor(dir, path) == dir # path /\ path_is_ancestor_or_equal(dir, path)

Ops == {"c", "r", "u", "d", "l", "i", "f", "y"}

Link(group, pattern, allow, deny) ==
  [group |-> group, pattern |-> pattern, allow |-> allow, deny |-> deny, others_allow |-> {}, others_deny |-> {}]

\* The levels of a path are its prefixes, root first; a path without a
\* trailing slash leaves out its last name.
LastLevel(path, slash) == IF slash \/ path = <<>> THEN Len(path) ELSE Len(path) - 1
Level(path, n) == SubSeq(path, 1, n)

\* A link for one file counts only at the parent of that file.
Applies(link, path, n) ==
  link.pattern = NoName \/ (n = Len(path) - 1 /\ path[Len(path)] = link.pattern)

Allows(v, path, n, op) ==
  \E link \in v.perms[Level(path, n)] :
    Applies(link, path, n) /\ op \in (IF link.group \in v.groups THEN link.allow ELSE link.others_allow)

Denies(v, path, n, op) ==
  \E link \in v.perms[Level(path, n)] :
    Applies(link, path, n) /\ op \in (IF link.group \in v.groups THEN link.deny ELSE link.others_deny)

\* From the root down: a level adds what it allows, then removes what it denies.
check_direct_permission(v, path, slash, op) ==
  LET state[n \in -1 .. LastLevel(path, slash)] ==
        n >= 0 /\ ~Denies(v, path, n, op) /\ (Allows(v, path, n, op) \/ state[n - 1])
  IN  state[LastLevel(path, slash)]

\* As written and, failing that, as a directory.
check_path_permission(v, path, slash, op) ==
  check_direct_permission(v, path, slash, op) \/ (~slash /\ check_direct_permission(v, path, TRUE, op))

target_path(dir, link) == IF link.pattern = NoName THEN dir ELSE Append(dir, link.pattern)

\* The grants of the user that lie strictly below a path.
Below(v, path) == {g \in v.grants : g.group \in v.groups /\ path_is_strict_ancestor(path, g.target)}

\* As if a listing on the way showed targets and not the next names.
accessible_targets(v, path) == {file_name(g.target) : g \in Below(v, path)}

has_descendant_grants(v, path) == Below(v, path) # {}
accessible_child_names(v, path) == {g.target[Len(path) + 1] : g \in Below(v, path)}

check_permission(v, path, slash, op) ==
  check_direct_permission(v, path, slash, op) \/ (op \in {"r", "l"} /\ has_descendant_grants(v, path))

-----------------------------------------------------------------------------
(* permission_middleware and the flat listing, for a user *)

\* permission_middleware: admitted outright, or only to walk down to a grant.
Outright(v, path, slash, op) == check_path_permission(v, path, slash, op)
Admitted(v, path, slash, op) ==
  Outright(v, path, slash, op) \/ (op \in {"r", "l"} /\ has_descendant_grants(v, path))

\* handle_directory_listing of an admitted GET of path/, over the names present.
Listed(v, path, names) ==
  IF Outright(v, path, TRUE, "l") THEN names ELSE names \cap accessible_child_names(v, path)

\* attach_effective_permissions: what the listing says of a child.
ShownFlags(v, child, isDirectory) == {op \in Ops : check_permission(v, child, isDirectory, op)}

-----------------------------------------------------------------------------
(* The rules of an API key: globs "/p/**", "/p" and the last one, "**" *)

Tree(path, permitted) == [glob |-> "tree", path |-> path, permitted |-> permitted]
Exact(path, permitted) == [glob |-> "exact", path |-> path, permitted |-> permitted]
Rest == [glob |-> "rest", path |-> <<>>, permitted |-> {}]

glob_match(rule, path, slash) ==
  \/ rule.glob = "rest"
  \/ rule.glob = "tree" /\ (path_is_strict_ancestor(rule.path, path) \/ (path = rule.path /\ slash))
  \/ rule.glob = "exact" /\ path = rule.path /\ ~slash

\* The first match; create_share_link ends its rules with one that always matches.
match_rules(rules, path, slash) ==
  rules[CHOOSE i \in DOMAIN rules :
          glob_match(rules[i], path, slash) /\ \A j \in 1 .. i - 1 : ~glob_match(rules[j], path, slash)]

Scoped(rules) == {i \in DOMAIN rules : rules[i].glob # "rest"}

is_ancestor_of_any_rule(rules, path) == \E i \in Scoped(rules) : path_is_ancestor_or_equal(path, rules[i].path)

is_item_on_shared_path(rules, item) ==
  \E i \in Scoped(rules) : glob_match(rules[i], item, FALSE) \/ path_is_ancestor_or_equal(item, rules[i].path)

\* permission_middleware, for a share key.
KeyAdmitted(rules, path, slash, op) ==
  \/ op \in {"r", "l"} /\ is_ancestor_of_any_rule(rules, path)
  \/ op \in match_rules(rules, path, slash).permitted

\* filter_listing_by_key_rules: an explicit rule decides, else the way to a target is shown.
KeyListed(rules, item) ==
  LET rule == match_rules(rules, item, FALSE)
  IN  IF rule.glob # "rest" THEN "l" \in rule.permitted ELSE is_item_on_shared_path(rules, item)
=============================================================================
