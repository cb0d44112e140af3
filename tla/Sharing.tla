-------------------------------- MODULE Sharing --------------------------------
(***************************************************************************)
(* Permission files, groups and the caches in front of them.  The handlers *)
(* of share_routes.rs read a .aeordb-permissions file, write it back and   *)
(* evict; PUT, DELETE, merge-patch and rename of such a file write and     *)
(* evict; copy, undelete and fork promotion write and do not evict;        *)
(* snapshot restore evicts everything; admin_routes.rs changes users and   *)
(* groups without touching the group cache.  A request reads through the   *)
(* caches, loading what is missing in two steps.  PathAccess says what it  *)
(* may then do.                                                            *)
(***************************************************************************)
EXTENDS PathAccess, FiniteSets

CONSTANTS Users,        \* a user is also the name of its automatic group
          Groups, Tags, \* groups an administrator defines, over one tag of a user
          Tree0,        \* [paths -> "dir", "file" or "none"] at the start
          Allow,        \* the flag sets a share may give
          Contents,     \* the links a client may PUT as a whole file
          Tag0, Query0, \* users and groups at the start
          Jobs, Nothing,
          Mixes         \* which handlers a behaviour has, how many it begins and with whom and what it shares

Paths == DOMAIN Tree0
Dirs == {p \in Paths : Tree0[p] = "dir"}

PathNames == UNION {Range(p) : p \in Paths}
Holders == Users \cup Groups
Patterns == {NoName} \cup {file_name(p) : p \in Paths \ {<<>>}}
Links == [group : Holders, pattern : Patterns, allow : SUBSET Ops, deny : SUBSET Ops,
          others_allow : SUBSET Ops, others_deny : SUBSET Ops]
Grants == [group : Holders, target : {target_path(d, [pattern |-> n]) : d \in Dirs, n \in Patterns}, dir : Dirs,
           pattern : Patterns, allow : SUBSET Ops]

\* The running handlers, by what they have still to do, and the loads.
Sharers == [kind : {"share"}, at : {"next"}, todo : Seq(Paths) \ {<<>>}, group : Holders, allow : SUBSET Ops]
Writers == [kind : {"share"}, at : {"write", "evict"}, todo : Seq(Paths) \ {<<>>}, group : Holders,
            allow : SUBSET Ops, dir : Dirs, pattern : Patterns, read : SUBSET Links]
Unsharers == [kind : {"unshare"}, dir : Dirs, group : Holders, pattern : Patterns, read : SUBSET Links]
Evicters == [kind : {"evict"}, dirs : (SUBSET Dirs) \ {{}}]
AllEvicters == [kind : {"evictAll"}]
Handler == Sharers \cup Writers \cup Unsharers \cup Evicters \cup AllEvicters
Load == [kind : {"groups"}, of : Users, read : SUBSET Holders]
          \cup [kind : {"perms"}, of : Dirs, read : SUBSET Links]
          \cup [kind : {"grants"}, of : {Nothing}, read : SUBSET Grants]

ASSUME SharingAssumption ==
  /\ Users \cap Groups = {} /\ Jobs \subseteq Nat
  /\ Tree0 \in [Paths -> {"dir", "file", "none"}]
  /\ Paths \subseteq Seq(PathNames) /\ NoName \notin PathNames
  /\ <<>> \in Dirs /\ \A p \in Paths : p # <<>> => parent_path(p) \in Dirs
  /\ Tag0 \in [Users -> Tags] /\ Query0 \in [Groups -> Tags \cup {Nothing}]
  /\ Allow \subseteq SUBSET Ops /\ Contents \subseteq SUBSET Links
  /\ \A m \in Mixes : /\ m.handlers \in Nat /\ m.with \subseteq Holders
                      /\ m.lists \subseteq Seq(Paths) \ {<<>>}
  /\ Nothing \notin Handler

VARIABLES
  mix, begun,
  node,         \* [Paths -> "dir", "file" or "none"]
  perms,        \* [Dirs -> links of .aeordb-permissions, {} without one]
  deleted,      \* [Dirs -> links of the file last deleted there]
  saved,        \* the permission files of a snapshot, or Nothing
  tag,          \* [Users -> Tags]
  query,        \* [Groups -> the tag its members have, or Nothing]
  perm_cache,   \* [Dirs -> [links] or Nothing]
  group_cache,  \* [Users -> [groups] or Nothing]
  grant_cache,  \* [grants] or Nothing
  load,         \* a load that has read and not yet inserted
  job,          \* [Jobs -> a running handler, or Nothing]
  keyRules,     \* rules of the share links handed out
  promised,     \* shares answered and not since withdrawn
  blame

shVars == <<mix, begun, node, perms, deleted, saved, tag, query, perm_cache, group_cache, grant_cache,
            load, job, keyRules, promised, blame>>
files == <<perms, deleted, saved>>
people == <<tag, query>>
caching == <<perm_cache, group_cache, grant_cache, load>>

May(name) == name \in mix.actions
Begin == begun < mix.handlers /\ begun' = begun + 1
Free(j) == job[j] = Nothing /\ \A i \in Jobs : i < j => job[i] # Nothing

ShInit ==
  /\ mix \in Mixes /\ begun = 0
  /\ node = Tree0
  /\ perms = [d \in Dirs |-> {}] /\ deleted = [d \in Dirs |-> {}] /\ saved = Nothing
  /\ tag = Tag0 /\ query = Query0
  /\ perm_cache = [d \in Dirs |-> Nothing] /\ group_cache = [u \in Users |-> Nothing] /\ grant_cache = Nothing
  /\ load = Nothing
  /\ job = [j \in Jobs |-> Nothing]
  /\ keyRules = {} /\ promised = {} /\ blame = {}

-----------------------------------------------------------------------------
(* The loaders *)

\* GroupLoader: the groups whose query the user meets, its own among them.
GroupsOf(u) == {u} \cup {g \in Groups : query[g] = tag[u]}

\* GrantsIndexLoader: every link of every permission file.
AllGrants == UNION {{[group |-> l.group, target |-> target_path(d, l), dir |-> d, pattern |-> l.pattern, allow |-> l.allow] :
                        l \in perms[d]} : d \in Dirs}

View(u) == [groups |-> IF group_cache[u] # Nothing THEN group_cache[u].groups ELSE GroupsOf(u),
            perms |-> [p \in Paths |-> IF p \notin Dirs THEN {}
                                      ELSE IF perm_cache[p] # Nothing THEN perm_cache[p].links ELSE perms[p]],
            grants |-> IF grant_cache # Nothing THEN grant_cache.grants ELSE AllGrants]

\* A miss reads the store ...
load_begin ==
  /\ May("read") /\ Begin
  /\ load = Nothing
  /\ \/ \E u \in Users : group_cache[u] = Nothing /\ load' = [kind |-> "groups", of |-> u, read |-> GroupsOf(u)]
     \/ \E d \in Dirs : perm_cache[d] = Nothing /\ load' = [kind |-> "perms", of |-> d, read |-> perms[d]]
     \/ grant_cache = Nothing /\ load' = [kind |-> "grants", of |-> Nothing, read |-> AllGrants]
  /\ UNCHANGED <<mix, node, files, people, perm_cache, group_cache, grant_cache, job, keyRules, promised, blame>>

\* ... and inserts what it read.
load_end ==
  /\ load # Nothing
  /\ perm_cache' = IF load.kind = "perms" THEN [perm_cache EXCEPT ![load.of] = [links |-> load.read]] ELSE perm_cache
  /\ group_cache' = IF load.kind = "groups" THEN [group_cache EXCEPT ![load.of] = [groups |-> load.read]] ELSE group_cache
  /\ grant_cache' = IF load.kind = "grants" THEN [grants |-> load.read] ELSE grant_cache
  /\ load' = Nothing
  /\ UNCHANGED <<mix, begun, node, files, people, job, keyRules, promised, blame>>

-----------------------------------------------------------------------------
(* Writing permission files *)

\* A load under way has read something the write makes old.
LoadRaces(d) == load # Nothing /\ (load.kind = "grants" \/ (load.kind = "perms" /\ load.of = d))

Blamed(on, name) == IF on THEN blame \cup {name} ELSE blame

\* A new version of some files; what was shared there by an answered call is
\* now up to that writer.
Overwrite(ds, new) ==
  /\ perms' = new
  /\ promised' = {p \in promised : p.dir \notin ds}

\* As if only the directory's own entry were evicted.
EvictPermissions(ds) ==
  /\ perm_cache' = [d \in Dirs |-> IF d \in ds THEN Nothing ELSE perm_cache[d]]
  /\ UNCHANGED grant_cache

\* evict_caches_for_path of the permission file of each directory.
EvictFiles(ds) ==
  /\ perm_cache' = [d \in Dirs |-> IF d \in ds THEN Nothing ELSE perm_cache[d]]
  /\ grant_cache' = Nothing

\* POST /files/share: one path after the other.
share(j, paths, group, allow) ==
  /\ May("share") /\ Begin /\ Free(j)
  /\ job' = [job EXCEPT ![j] = [kind |-> "share", at |-> "next", todo |-> paths, group |-> group, allow |-> allow]]
  /\ UNCHANGED <<mix, node, files, people, caching, keyRules, promised, blame>>

\* Where the link for a path is kept: a file's in its parent, with its name.
PermDir(path) == IF node[path] = "file" THEN parent_path(path) ELSE path
Pattern(path) == IF node[path] = "file" THEN file_name(path) ELSE NoName

\* Look the path up and read the file; a path that is not there ends the
\* handler, and what it did for earlier paths stays.
share_read(j) ==
  /\ job[j] # Nothing /\ job[j].kind = "share" /\ job[j].at = "next"
  /\ LET p == Head(job[j].todo)
     IN  job' = IF node[p] = "none" THEN [job EXCEPT ![j] = Nothing]
                ELSE [job EXCEPT ![j] = [kind |-> "share", at |-> "write", todo |-> @.todo, group |-> @.group, allow |-> @.allow,
                                         dir |-> PermDir(p), pattern |-> Pattern(p), read |-> perms[PermDir(p)]]]
  /\ UNCHANGED <<mix, begun, node, files, people, caching, keyRules, promised, blame>>

\* As if the links of the group replaced the file.
UpsertAlone(links, group, pattern, allow) == {Link(group, pattern, allow, {})}

\* The link of the same group and pattern gets the new flags, or a link is added.
Upsert(links, group, pattern, allow) ==
  LET same == {l \in links : l.group = group /\ l.pattern = pattern}
  IN  IF same = {} THEN links \cup {Link(group, pattern, allow, {})}
      ELSE (links \ same) \cup {[l EXCEPT !.allow = allow] : l \in same}

share_write(j) ==
  /\ job[j] # Nothing /\ job[j].kind = "share" /\ job[j].at = "write"
  /\ perms' = [perms EXCEPT ![job[j].dir] = Upsert(job[j].read, job[j].group, job[j].pattern, job[j].allow)]
  /\ promised' = {p \in promised : <<p.dir, p.group, p.pattern>> # <<job[j].dir, job[j].group, job[j].pattern>>}
                   \cup {[dir |-> job[j].dir, group |-> job[j].group, pattern |-> job[j].pattern, allow |-> job[j].allow]}
  /\ blame' = Blamed(perms[job[j].dir] # job[j].read, "overlap")
  /\ job' = [job EXCEPT ![j].at = "evict"]
  /\ UNCHANGED <<mix, begun, node, deleted, saved, people, caching, keyRules>>

share_evict(j) ==
  /\ job[j] # Nothing /\ job[j].kind = "share" /\ job[j].at = "evict"
  /\ EvictFiles({job[j].dir})
  /\ blame' = Blamed(LoadRaces(job[j].dir), "load")
  /\ job' = [job EXCEPT ![j] = IF Len(@.todo) = 1 THEN Nothing
                               ELSE [kind |-> "share", at |-> "next", todo |-> Tail(@.todo), group |-> @.group, allow |-> @.allow]]
  /\ UNCHANGED <<mix, begun, node, files, people, group_cache, load, keyRules, promised>>

\* DELETE /files/shares: a group's link for a path or for one name in it.
unshare(j, path, group, pattern) ==
  /\ May("unshare") /\ Begin /\ Free(j)
  /\ PermDir(path) \in Dirs
  /\ \E l \in perms[PermDir(path)] : l.group = group /\ l.pattern = pattern
  /\ job' = [job EXCEPT ![j] = [kind |-> "unshare", dir |-> PermDir(path), group |-> group, pattern |-> pattern,
                                read |-> perms[PermDir(path)]]]
  /\ UNCHANGED <<mix, node, files, people, caching, keyRules, promised, blame>>

Evicting(ds) == [kind |-> "evict", dirs |-> ds]

unshare_write(j) ==
  /\ job[j] # Nothing /\ job[j].kind = "unshare"
  /\ perms' = [perms EXCEPT ![job[j].dir] = {l \in job[j].read : ~(l.group = job[j].group /\ l.pattern = job[j].pattern)}]
  /\ promised' = {p \in promised : <<p.dir, p.group, p.pattern>> # <<job[j].dir, job[j].group, job[j].pattern>>}
  /\ blame' = Blamed(perms[job[j].dir] # job[j].read, "overlap")
  /\ job' = [job EXCEPT ![j] = Evicting({job[j].dir})]
  /\ UNCHANGED <<mix, begun, node, deleted, saved, people, caching, keyRules>>

\* PUT, merge-patch or DELETE of a permission file, then the eviction.
put_permissions(j, d, links) ==
  /\ May("put") /\ Begin /\ Free(j)
  /\ Overwrite({d}, [perms EXCEPT ![d] = links])
  /\ job' = [job EXCEPT ![j] = Evicting({d})]
  /\ UNCHANGED <<mix, node, deleted, saved, people, caching, keyRules, blame>>

delete_permissions(j, d) ==
  /\ May("delete") /\ Begin /\ Free(j)
  /\ perms[d] # {}
  /\ Overwrite({d}, [perms EXCEPT ![d] = {}])
  /\ deleted' = [deleted EXCEPT ![d] = perms[d]]
  /\ job' = [job EXCEPT ![j] = Evicting({d})]
  /\ UNCHANGED <<mix, node, saved, people, caching, keyRules, blame>>

\* do_rename of a permission file evicts for both names.
rename_permissions(j, d, e) ==
  /\ May("rename") /\ Begin /\ Free(j)
  /\ d # e /\ perms[d] # {} /\ perms[e] = {}
  /\ Overwrite({d, e}, [perms EXCEPT ![d] = {}, ![e] = perms[d]])
  /\ job' = [job EXCEPT ![j] = Evicting({d, e})]
  /\ UNCHANGED <<mix, node, deleted, saved, people, caching, keyRules, blame>>

evict_end(j) ==
  /\ job[j] # Nothing /\ job[j].kind = "evict"
  /\ EvictFiles(job[j].dirs)
  /\ blame' = Blamed(\E d \in job[j].dirs : LoadRaces(d), "load")
  /\ job' = [job EXCEPT ![j] = Nothing]
  /\ UNCHANGED <<mix, begun, node, files, people, group_cache, load, keyRules, promised>>

\* copy_files and restore_deleted_file leave the caches alone.
copy_permissions(d, e) ==
  /\ May("copy") /\ Begin
  /\ d # e /\ perms[d] # {}
  /\ Overwrite({e}, [perms EXCEPT ![e] = perms[d]])
  /\ blame' = blame \cup {"unevicted"}
  /\ UNCHANGED <<mix, node, deleted, saved, people, caching, job, keyRules>>

restore_deleted(d) ==
  /\ May("copy") /\ Begin
  /\ perms[d] = {} /\ deleted[d] # {}
  /\ Overwrite({d}, [perms EXCEPT ![d] = deleted[d]])
  /\ blame' = blame \cup {"unevicted"}
  /\ UNCHANGED <<mix, node, deleted, saved, people, caching, job, keyRules>>

snapshot_create ==
  /\ May("snapshot") /\ Begin
  /\ saved' = perms
  /\ UNCHANGED <<mix, node, perms, deleted, people, caching, job, keyRules, promised, blame>>

\* snapshot_restore: every file goes back, then every cache is emptied.
snapshot_restore(j) ==
  /\ May("snapshot") /\ Begin /\ Free(j)
  /\ saved # Nothing
  /\ Overwrite(Dirs, saved)
  /\ job' = [job EXCEPT ![j] = [kind |-> "evictAll"]]
  /\ UNCHANGED <<mix, node, deleted, saved, people, caching, keyRules, blame>>

evict_all(j) ==
  /\ job[j] # Nothing /\ job[j].kind = "evictAll"
  /\ EvictFiles(Dirs) /\ group_cache' = [u \in Users |-> Nothing]
  /\ blame' = Blamed(load # Nothing, "load")
  /\ job' = [job EXCEPT ![j] = Nothing]
  /\ UNCHANGED <<mix, begun, node, files, people, load, keyRules, promised>>

-----------------------------------------------------------------------------
(* Users, groups, files and share links *)

GroupsRead == (\E u \in Users : group_cache[u] # Nothing) \/ (load # Nothing /\ load.kind = "groups")

\* update_user, create_group, update_group, delete_group.
update_user(u, t) ==
  /\ May("people") /\ Begin
  /\ tag' = [tag EXCEPT ![u] = t]
  /\ blame' = Blamed(GroupsRead, "groups")
  /\ UNCHANGED <<mix, node, files, query, caching, job, keyRules, promised>>

change_group(g, t) ==
  /\ May("people") /\ Begin
  /\ query[g] # t
  /\ query' = [query EXCEPT ![g] = t]
  /\ blame' = Blamed(GroupsRead, "groups")
  /\ UNCHANGED <<mix, node, files, tag, caching, job, keyRules, promised>>

\* A file that comes or goes under a share.
toggle_file(p) ==
  /\ May("files") /\ Begin
  /\ p \notin Dirs
  /\ node' = [node EXCEPT ![p] = IF @ = "none" THEN "file" ELSE "none"]
  /\ UNCHANGED <<mix, files, people, caching, job, keyRules, promised, blame>>

\* POST /files/share-link: a directory becomes a tree, anything else one file.
create_share_link(paths, allow) ==
  /\ May("link") /\ Begin
  /\ keyRules' = keyRules \cup {[i \in 1 .. Len(paths) |->
       IF node[paths[i]] = "dir" THEN Tree(paths[i], allow) ELSE Exact(paths[i], allow)] \o <<Rest>>}
  /\ UNCHANGED <<mix, node, files, people, caching, job, promised, blame>>

ShNext ==
  \/ load_begin \/ load_end
  \/ \E j \in Jobs, ps \in mix.lists, g \in mix.with, a \in Allow : share(j, ps, g, a)
  \/ \E j \in Jobs : share_read(j) \/ share_write(j) \/ share_evict(j) \/ unshare_write(j) \/ evict_end(j) \/ evict_all(j)
  \/ \E j \in Jobs, p \in Paths : \E l \in UNION {perms[d] : d \in Dirs} : unshare(j, p, l.group, l.pattern)
  \/ \E j \in Jobs, d \in Dirs, c \in Contents : put_permissions(j, d, c)
  \/ \E j \in Jobs, d \in Dirs : delete_permissions(j, d)
  \/ \E j \in Jobs, d, e \in Dirs : rename_permissions(j, d, e)
  \/ \E d, e \in Dirs : copy_permissions(d, e)
  \/ \E d \in Dirs : restore_deleted(d)
  \/ snapshot_create
  \/ \E j \in Jobs : snapshot_restore(j)
  \/ \E u \in Users, t \in Tags : update_user(u, t)
  \/ \E g \in Groups, t \in Tags \cup {Nothing} : change_group(g, t)
  \/ \E p \in Paths : toggle_file(p)
  \/ \E ps \in mix.lists, a \in Allow : create_share_link(ps, a)

ShSpec == ShInit /\ [][ShNext]_shVars

-----------------------------------------------------------------------------
(* What is answered about shares *)

Shown(dir, pattern, allow) == [path |-> dir, path_pattern |-> pattern, permissions |-> allow]

\* GET /files/shares: the links of a directory; those that name a file or the
\* whole directory it is in.
list_shares(path) ==
  {l \in perms[PermDir(path)] : node[path] = "file" => l.pattern \in {file_name(path), NoName}}

\* GET /files/shared-with-me: every grant of every group of the user.
shared_with_me(u) ==
  {Shown(g.dir, g.pattern, g.allow) : g \in {h \in View(u).grants : h.group \in View(u).groups}}

-----------------------------------------------------------------------------
Names(d) == {file_name(p) : p \in {q \in Paths \ {<<>>} : parent_path(q) = d /\ node[q] # "none"}}
Quiet == load = Nothing /\ \A j \in Jobs : job[j] = Nothing

ShTypeOK ==
  /\ mix \in Mixes /\ begun \in 0 .. mix.handlers
  /\ node \in [Paths -> {"dir", "file", "none"}]
  /\ \A p \in Paths : node[p] = "dir" <=> p \in Dirs
  /\ perms \in [Dirs -> SUBSET Links] /\ deleted \in [Dirs -> SUBSET Links]
  /\ saved \in [Dirs -> SUBSET Links] \cup {Nothing}
  /\ tag \in [Users -> Tags] /\ query \in [Groups -> Tags \cup {Nothing}]
  /\ perm_cache \in [Dirs -> [links : SUBSET Links] \cup {Nothing}]
  /\ group_cache \in [Users -> [groups : SUBSET Holders] \cup {Nothing}]
  /\ grant_cache \in [grants : SUBSET Grants] \cup {Nothing}
  /\ load \in Load \cup {Nothing}
  /\ job \in [Jobs -> Handler \cup {Nothing}]
  /\ promised \subseteq [dir : Dirs, group : Holders, pattern : Patterns, allow : SUBSET Ops]
  /\ blame \subseteq {"overlap", "load", "unevicted", "groups"}

\* When no handler and no load is under way, the caches hold what the store
\* holds (evict_caches_for_path, snapshot_restore), except after a load that
\* was running during the eviction, after a copy or an undelete, and after a
\* change of users or groups.
CachesAgree ==
  Quiet /\ blame \cap {"load", "unevicted", "groups"} = {} =>
    /\ \A d \in Dirs : perm_cache[d] # Nothing => perm_cache[d].links = perms[d]
    /\ grant_cache # Nothing => grant_cache.grants = AllGrants
    /\ \A u \in Users : group_cache[u] # Nothing => group_cache[u].groups = GroupsOf(u)

\* Each share answered is shown with its flags to each member of its group
\* (shared_with_me, from the grants index and the group cache) and, while the
\* path is there, to whoever asks for the shares of the path itself
\* (list_shares, from the file).
SharesShown ==
  \A p \in promised :
    /\ \A u \in Users : p.group \in GroupsOf(u) => Shown(p.dir, p.pattern, p.allow) \in shared_with_me(u)
    /\ target_path(p.dir, p) \in Paths /\ node[target_path(p.dir, p)] # "none" =>
         \E l \in list_shares(target_path(p.dir, p)) :
           l.group = p.group /\ l.pattern = p.pattern /\ l.allow = p.allow

\* A user may do at t what is allowed, but for what a level of the path denies.
MayDo(u, t, allow) ==
  \A op \in allow : (\A n \in 0 .. Len(t) : ~Denies(View(u), t, n, op)) => Admitted(View(u), t, FALSE, op)

\* Once POST /files/share has dealt with a path, and as long as nobody
\* unshares or overwrites it: the share is shown, and a member of the group may
\* do there what it allows (check_path_permission).  And whatever a member is
\* shown they are admitted to.  Not if two handlers wrote one file from the
\* same reading, or the caches are behind (CachesAgree).
SharesKept ==
  Quiet /\ blame = {} =>
    /\ SharesShown
    /\ \A p \in promised, u \in Users : p.group \in GroupsOf(u) => MayDo(u, target_path(p.dir, p), p.allow)
    /\ \A u \in Users : \A e \in shared_with_me(u) :
         LET t == target_path(e.path, [pattern |-> e.path_pattern])
         IN  t \in Paths => MayDo(u, t, e.permissions)

\* Every flag a listing shows for a child is one the middleware grants when the
\* child is asked for, with or without its trailing slash
\* (attach_effective_permissions, permission_middleware), however stale the
\* caches that both of them read are.
ShownAdmitted ==
  \A u \in Users, d \in Dirs :
    \A name \in Listed(View(u), d, Names(d)) :
      LET child == Append(d, name)
      IN  \A op \in ShownFlags(View(u), child, node[child] = "dir") : Admitted(View(u), child, FALSE, op)

\* A user can walk from the root to everything a link of one of their groups
\* names: each directory on the way can be listed and shows the next name
\* (has_descendant_grants, accessible_child_names), even below a directory
\* that denies listing.
Navigable ==
  Quiet /\ blame \cap {"load", "unevicted", "groups"} = {} =>
    \A u \in Users, d \in Dirs : \A l \in {k \in perms[d] : k.group \in GroupsOf(u)} :
      LET t == target_path(d, l)
      IN  t \in Paths /\ node[t] # "none" =>
            \A n \in 0 .. Len(t) - 1 :
              Admitted(View(u), Level(t, n), TRUE, "l") /\ t[n + 1] \in Listed(View(u), Level(t, n), Names(Level(t, n)))

Covers(rule, p) == rule.path = p \/ (rule.glob = "tree" /\ path_is_ancestor_or_equal(rule.path, p))

\* A share link that allows listing leads from the root to everything it covers
\* and allows there what it says; whatever else it admits is reading or listing
\* on the way there (create_share_link, is_ancestor_of_any_rule,
\* filter_listing_by_key_rules).
ShareLinkScope ==
  \A rules \in keyRules :
    /\ \A p \in Paths, op \in Ops : KeyAdmitted(rules, p, FALSE, op) =>
         \E i \in Scoped(rules) : \/ Covers(rules[i], p) /\ op \in rules[i].permitted
                                  \/ path_is_ancestor_or_equal(p, rules[i].path) /\ op \in {"r", "l"}
    /\ \A i \in Scoped(rules), p \in {q \in Paths : node[q] # "none"} :
         Covers(rules[i], p) /\ "l" \in rules[i].permitted =>
           \A n \in 0 .. Len(p) - 1 : KeyAdmitted(rules, Level(p, n), TRUE, "l") /\ KeyListed(rules, Level(p, n + 1))

\* What listings show and what requests are admitted to agree, for users and for
\* share links: no listing shows what the middleware would refuse, and every
\* target can be walked to from the root.
ListingsAgree == ShownAdmitted /\ Navigable /\ ShareLinkScope
=============================================================================
