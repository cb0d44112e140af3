----------------------------- MODULE SharingProofs -----------------------------
(***************************************************************************)
(* What the handlers of Sharing.tla guarantee for any tree, any users and  *)
(* groups and any number of overlapping handlers: the state stays of its   *)
(* type, and when nothing is under way the caches agree with the store.    *)
(***************************************************************************)
EXTENDS Sharing, TLAPS

-----------------------------------------------------------------------------
(* Types *)

\* share_read and unshare: the link for a path that is there is kept in a
\* directory, under a name of the tree.
LEMMA PermDirTyped ==
  ASSUME ShTypeOK, NEW p \in Paths, node[p] # "none"
  PROVE  PermDir(p) \in Dirs /\ Pattern(p) \in Patterns
<1>1. CASE node[p] = "file"
  <2>1. p # <<>>
    BY <1>1, SharingAssumption DEF ShTypeOK
  <2> QED
    BY <1>1, <2>1, SharingAssumption DEF PermDir, Pattern, Patterns
<1>2. CASE node[p] # "file"
  BY <1>2 DEF ShTypeOK, PermDir, Pattern, Patterns
<1> QED
  BY Zenon, <1>1, <1>2

\* Upsert (share_paths): what is written is a set of links again.
LEMMA UpsertTyped ==
  ASSUME NEW links \in SUBSET Links, NEW g \in Holders, NEW n \in Patterns, NEW a \in SUBSET Ops
  PROVE  Upsert(links, g, n, a) \in SUBSET Links
<1>1. Link(g, n, a, {}) \in Links
  BY DEF Link, Links
<1>2. \A l \in Links : [l EXCEPT !.allow = a] \in Links
  BY Zenon DEF Links
<1> QED
  BY <1>1, <1>2 DEF Upsert

\* GrantsIndexLoader: every link gives a grant.
LEMMA GrantsTyped ==
  ASSUME ShTypeOK
  PROVE  AllGrants \in SUBSET Grants
<1> SUFFICES ASSUME NEW d \in Dirs, NEW l \in perms[d]
             PROVE  [group |-> l.group, target |-> target_path(d, l), dir |-> d,
                     pattern |-> l.pattern, allow |-> l.allow] \in Grants
  BY DEF AllGrants
<1>1. l \in Links
  BY Zenon DEF ShTypeOK
<1>2. target_path(d, l) = target_path(d, [pattern |-> l.pattern])
  BY Zenon DEF target_path
<1> QED
  BY <1>1, <1>2 DEF Links, Grants

\* GroupLoader: the groups of a user are holders.
LEMMA GroupsTyped ==
  ASSUME NEW u \in Users
  PROVE  GroupsOf(u) \in SUBSET Holders
BY DEF GroupsOf, Holders

\* What is left of a list of paths that is not yet through.
LEMMA TailTyped ==
  ASSUME NEW S, NEW s \in Seq(S) \ {<<>>}, Len(s) # 1
  PROVE  Tail(s) \in Seq(S) \ {<<>>}
<1>1. Len(s) \in Nat /\ Len(s) # 0
  OBVIOUS
<1>2. Tail(s) \in Seq(S) /\ Len(Tail(s)) = Len(s) - 1
  OBVIOUS
<1>3. Len(Tail(s)) # 0
  BY <1>1, <1>2
<1> QED
  BY <1>2, <1>3

\* An eviction of one or two directories.
LEMMA EvictingTyped ==
  ASSUME NEW d \in Dirs, NEW e \in Dirs
  PROVE  Evicting({d}) \in Handler /\ Evicting({d, e}) \in Handler
<1>1. {d} \in SUBSET Dirs /\ {d, e} \in SUBSET Dirs
  OBVIOUS
<1>2. d \in {d} /\ d \in {d, e}
  OBVIOUS
<1>3. {d} # {} /\ {d, e} # {}
  BY <1>2
<1>4. ASSUME NEW ds \in SUBSET Dirs, ds # {}
      PROVE  Evicting(ds) \in Handler
  BY <1>4 DEF Evicting, Handler, Evicters
<1>5. Evicting({d}) \in Handler
  BY <1>1, <1>3, <1>4
<1>6. Evicting({d, e}) \in Handler
  BY <1>1, <1>3, <1>4
<1> QED
  BY <1>5, <1>6

\* A handler begun is counted within its mix.
LEMMA BeginTyped ==
  ASSUME ShTypeOK, Begin, mix' = mix
  PROVE  mix' \in Mixes /\ begun' \in 0 .. mix'.handlers
BY SharingAssumption DEF ShTypeOK, Begin

\* Every handler keeps every variable in its set.
LEMMA TypedNext ==
  ASSUME ShTypeOK, [ShNext]_shVars
  PROVE  ShTypeOK'
<1> USE DEF files, people, caching
<1>1. CASE UNCHANGED shVars
  BY Zenon, <1>1 DEF shVars, ShTypeOK, PermDir
<1>2. CASE load_begin
  <2>1. load' \in Load
    BY <1>2, GrantsTyped, GroupsTyped DEF load_begin, Load, ShTypeOK
  <2> QED
    BY Zenon, <1>2, <2>1, BeginTyped DEF load_begin, ShTypeOK
<1>3. CASE load_end
  <2>1. load \in Load
    BY Zenon, <1>3 DEF load_end, ShTypeOK
  <2>2. load.kind = "perms" => load.of \in Dirs /\ load.read \in SUBSET Links
    BY <2>1 DEF Load
  <2>3. load.kind = "groups" => load.of \in Users /\ load.read \in SUBSET Holders
    BY <2>1 DEF Load
  <2>4. load.kind = "grants" => load.read \in SUBSET Grants
    BY <2>1 DEF Load
  <2>5. perm_cache' \in [Dirs -> [links : SUBSET Links] \cup {Nothing}]
    BY Zenon, <1>3, <2>2 DEF load_end, ShTypeOK
  <2>6. group_cache' \in [Users -> [groups : SUBSET Holders] \cup {Nothing}]
    BY Zenon, <1>3, <2>3 DEF load_end, ShTypeOK
  <2>7. grant_cache' \in [grants : SUBSET Grants] \cup {Nothing}
    BY Zenon, <1>3, <2>4 DEF load_end, ShTypeOK
  <2> QED
    BY Zenon, <1>3, <2>5, <2>6, <2>7 DEF load_end, ShTypeOK
<1>4. ASSUME NEW j \in Jobs, NEW ps \in mix.lists, NEW g \in mix.with, NEW a \in Allow, share(j, ps, g, a)
      PROVE  ShTypeOK'
  <2>1. ps \in Seq(Paths) \ {<<>>} /\ g \in Holders /\ a \in SUBSET Ops
    BY Zenon, SharingAssumption DEF ShTypeOK
  <2>2. [kind |-> "share", at |-> "next", todo |-> ps, group |-> g, allow |-> a] \in Handler
    BY Zenon, <2>1 DEF Handler, Sharers
  <2> QED
    BY Zenon, <1>4, <2>2, BeginTyped DEF share, ShTypeOK
<1>5. ASSUME NEW j \in Jobs, share_read(j)
      PROVE  ShTypeOK'
  <2>1. job[j] \in Sharers
    BY Zenon, <1>5 DEF share_read, ShTypeOK, Handler, Sharers, Writers, Unsharers, Evicters, AllEvicters
  <2>2. Head(job[j].todo) \in Paths
    BY <2>1 DEF Sharers
  <2> DEFINE p == Head(job[j].todo)
  <2>3. node[p] # "none" =>
          [kind |-> "share", at |-> "write", todo |-> job[j].todo, group |-> job[j].group, allow |-> job[j].allow,
           dir |-> PermDir(p), pattern |-> Pattern(p), read |-> perms[PermDir(p)]] \in Handler
    <3> SUFFICES ASSUME node[p] # "none"
                 PROVE  [kind |-> "share", at |-> "write", todo |-> job[j].todo, group |-> job[j].group,
                         allow |-> job[j].allow, dir |-> PermDir(p), pattern |-> Pattern(p),
                         read |-> perms[PermDir(p)]] \in Handler
      BY Zenon
    <3>1. PermDir(p) \in Dirs /\ Pattern(p) \in Patterns
      BY Zenon, <2>2, PermDirTyped
    <3>2. perms[PermDir(p)] \in SUBSET Links
      BY Zenon, <3>1 DEF ShTypeOK
    <3> HIDE DEF p
    <3> QED
      BY Zenon, <2>1, <3>1, <3>2 DEF Handler, Sharers, Writers
  <2>4. job' \in [Jobs -> Handler \cup {Nothing}]
    BY Zenon, <1>5, <2>3 DEF share_read, ShTypeOK
  <2> QED
    BY Zenon, <1>5, <2>4 DEF share_read, ShTypeOK
<1>6. ASSUME NEW j \in Jobs, share_write(j)
      PROVE  ShTypeOK'
  <2>1. job[j] \in Writers
    BY Zenon, <1>6 DEF share_write, ShTypeOK, Handler, Sharers, Writers, Unsharers, Evicters, AllEvicters
  <2>2. Upsert(job[j].read, job[j].group, job[j].pattern, job[j].allow) \in SUBSET Links
    BY <2>1, UpsertTyped DEF Writers
  <2>3. perms' \in [Dirs -> SUBSET Links]
    BY Zenon, <1>6, <2>1, <2>2 DEF share_write, ShTypeOK
  <2>4. [job[j] EXCEPT !.at = "evict"] \in Writers
    BY Zenon, <2>1 DEF Writers
  <2>5. job' \in [Jobs -> Handler \cup {Nothing}]
    BY Zenon, <1>6, <2>4 DEF share_write, ShTypeOK, Handler
  <2>6. promised' \subseteq [dir : Dirs, group : Holders, pattern : Patterns, allow : SUBSET Ops]
    <3>1. promised' \subseteq promised \cup {[dir |-> job[j].dir, group |-> job[j].group, pattern |-> job[j].pattern,
                                            allow |-> job[j].allow]}
      BY Zenon, <1>6 DEF share_write
    <3>2. [dir |-> job[j].dir, group |-> job[j].group, pattern |-> job[j].pattern, allow |-> job[j].allow]
            \in [dir : Dirs, group : Holders, pattern : Patterns, allow : SUBSET Ops]
      BY Zenon, <2>1 DEF Writers
    <3> QED
      BY Zenon, <3>1, <3>2 DEF ShTypeOK
  <2> QED
    BY Zenon, <1>6, <2>3, <2>5, <2>6 DEF share_write, ShTypeOK, Blamed
<1>7. ASSUME NEW j \in Jobs, share_evict(j)
      PROVE  ShTypeOK'
  <2>1. job[j] \in Writers
    BY Zenon, <1>7 DEF share_evict, ShTypeOK, Handler, Sharers, Writers, Unsharers, Evicters, AllEvicters
  <2>2. Len(job[j].todo) # 1 => Tail(job[j].todo) \in Seq(Paths) \ {<<>>}
    BY Zenon, <2>1, TailTyped DEF Writers
  <2>3. Len(job[j].todo) # 1 =>
          [kind |-> "share", at |-> "next", todo |-> Tail(job[j].todo), group |-> job[j].group,
           allow |-> job[j].allow] \in Handler
    BY Zenon, <2>1, <2>2 DEF Writers, Sharers, Handler
  <2>4. job' \in [Jobs -> Handler \cup {Nothing}]
    BY Zenon, <1>7, <2>3 DEF share_evict, ShTypeOK
  <2> QED
    BY Zenon, <1>7, <2>4 DEF share_evict, ShTypeOK, EvictFiles, Blamed
<1>8. ASSUME NEW j \in Jobs, unshare_write(j)
      PROVE  ShTypeOK'
  <2>1. job[j] \in Unsharers
    BY Zenon, <1>8 DEF unshare_write, ShTypeOK, Handler, Sharers, Writers, Unsharers, Evicters, AllEvicters
  <2>2. perms' \in [Dirs -> SUBSET Links]
    BY Zenon, <1>8, <2>1 DEF unshare_write, ShTypeOK, Unsharers
  <2>3. Evicting({job[j].dir}) \in Handler
    BY <2>1, EvictingTyped DEF Unsharers
  <2> QED
    BY Zenon, <1>8, <2>2, <2>3 DEF unshare_write, ShTypeOK, Blamed
<1>9. ASSUME NEW j \in Jobs, evict_end(j)
      PROVE  ShTypeOK'
  BY Zenon, <1>9 DEF evict_end, EvictFiles, ShTypeOK, Blamed
<1>10. ASSUME NEW j \in Jobs, evict_all(j)
       PROVE  ShTypeOK'
  BY Zenon, <1>10 DEF evict_all, EvictFiles, ShTypeOK, Blamed
<1>11. ASSUME NEW j \in Jobs, NEW p \in Paths, NEW d \in Dirs, NEW l \in perms[d], unshare(j, p, l.group, l.pattern)
       PROVE  ShTypeOK'
  <2>1. l \in Links
    BY Zenon DEF ShTypeOK
  <2>2. PermDir(p) \in Dirs /\ perms[PermDir(p)] \in SUBSET Links
    BY Zenon, <1>11 DEF unshare, ShTypeOK
  <2>3. [kind |-> "unshare", dir |-> PermDir(p), group |-> l.group, pattern |-> l.pattern,
         read |-> perms[PermDir(p)]] \in Handler
    BY Zenon, <2>1, <2>2 DEF Links, Handler, Unsharers
  <2> QED
    BY Zenon, <1>11, <2>3, BeginTyped DEF unshare, ShTypeOK
<1>12. ASSUME NEW j \in Jobs, NEW d \in Dirs, NEW c \in Contents, put_permissions(j, d, c)
       PROVE  ShTypeOK'
  <2>1. perms' \in [Dirs -> SUBSET Links]
    BY Zenon, <1>12, SharingAssumption DEF put_permissions, Overwrite, ShTypeOK
  <2>2. promised' \subseteq promised
    BY <1>12 DEF put_permissions, Overwrite
  <2> QED
    BY Zenon, <1>12, <2>1, <2>2, EvictingTyped, BeginTyped DEF put_permissions, ShTypeOK
<1>13. ASSUME NEW j \in Jobs, NEW d \in Dirs, delete_permissions(j, d)
       PROVE  ShTypeOK'
  <2>1. perms' \in [Dirs -> SUBSET Links] /\ deleted' \in [Dirs -> SUBSET Links]
    BY Zenon, <1>13 DEF delete_permissions, Overwrite, ShTypeOK
  <2>2. promised' \subseteq promised
    BY <1>13 DEF delete_permissions, Overwrite
  <2> QED
    BY Zenon, <1>13, <2>1, <2>2, EvictingTyped, BeginTyped DEF delete_permissions, ShTypeOK
<1>14. ASSUME NEW j \in Jobs, NEW d \in Dirs, NEW e \in Dirs, rename_permissions(j, d, e)
       PROVE  ShTypeOK'
  <2>1. perms' \in [Dirs -> SUBSET Links]
    BY Zenon, <1>14 DEF rename_permissions, Overwrite, ShTypeOK
  <2>2. promised' \subseteq promised
    BY Zenon, <1>14 DEF rename_permissions, Overwrite
  <2> QED
    BY Zenon, <1>14, <2>1, <2>2, EvictingTyped, BeginTyped DEF rename_permissions, ShTypeOK
<1>15. ASSUME NEW d \in Dirs, NEW e \in Dirs, copy_permissions(d, e)
       PROVE  ShTypeOK'
  BY Zenon, <1>15, BeginTyped DEF copy_permissions, Overwrite, ShTypeOK
<1>16. ASSUME NEW d \in Dirs, restore_deleted(d)
       PROVE  ShTypeOK'
  BY Zenon, <1>16, BeginTyped DEF restore_deleted, Overwrite, ShTypeOK
<1>17. CASE snapshot_create
  BY Zenon, <1>17, BeginTyped DEF snapshot_create, ShTypeOK
<1>18. ASSUME NEW j \in Jobs, snapshot_restore(j)
       PROVE  ShTypeOK'
  <2>1. [kind |-> "evictAll"] \in Handler
    BY DEF Handler, AllEvicters
  <2> QED
    BY Zenon, <1>18, <2>1, BeginTyped DEF snapshot_restore, Overwrite, ShTypeOK
<1>19. ASSUME NEW u \in Users, NEW t \in Tags, update_user(u, t)
       PROVE  ShTypeOK'
  BY Zenon, <1>19, BeginTyped DEF update_user, ShTypeOK, Blamed
<1>20. ASSUME NEW g \in Groups, NEW t \in Tags \cup {Nothing}, change_group(g, t)
       PROVE  ShTypeOK'
  BY Zenon, <1>20, BeginTyped DEF change_group, ShTypeOK, Blamed
<1>21. ASSUME NEW p \in Paths, toggle_file(p)
       PROVE  ShTypeOK'
  <2>1. node' \in [Paths -> {"dir", "file", "none"}] /\ \A q \in Paths : node'[q] = "dir" <=> q \in Dirs
    BY Zenon, <1>21 DEF toggle_file, ShTypeOK
  <2> QED
    BY Zenon, <1>21, <2>1, BeginTyped DEF toggle_file, ShTypeOK
<1>22. ASSUME NEW ps \in mix.lists, NEW a \in Allow, create_share_link(ps, a)
       PROVE  ShTypeOK'
  BY Zenon, <1>22, BeginTyped DEF create_share_link, ShTypeOK
<1> QED
  BY Zenon, <1>1, <1>2, <1>3, <1>4, <1>5, <1>6, <1>7, <1>8, <1>9, <1>10, <1>11, <1>12, <1>13, <1>14, <1>15, <1>16,
     <1>17, <1>18, <1>19, <1>20, <1>21, <1>22 DEF ShNext

LEMMA TypedInit ==
  ShInit => ShTypeOK
<1> SUFFICES ASSUME ShInit PROVE ShTypeOK
  OBVIOUS
<1>1. mix \in Mixes /\ begun \in 0 .. mix.handlers
  BY SharingAssumption DEF ShInit
<1>2. node \in [Paths -> {"dir", "file", "none"}] /\ \A p \in Paths : node[p] = "dir" <=> p \in Dirs
  BY Zenon, SharingAssumption DEF ShInit, Dirs
<1>3. tag \in [Users -> Tags] /\ query \in [Groups -> Tags \cup {Nothing}]
  BY Zenon, SharingAssumption DEF ShInit
<1> QED
  BY Zenon, <1>1, <1>2, <1>3 DEF ShInit, ShTypeOK

\* Whatever the handlers do, permission files hold links of known holders and
\* names, caches what the loaders can read, and handlers what they can hold.
THEOREM SharingTyped ==
  ShSpec => []ShTypeOK
BY TypedInit, TypedNext, PTL DEF ShSpec

-----------------------------------------------------------------------------
(* The caches.  An entry, or a load under way, that is behind the store is *)
(* one that a handler still has to evict.                                  *)

\* A handler that has written the permission file of d and has yet to evict it.
Evicts(j, d) ==
  /\ job[j] # Nothing
  /\ \/ job[j].kind = "share" /\ job[j].at = "evict" /\ job[j].dir = d
     \/ job[j].kind = "evict" /\ d \in job[j].dirs
     \/ job[j].kind = "evictAll"

ToEvict(d) == \E j \in Jobs : Evicts(j, d)
Unblamed == blame \cap {"load", "unevicted", "groups"} = {}

PermsFresh ==
  \A d \in Dirs :
    /\ perm_cache[d] # Nothing => perm_cache[d].links = perms[d] \/ ToEvict(d)
    /\ load # Nothing /\ load.kind = "perms" /\ load.of = d => load.read = perms[d] \/ ToEvict(d)

GrantsFresh ==
  /\ grant_cache # Nothing => grant_cache.grants = AllGrants \/ \E d \in Dirs : ToEvict(d)
  /\ load # Nothing /\ load.kind = "grants" => load.read = AllGrants \/ \E d \in Dirs : ToEvict(d)

GroupsFresh ==
  /\ \A u \in Users : group_cache[u] # Nothing => group_cache[u].groups = GroupsOf(u)
  /\ load # Nothing /\ load.kind = "groups" => load.read = GroupsOf(load.of)

CachesFresh == Unblamed => PermsFresh /\ GrantsFresh /\ GroupsFresh

\* Evictions still to be made by the others stay to be made.
LEMMA OthersEvict ==
  ASSUME NEW j \in Jobs, NEW d \in Dirs, \A i \in Jobs : i # j => job'[i] = job[i], ToEvict(d), ~Evicts(j, d)
  PROVE  ToEvict(d)'
<1>1. PICK i \in Jobs : Evicts(i, d)
  BY DEF ToEvict
<1>2. Evicts(i, d)'
  BY Zenon, <1>1 DEF Evicts
<1> QED
  BY Zenon, <1>2 DEF ToEvict

\* The grants are those of the permission files, the groups those of the tags.
LEMMA SameGrants ==
  ASSUME \A d \in Dirs : perms'[d] = perms[d]
  PROVE  AllGrants' = AllGrants
BY DEF AllGrants

LEMMA SameGroups ==
  ASSUME UNCHANGED people, NEW u \in Users
  PROVE  GroupsOf(u)' = GroupsOf(u)
BY DEF GroupsOf, people

\* A step that leaves the caches alone, and leaves an eviction to be made
\* wherever it changes a permission file.
LEMMA WritesKeepFresh ==
  ASSUME ShTypeOK, PermsFresh, GrantsFresh, GroupsFresh, UNCHANGED <<caching, people>>,
         \A d \in Dirs : ToEvict(d) => ToEvict(d)',
         \A d \in Dirs : perms'[d] = perms[d] \/ ToEvict(d)'
  PROVE  PermsFresh' /\ GrantsFresh' /\ GroupsFresh'
<1>1. PermsFresh'
  BY Zenon DEF PermsFresh, caching
<1>2. AllGrants' = AllGrants \/ \E d \in Dirs : ToEvict(d)'
  BY Zenon, SameGrants
<1>3. GrantsFresh'
  BY Zenon, <1>2 DEF GrantsFresh, caching
<1>4. load # Nothing /\ load.kind = "groups" => load.of \in Users
  BY Zenon DEF ShTypeOK, Load
<1>5. GroupsFresh'
  BY Zenon, <1>4, SameGroups DEF GroupsFresh, caching
<1> QED
  BY <1>1, <1>3, <1>5

\* A step that evicts some directories, all that it had to evict, while no load
\* that it makes old is under way.
LEMMA EvictionsKeepFresh ==
  ASSUME ShTypeOK, PermsFresh, GrantsFresh, GroupsFresh, UNCHANGED <<perms, load, people>>,
         NEW ds \in (SUBSET Dirs) \ {{}}, EvictFiles(ds),
         group_cache' = group_cache \/ group_cache' = [u \in Users |-> Nothing],
         \A d \in Dirs \ ds : ToEvict(d) => ToEvict(d)',
         \A d \in ds : ~LoadRaces(d)
  PROVE  PermsFresh' /\ GrantsFresh' /\ GroupsFresh'
<1>1. PermsFresh'
  BY Zenon DEF PermsFresh, EvictFiles, LoadRaces
<1>2. GrantsFresh'
  <2>1. PICK d \in ds : TRUE
    OBVIOUS
  <2>2. ~LoadRaces(d)
    BY <2>1
  <2> QED
    BY Zenon, <2>2 DEF GrantsFresh, EvictFiles, LoadRaces
<1>3. load # Nothing /\ load.kind = "groups" => load.of \in Users
  BY Zenon DEF ShTypeOK, Load
<1>4. GroupsFresh'
  BY <1>3, SameGroups DEF GroupsFresh
<1> QED
  BY Zenon, <1>1, <1>2, <1>4

\* A load reads what the store holds, and inserts it while it still does, or
\* while an eviction is still to come.
LEMMA LoadsKeepFresh ==
  ASSUME ShTypeOK, PermsFresh, GrantsFresh, GroupsFresh, load_begin \/ load_end
  PROVE  PermsFresh' /\ GrantsFresh' /\ GroupsFresh'
<1>1. UNCHANGED <<perms, people, job>>
  BY Zenon DEF load_begin, load_end, files, people
<1>2. \A d \in Dirs : ToEvict(d)' <=> ToEvict(d)
  BY <1>1 DEF ToEvict, Evicts
<1>3. AllGrants' = AllGrants /\ \A u \in Users : GroupsOf(u)' = GroupsOf(u)
  BY <1>1, SameGrants, SameGroups
<1>4. CASE load_begin
  <2>1. PermsFresh'
    BY SMTT(60), <1>1, <1>2, <1>4 DEF PermsFresh, load_begin
  <2>2. GrantsFresh'
    BY <1>2, <1>3, <1>4 DEF GrantsFresh, load_begin
  <2>3. GroupsFresh'
    BY <1>3, <1>4 DEF GroupsFresh, load_begin
  <2> QED
    BY <2>1, <2>2, <2>3
<1>5. CASE load_end
  <2>1. load \in Load
    BY Zenon, <1>5 DEF load_end, ShTypeOK
  <2>2. load.kind = "perms" => load.of \in Dirs
    BY <2>1 DEF Load
  <2>3. load.kind = "groups" => load.of \in Users
    BY <2>1 DEF Load
  <2>4. PermsFresh'
    BY Zenon, <1>1, <1>2, <1>5, <2>2 DEF PermsFresh, load_end, ShTypeOK
  <2>5. GrantsFresh'
    BY Zenon, <1>2, <1>3, <1>5 DEF GrantsFresh, load_end
  <2>6. DOMAIN group_cache = Users /\ group_cache = [u \in Users |-> group_cache[u]]
    BY Zenon DEF ShTypeOK
  <2>7. GroupsFresh'
    BY Zenon, <1>3, <1>5, <2>3, <2>6 DEF GroupsFresh, load_end
  <2> QED
    BY <2>4, <2>5, <2>7
<1> QED
  BY <1>4, <1>5

\* blame only grows, so a step that ends unblamed began so.
LEMMA BlameGrows ==
  ASSUME [ShNext]_shVars, Unblamed'
  PROVE  Unblamed
<1>1. blame \subseteq blame'
  BY Zenon DEF ShNext, shVars, load_begin, load_end, share, share_read, share_write, share_evict, unshare, unshare_write,
         evict_end, evict_all, put_permissions, delete_permissions, rename_permissions, copy_permissions,
         restore_deleted, snapshot_create, snapshot_restore, update_user, change_group, toggle_file,
         create_share_link, Blamed
<1> QED
  BY <1>1 DEF Unblamed

\* Every handler keeps the caches fresh, unless it is blamed.
LEMMA FreshNext ==
  ASSUME ShTypeOK, CachesFresh, [ShNext]_shVars
  PROVE  CachesFresh'
<1> SUFFICES ASSUME Unblamed'
             PROVE  PermsFresh' /\ GrantsFresh' /\ GroupsFresh'
  BY DEF CachesFresh
<1>0. Unblamed /\ PermsFresh /\ GrantsFresh /\ GroupsFresh
  BY BlameGrows DEF CachesFresh
<1> USE DEF files, people, caching
<1>a. ASSUME job' = job
      PROVE  \A d \in Dirs : ToEvict(d) => ToEvict(d)'
  BY Zenon, <1>a DEF ToEvict, Evicts
<1>b. ASSUME NEW j \in Jobs, NEW x, job' = [job EXCEPT ![j] = x], \A d \in Dirs : ~Evicts(j, d)
      PROVE  \A d \in Dirs : ToEvict(d) => ToEvict(d)'
  <2>1. \A i \in Jobs : i # j => job'[i] = job[i]
    BY Zenon, <1>b DEF ShTypeOK
  <2> QED
    BY <1>b, <2>1, OthersEvict
<1>c. ASSUME NEW j \in Jobs, NEW x \in Handler, job' = [job EXCEPT ![j] = x]
      PROVE  job'[j] = x /\ job'[j] # Nothing
  BY Zenon, <1>c, SharingAssumption DEF ShTypeOK
<1>d. ASSUME NEW j \in Jobs, Free(j)
      PROVE  \A d \in Dirs : ~Evicts(j, d)
  BY Zenon, <1>d DEF Free, Evicts
<1>1. CASE UNCHANGED shVars
  BY Zenon, <1>0, <1>1, <1>a, WritesKeepFresh DEF shVars
<1>2. CASE load_begin \/ load_end
  BY <1>0, <1>2, LoadsKeepFresh
<1>3. ASSUME NEW j \in Jobs, NEW ps, NEW g, NEW a, share(j, ps, g, a)
      PROVE  PermsFresh' /\ GrantsFresh' /\ GroupsFresh'
  BY Zenon, <1>0, <1>3, <1>b, <1>d, WritesKeepFresh DEF share
<1>4. ASSUME NEW j \in Jobs, share_read(j)
      PROVE  PermsFresh' /\ GrantsFresh' /\ GroupsFresh'
  <2>1. \A d \in Dirs : ~Evicts(j, d)
    BY Zenon, <1>4 DEF share_read, Evicts
  <2>2. \E x : job' = [job EXCEPT ![j] = x]
    BY Zenon, <1>4 DEF share_read
  <2> QED
    BY Zenon, <1>0, <1>4, <1>b, <2>1, <2>2, WritesKeepFresh DEF share_read
<1>5. ASSUME NEW j \in Jobs, share_write(j)
      PROVE  PermsFresh' /\ GrantsFresh' /\ GroupsFresh'
  <2>1. job[j] \in Writers
    BY Zenon, <1>5 DEF share_write, ShTypeOK, Handler, Sharers, Writers, Unsharers, Evicters, AllEvicters
  <2>2. \A d \in Dirs : ~Evicts(j, d)
    BY Zenon, <1>5 DEF share_write, Evicts
  <2>3. [job[j] EXCEPT !.at = "evict"] \in Handler /\ job' = [job EXCEPT ![j] = [job[j] EXCEPT !.at = "evict"]]
    BY Zenon, <1>5, <2>1 DEF share_write, ShTypeOK, Handler, Writers
  <2>4. job'[j] # Nothing /\ job'[j].kind = "share" /\ job'[j].at = "evict" /\ job'[j].dir = job[j].dir
    <3> DEFINE x == [job[j] EXCEPT !.at = "evict"]
    <3>1. x \in Handler /\ job' = [job EXCEPT ![j] = x]
      BY <2>3
    <3>2. x.kind = "share" /\ x.at = "evict" /\ x.dir = job[j].dir
      BY <2>1 DEF Writers
    <3> HIDE DEF x
    <3> QED
      BY Zenon, <1>c, <3>1, <3>2
  <2>5. \A d \in Dirs : perms'[d] = perms[d] \/ ToEvict(d)'
    BY Zenon, <1>5, <2>4 DEF share_write, ToEvict, Evicts, ShTypeOK
  <2> QED
    BY Zenon, <1>0, <1>5, <1>b, <2>2, <2>3, <2>5, WritesKeepFresh DEF share_write
<1>6. ASSUME NEW j \in Jobs, share_evict(j)
      PROVE  PermsFresh' /\ GrantsFresh' /\ GroupsFresh'
  <2>1. job[j] \in Writers
    BY Zenon, <1>6 DEF share_evict, ShTypeOK, Handler, Sharers, Writers, Unsharers, Evicters, AllEvicters
  <2>2. {job[j].dir} \in (SUBSET Dirs) \ {{}}
    BY Zenon, <2>1 DEF Writers
  <2>3. ~LoadRaces(job[j].dir)
    BY Zenon, <1>6 DEF share_evict, Blamed, Unblamed
  <2>4. \A d \in Dirs \ {job[j].dir} : ~Evicts(j, d)
    BY Zenon, <1>6 DEF share_evict, Evicts
  <2>5. \A i \in Jobs : i # j => job'[i] = job[i]
    BY Zenon, <1>6 DEF share_evict, ShTypeOK
  <2> QED
    BY Zenon, <1>0, <1>6, <2>2, <2>3, <2>4, <2>5, OthersEvict, EvictionsKeepFresh DEF share_evict
<1>7. ASSUME NEW j \in Jobs, NEW p, NEW g, NEW n, unshare(j, p, g, n)
      PROVE  PermsFresh' /\ GrantsFresh' /\ GroupsFresh'
  BY Zenon, <1>0, <1>7, <1>b, <1>d, WritesKeepFresh DEF unshare
<1>8. ASSUME NEW j \in Jobs, NEW ds \in SUBSET Dirs, job' = [job EXCEPT ![j] = Evicting(ds)],
             Evicting(ds) \in Handler, \A d \in Dirs \ ds : perms'[d] = perms[d],
             \A d \in Dirs : ~Evicts(j, d), UNCHANGED <<caching, people>>
      PROVE  PermsFresh' /\ GrantsFresh' /\ GroupsFresh'
  <2>1. job'[j] # Nothing /\ job'[j].kind = "evict" /\ job'[j].dirs = ds
    <3>1. job'[j] = Evicting(ds) /\ job'[j] # Nothing
      BY Zenon, <1>c, <1>8
    <3> QED
      BY <3>1 DEF Evicting
  <2>2. \A d \in Dirs : perms'[d] = perms[d] \/ ToEvict(d)'
    BY Zenon, <1>8, <2>1 DEF ToEvict, Evicts
  <2> QED
    BY Zenon, <1>0, <1>8, <1>b, <2>2, WritesKeepFresh
<1>9. ASSUME NEW j \in Jobs, unshare_write(j)
      PROVE  PermsFresh' /\ GrantsFresh' /\ GroupsFresh'
  <2>1. job[j] \in Unsharers
    BY Zenon, <1>9 DEF unshare_write, ShTypeOK, Handler, Sharers, Writers, Unsharers, Evicters, AllEvicters
  <2>2. job[j].dir \in Dirs
    BY Zenon, <2>1 DEF Unsharers
  <2>3. \A d \in Dirs : ~Evicts(j, d)
    BY Zenon, <1>9 DEF unshare_write, Evicts
  <2>4. \A d \in Dirs \ {job[j].dir} : perms'[d] = perms[d]
    BY Zenon, <1>9 DEF unshare_write, ShTypeOK
  <2> QED
    BY Zenon, <1>8, <1>9, <2>2, <2>3, <2>4, EvictingTyped DEF unshare_write
<1>10. ASSUME NEW j \in Jobs, NEW d \in Dirs, NEW c, put_permissions(j, d, c)
       PROVE  PermsFresh' /\ GrantsFresh' /\ GroupsFresh'
  <2>1. \A e \in Dirs \ {d} : perms'[e] = perms[e]
    BY Zenon, <1>10 DEF put_permissions, Overwrite, ShTypeOK
  <2> QED
    BY Zenon, <1>8, <1>10, <1>d, <2>1, EvictingTyped DEF put_permissions
<1>11. ASSUME NEW j \in Jobs, NEW d \in Dirs, delete_permissions(j, d)
       PROVE  PermsFresh' /\ GrantsFresh' /\ GroupsFresh'
  <2>1. \A e \in Dirs \ {d} : perms'[e] = perms[e]
    BY Zenon, <1>11 DEF delete_permissions, Overwrite, ShTypeOK
  <2> QED
    BY Zenon, <1>8, <1>11, <1>d, <2>1, EvictingTyped DEF delete_permissions
<1>12. ASSUME NEW j \in Jobs, NEW d \in Dirs, NEW e \in Dirs, rename_permissions(j, d, e)
       PROVE  PermsFresh' /\ GrantsFresh' /\ GroupsFresh'
  <2>1. \A f \in Dirs \ {d, e} : perms'[f] = perms[f]
    BY Zenon, <1>12 DEF rename_permissions, Overwrite, ShTypeOK
  <2>2. Evicting({d, e}) \in Handler /\ {d, e} \in SUBSET Dirs
    BY Zenon, EvictingTyped
  <2>3. \A f \in Dirs : ~Evicts(j, f)
    BY Zenon, <1>12, <1>d DEF rename_permissions
  <2> QED
    BY Zenon, <1>8, <1>12, <2>1, <2>2, <2>3 DEF rename_permissions
<1>13. ASSUME NEW j \in Jobs, evict_end(j)
       PROVE  PermsFresh' /\ GrantsFresh' /\ GroupsFresh'
  <2>1. job[j] \in Evicters
    BY Zenon, <1>13 DEF evict_end, ShTypeOK, Handler, Sharers, Writers, Unsharers, Evicters, AllEvicters
  <2>2. job[j].dirs \in (SUBSET Dirs) \ {{}}
    BY Zenon, <2>1 DEF Evicters
  <2>3. \A d \in job[j].dirs : ~LoadRaces(d)
    BY Zenon, <1>13 DEF evict_end, Blamed, Unblamed
  <2>4. \A d \in Dirs \ job[j].dirs : ~Evicts(j, d)
    BY Zenon, <1>13 DEF evict_end, Evicts
  <2>5. \A i \in Jobs : i # j => job'[i] = job[i]
    BY Zenon, <1>13 DEF evict_end, ShTypeOK
  <2> QED
    BY Zenon, <1>0, <1>13, <2>2, <2>3, <2>4, <2>5, OthersEvict, EvictionsKeepFresh DEF evict_end
<1>14. CASE \E d, e \in Dirs : copy_permissions(d, e)
  BY Zenon, <1>14 DEF copy_permissions, Unblamed
<1>15. CASE \E d \in Dirs : restore_deleted(d)
  BY Zenon, <1>15 DEF restore_deleted, Unblamed
<1>16. CASE snapshot_create
  BY Zenon, <1>0, <1>16, <1>a, WritesKeepFresh DEF snapshot_create
<1>17. ASSUME NEW j \in Jobs, snapshot_restore(j)
       PROVE  PermsFresh' /\ GrantsFresh' /\ GroupsFresh'
  <2>1. [kind |-> "evictAll"] \in Handler
    BY Zenon DEF Handler, AllEvicters
  <2>2. job'[j] # Nothing /\ job'[j].kind = "evictAll"
    <3>1. job' = [job EXCEPT ![j] = [kind |-> "evictAll"]]
      BY Zenon, <1>17 DEF snapshot_restore
    <3>2. job'[j] # Nothing /\ job'[j] = [kind |-> "evictAll"]
      BY Zenon, <2>1, <3>1, SharingAssumption DEF ShTypeOK
    <3> QED
      BY <3>2
  <2>3. \A d \in Dirs : ToEvict(d)'
    BY Zenon, <2>2 DEF ToEvict, Evicts
  <2> QED
    BY Zenon, <1>0, <1>17, <2>3, WritesKeepFresh DEF snapshot_restore
<1>18. ASSUME NEW j \in Jobs, evict_all(j)
       PROVE  PermsFresh' /\ GrantsFresh' /\ GroupsFresh'
  <2>1. Dirs \in (SUBSET Dirs) \ {{}}
    BY Zenon, SharingAssumption
  <2>2. \A d \in Dirs : ~LoadRaces(d)
    BY Zenon, <1>18 DEF evict_all, Blamed, Unblamed, LoadRaces
  <2> QED
    BY Zenon, <1>0, <1>18, <2>1, <2>2, EvictionsKeepFresh DEF evict_all
<1>19. CASE (\E u \in Users, t \in Tags : update_user(u, t))
            \/ (\E g \in Groups, t \in Tags \cup {Nothing} : change_group(g, t))
  <2>1. ~GroupsRead /\ UNCHANGED <<perms, job, caching>>
    BY Zenon, <1>19 DEF update_user, change_group, Blamed, Unblamed
  <2>2. \A d \in Dirs : ToEvict(d)' <=> ToEvict(d)
    BY Zenon, <2>1 DEF ToEvict, Evicts
  <2>3. PermsFresh'
    BY Zenon, <1>0, <2>1, <2>2 DEF PermsFresh
  <2>4. GrantsFresh'
    BY Zenon, <1>0, <2>1, <2>2, SameGrants DEF GrantsFresh
  <2>5. GroupsFresh'
    BY Zenon, <2>1 DEF GroupsFresh, GroupsRead
  <2> QED
    BY <2>3, <2>4, <2>5
<1>20. ASSUME NEW p \in Paths, toggle_file(p)
       PROVE  PermsFresh' /\ GrantsFresh' /\ GroupsFresh'
  BY Zenon, <1>0, <1>20, <1>a, WritesKeepFresh DEF toggle_file
<1>21. ASSUME NEW ps, NEW a, create_share_link(ps, a)
       PROVE  PermsFresh' /\ GrantsFresh' /\ GroupsFresh'
  BY Zenon, <1>0, <1>21, <1>a, WritesKeepFresh DEF create_share_link
<1> QED
  BY Zenon, <1>1, <1>2, <1>3, <1>4, <1>5, <1>6, <1>7, <1>9, <1>10, <1>11, <1>12, <1>13, <1>14, <1>15, <1>16, <1>17,
     <1>18, <1>19, <1>20, <1>21 DEF ShNext

LEMMA FreshInit ==
  ShInit => CachesFresh
BY Zenon DEF ShInit, CachesFresh, PermsFresh, GrantsFresh, GroupsFresh

LEMMA FreshAgree ==
  CachesFresh => CachesAgree
<1>1. ASSUME Quiet, NEW d \in Dirs PROVE ~ToEvict(d)
  BY Zenon, <1>1 DEF Quiet, ToEvict, Evicts
<1> QED
  BY Zenon, <1>1 DEF CachesFresh, CachesAgree, PermsFresh, GrantsFresh, GroupsFresh, Unblamed

\* For any number of handlers that share, unshare, rewrite, rename and restore
\* permission files and of requests that load them: when none is under way, the
\* permission, grants and group caches hold what the store holds, but for the
\* three cases in blame (evict_caches_for_path after each write).
THEOREM CachesAgreeWithStore ==
  ShSpec => []CachesAgree
<1>1. ShTypeOK /\ CachesFresh /\ [ShNext]_shVars => ShTypeOK' /\ CachesFresh'
  BY Zenon, TypedNext, FreshNext
<1> QED
  BY <1>1, TypedInit, FreshInit, FreshAgree, PTL DEF ShSpec

-----------------------------------------------------------------------------
(* Shares.  What POST /files/share answered for is in the permission file, *)
(* and with fresh caches it is shown.                                      *)

\* The file of its directory has a link for the share, with its flags.
Stored(p) == \E l \in perms[p.dir] : l.group = p.group /\ l.pattern = p.pattern /\ l.allow = p.allow

PromisesStored == "overlap" \notin blame => \A p \in promised : Stored(p)

\* A link with a name is for a file: no directory has its path.
Named(d, n) == n # NoName => Append(d, n) \notin Dirs

PatternsNameFiles ==
  /\ \A p \in promised : Named(p.dir, p.pattern)
  /\ \A j \in Jobs : job[j] # Nothing /\ job[j].kind = "share" /\ job[j].at \in {"write", "evict"} =>
       Named(job[j].dir, job[j].pattern)

\* A path is its parent's and its last name.
LEMMA SplitPath ==
  ASSUME NEW S, NEW s \in Seq(S), s # <<>>
  PROVE  Append(parent_path(s), file_name(s)) = s
<1>1. Len(s) \in Nat /\ Len(s) > 0
  OBVIOUS
<1>2. parent_path(s) \in Seq(S) /\ Len(parent_path(s)) = Len(s) - 1 /\ \A i \in 1 .. Len(s) - 1 : parent_path(s)[i] = s[i]
  <2>1. \A i \in 1 .. Len(s) - 1 : s[i] \in S
    BY <1>1
  <2> DEFINE m == Len(s) - 1
  <2>2. 1 \in Int /\ m \in Int /\ m >= 0 /\ \A i \in 1 .. m : s[i] \in S
    BY <1>1, <2>1
  <2> HIDE DEF m
  <2>3. /\ SubSeq(s, 1, m) \in Seq(S) /\ Len(SubSeq(s, 1, m)) = (IF 1 <= m THEN m - 1 + 1 ELSE 0)
        /\ \A i \in 1 .. m - 1 + 1 : SubSeq(s, 1, m)[i] = s[1 + i - 1]
    BY <2>2
  <2>4. SubSeq(s, 1, m) \in Seq(S) /\ Len(SubSeq(s, 1, m)) = m /\ \A i \in 1 .. m : SubSeq(s, 1, m)[i] = s[i]
    BY <2>2, <2>3
  <2> QED
    BY <2>4 DEF parent_path, m
<1>3. file_name(s) = s[Len(s)] /\ file_name(s) \in S
  BY <1>1 DEF file_name
<1> QED
  BY <1>1, <1>2, <1>3

LEMMA JoinPath ==
  ASSUME NEW S, NEW s \in Seq(S), NEW x \in S
  PROVE  parent_path(Append(s, x)) = s /\ file_name(Append(s, x)) = x
<1>1. Append(s, x) \in Seq(S) /\ Len(Append(s, x)) = Len(s) + 1 /\ Append(s, x)[Len(s) + 1] = x
  OBVIOUS
<1>2. file_name(Append(s, x)) = x
  BY <1>1 DEF file_name
<1>3. SubSeq(Append(s, x), 1, Len(s)) = s
  OBVIOUS
<1> QED
  BY <1>1, <1>2, <1>3 DEF parent_path

\* Upsert has the link asked for, and every link of another group or name.
LEMMA UpsertKeeps ==
  ASSUME NEW links \in SUBSET Links, NEW g, NEW n, NEW a
  PROVE  /\ \E l \in Upsert(links, g, n, a) : l.group = g /\ l.pattern = n /\ l.allow = a
         /\ \A l \in links : l.group # g \/ l.pattern # n => l \in Upsert(links, g, n, a)
<1> DEFINE same == {l \in links : l.group = g /\ l.pattern = n}
<1>1. CASE same = {}
  <2>1. Upsert(links, g, n, a) = links \cup {Link(g, n, a, {})}
    BY <1>1 DEF Upsert
  <2>2. Link(g, n, a, {}).group = g /\ Link(g, n, a, {}).pattern = n /\ Link(g, n, a, {}).allow = a
    BY Zenon DEF Link
  <2> QED
    BY Zenon, <2>1, <2>2
<1>2. CASE same # {}
  <2>1. Upsert(links, g, n, a) = (links \ same) \cup {[l EXCEPT !.allow = a] : l \in same}
    BY <1>2 DEF Upsert
  <2>2. PICK l \in same : TRUE
    BY <1>2
  <2>3. l \in Links /\ l.group = g /\ l.pattern = n
    BY <2>2
  <2>4. [l EXCEPT !.allow = a].group = g /\ [l EXCEPT !.allow = a].pattern = n /\ [l EXCEPT !.allow = a].allow = a
    BY <2>3 DEF Links
  <2>5. [l EXCEPT !.allow = a] \in Upsert(links, g, n, a)
    BY Zenon, <2>1, <2>2
  <2>6. \A k \in links : k.group # g \/ k.pattern # n => k \in Upsert(links, g, n, a)
    BY <2>1
  <2> HIDE DEF same
  <2> QED
    BY Zenon, <2>4, <2>5, <2>6
<1> QED
  BY Zenon, <1>1, <1>2

\* A handler that has looked a path up names a file by its own name.
LEMMA NamedByPath ==
  ASSUME ShTypeOK, NEW p \in Paths, node[p] # "none"
  PROVE  Named(PermDir(p), Pattern(p))
<1>1. CASE node[p] = "file"
  <2>1. p # <<>> /\ p \notin Dirs
    BY Zenon, <1>1, SharingAssumption DEF ShTypeOK
  <2>2. Append(parent_path(p), file_name(p)) = p
    BY Zenon, <2>1, SharingAssumption, SplitPath
  <2> QED
    BY Zenon, <1>1, <2>1, <2>2 DEF Named, PermDir, Pattern
<1>2. CASE node[p] # "file"
  BY <1>2 DEF Named, Pattern
<1> QED
  BY <1>1, <1>2

\* A step that writes no permission file and answers no share.
LEMMA QuietPromises ==
  ASSUME PromisesStored, UNCHANGED <<perms, promised>>, blame \subseteq blame'
  PROVE  PromisesStored'
BY Zenon DEF PromisesStored, Stored

\* A writer of whole files takes over what was shared in them.
LEMMA OverwritePromises ==
  ASSUME ShTypeOK, PromisesStored, NEW ds, NEW new, Overwrite(ds, new), blame \subseteq blame',
         \A d \in Dirs \ ds : new[d] = perms[d]
  PROVE  PromisesStored'
<1>1. \A p \in promised' : p \in promised /\ p.dir \in Dirs \ ds
  BY Zenon DEF Overwrite, ShTypeOK
<1> QED
  BY Zenon, <1>1 DEF PromisesStored, Stored, Overwrite

\* share and unshare write what they read with one link changed, and answer
\* for or withdraw the share of that link only.
LEMMA PromisesNext ==
  ASSUME ShTypeOK, PromisesStored, [ShNext]_shVars
  PROVE  PromisesStored'
<1> USE DEF files, people, caching
<1>1. ASSUME NEW j \in Jobs, share_write(j)
      PROVE  PromisesStored'
  <2> SUFFICES ASSUME "overlap" \notin blame'
               PROVE  \A p \in promised' : Stored(p)'
    BY DEF PromisesStored
  <2> DEFINE dir == job[j].dir  g == job[j].group  n == job[j].pattern  a == job[j].allow
  <2>1. job[j] \in Writers
    BY Zenon, <1>1 DEF share_write, ShTypeOK, Handler, Sharers, Writers, Unsharers, Evicters, AllEvicters
  <2>2. perms[dir] = job[j].read /\ "overlap" \notin blame
    BY Zenon, <1>1 DEF share_write, Blamed
  <2>3. dir \in Dirs /\ perms[dir] \in SUBSET Links
    BY Zenon, <2>1 DEF Writers, ShTypeOK
  <2>4. perms'[dir] = Upsert(perms[dir], g, n, a) /\ \A d \in Dirs \ {dir} : perms'[d] = perms[d]
    BY Zenon, <1>1, <2>2, <2>3 DEF share_write, ShTypeOK
  <2>5. promised' = {p \in promised : <<p.dir, p.group, p.pattern>> # <<dir, g, n>>}
                      \cup {[dir |-> dir, group |-> g, pattern |-> n, allow |-> a]}
    BY Zenon, <1>1 DEF share_write
  <2>6. \A p \in promised : Stored(p) /\ p.dir \in Dirs
    BY Zenon, <2>2 DEF PromisesStored, ShTypeOK
  <2> HIDE DEF dir, g, n, a
  <2>7. /\ \E l \in perms'[dir] : l.group = g /\ l.pattern = n /\ l.allow = a
        /\ \A l \in perms[dir] : l.group # g \/ l.pattern # n => l \in perms'[dir]
    BY <2>3, <2>4, UpsertKeeps
  <2>8. ASSUME NEW p \in promised, <<p.dir, p.group, p.pattern>> # <<dir, g, n>>
        PROVE  Stored(p)'
    <3>1. PICK l \in perms[p.dir] : l.group = p.group /\ l.pattern = p.pattern /\ l.allow = p.allow
      BY Zenon, <2>6 DEF Stored
    <3>2. l \in perms'[p.dir]
      BY Zenon, <2>4, <2>6, <2>7, <2>8, <3>1
    <3> QED
      BY <3>1, <3>2 DEF Stored
  <2>9. ASSUME NEW p, p = [dir |-> dir, group |-> g, pattern |-> n, allow |-> a]
        PROVE  Stored(p)'
    <3>1. p.dir = dir /\ p.group = g /\ p.pattern = n /\ p.allow = a
      BY Zenon, <2>9
    <3> QED
      BY Zenon, <2>7, <3>1 DEF Stored
  <2> QED
    BY Zenon, <2>5, <2>8, <2>9
<1>2. ASSUME NEW j \in Jobs, unshare_write(j)
      PROVE  PromisesStored'
  <2> SUFFICES ASSUME "overlap" \notin blame', NEW p \in promised'
               PROVE  Stored(p)'
    BY DEF PromisesStored
  <2>1. perms[job[j].dir] = job[j].read /\ "overlap" \notin blame
    BY Zenon, <1>2 DEF unshare_write, Blamed
  <2>2. p \in promised /\ p.dir \in Dirs /\ <<p.dir, p.group, p.pattern>> # <<job[j].dir, job[j].group, job[j].pattern>>
    BY Zenon, <1>2 DEF unshare_write, ShTypeOK
  <2>3. PICK l \in perms[p.dir] : l.group = p.group /\ l.pattern = p.pattern /\ l.allow = p.allow
    BY Zenon, <2>1, <2>2 DEF PromisesStored, Stored
  <2>4. l \in perms'[p.dir]
    BY Zenon, <1>2, <2>1, <2>2, <2>3 DEF unshare_write, ShTypeOK
  <2> QED
    BY Zenon, <2>3, <2>4 DEF Stored
<1>3. ASSUME NEW j \in Jobs, NEW d \in Dirs, NEW c \in Contents, put_permissions(j, d, c)
      PROVE  PromisesStored'
  <2>1. \A e \in Dirs \ {d} : [perms EXCEPT ![d] = c][e] = perms[e]
    BY Zenon DEF ShTypeOK
  <2> QED
    BY Zenon, <1>3, <2>1, OverwritePromises DEF put_permissions
<1>4. ASSUME NEW j \in Jobs, NEW d \in Dirs, delete_permissions(j, d)
      PROVE  PromisesStored'
  <2>1. \A e \in Dirs \ {d} : [perms EXCEPT ![d] = {}][e] = perms[e]
    BY Zenon DEF ShTypeOK
  <2> QED
    BY Zenon, <1>4, <2>1, OverwritePromises DEF delete_permissions
<1>5. ASSUME NEW j \in Jobs, NEW d \in Dirs, NEW e \in Dirs, rename_permissions(j, d, e)
      PROVE  PromisesStored'
  <2>1. \A f \in Dirs \ {d, e} : [perms EXCEPT ![d] = {}, ![e] = perms[d]][f] = perms[f]
    BY Zenon DEF ShTypeOK
  <2> QED
    BY Zenon, <1>5, <2>1, OverwritePromises DEF rename_permissions
<1>6. ASSUME NEW d \in Dirs, NEW e \in Dirs, copy_permissions(d, e)
      PROVE  PromisesStored'
  <2>1. \A f \in Dirs \ {e} : [perms EXCEPT ![e] = perms[d]][f] = perms[f]
    BY Zenon DEF ShTypeOK
  <2> QED
    BY Zenon, <1>6, <2>1, OverwritePromises DEF copy_permissions
<1>7. ASSUME NEW d \in Dirs, restore_deleted(d)
      PROVE  PromisesStored'
  <2>1. \A e \in Dirs \ {d} : [perms EXCEPT ![d] = deleted[d]][e] = perms[e]
    BY Zenon DEF ShTypeOK
  <2> QED
    BY Zenon, <1>7, <2>1, OverwritePromises DEF restore_deleted
<1>8. ASSUME NEW j \in Jobs, snapshot_restore(j)
      PROVE  PromisesStored'
  <2>1. \A e \in Dirs \ Dirs : saved[e] = perms[e]
    OBVIOUS
  <2> QED
    BY Zenon, <1>8, <2>1, OverwritePromises DEF snapshot_restore
<1>9. CASE UNCHANGED <<perms, promised>> /\ blame \subseteq blame'
  BY <1>9, QuietPromises
<1>10. CASE UNCHANGED shVars
  BY Zenon, <1>9, <1>10 DEF shVars
<1>11. CASE load_begin \/ load_end \/ snapshot_create
  BY Zenon, <1>9, <1>11 DEF load_begin, load_end, snapshot_create
<1>12. ASSUME NEW j \in Jobs, share_read(j) \/ share_evict(j) \/ evict_end(j) \/ evict_all(j)
       PROVE  PromisesStored'
  BY Zenon, <1>9, <1>12 DEF share_read, share_evict, evict_end, evict_all, Blamed
<1>13. ASSUME NEW j, NEW ps, NEW g, NEW a, share(j, ps, g, a) \/ unshare(j, ps, g, a)
       PROVE  PromisesStored'
  BY Zenon, <1>9, <1>13 DEF share, unshare
<1>14. ASSUME NEW u, NEW t, update_user(u, t) \/ change_group(u, t) \/ toggle_file(u) \/ create_share_link(u, t)
       PROVE  PromisesStored'
  BY Zenon, <1>9, <1>14 DEF update_user, change_group, toggle_file, create_share_link, Blamed
<1> QED
  BY Zenon, <1>1, <1>2, <1>3, <1>4, <1>5, <1>6, <1>7, <1>8, <1>10, <1>11, <1>12, <1>13, <1>14 DEF ShNext

\* share_read names a file by its own name; share_write answers with that name.
LEMMA PatternsNext ==
  ASSUME ShTypeOK, PatternsNameFiles, [ShNext]_shVars
  PROVE  PatternsNameFiles'
<1> USE DEF files, people, caching
<1>1. ASSUME promised' \subseteq promised,
             \A j \in Jobs : job'[j] # Nothing /\ job'[j].kind = "share" /\ job'[j].at \in {"write", "evict"} =>
                               job'[j] = job[j]
      PROVE  PatternsNameFiles'
  BY Zenon, <1>1 DEF PatternsNameFiles, Named
<1>2. ASSUME NEW j \in Jobs, share_read(j)
      PROVE  PatternsNameFiles'
  <2>1. job[j] \in Sharers
    BY Zenon, <1>2 DEF share_read, ShTypeOK, Handler, Sharers, Writers, Unsharers, Evicters, AllEvicters
  <2>2. Head(job[j].todo) \in Paths
    BY <2>1 DEF Sharers
  <2>3. job'[j] # Nothing /\ job'[j].kind = "share" /\ job'[j].at \in {"write", "evict"} =>
          Named(job'[j].dir, job'[j].pattern)
    <3> DEFINE p == Head(job[j].todo)
    <3>1. CASE node[p] = "none"
      BY Zenon, <1>2, <3>1 DEF share_read, ShTypeOK
    <3>2. CASE node[p] # "none"
      <4>1. job'[j].dir = PermDir(p) /\ job'[j].pattern = Pattern(p)
        BY Zenon, <1>2, <3>2 DEF share_read, ShTypeOK
      <4> QED
        BY Zenon, <2>2, <3>2, <4>1, NamedByPath
    <3> QED
      BY Zenon, <3>1, <3>2
  <2>4. \A i \in Jobs \ {j} : job'[i] = job[i]
    BY Zenon, <1>2 DEF share_read, ShTypeOK
  <2> QED
    BY Zenon, <1>2, <2>3, <2>4 DEF PatternsNameFiles, Named, share_read
<1>3. ASSUME NEW j \in Jobs, share_write(j)
      PROVE  PatternsNameFiles'
  <2>1. job[j] \in Writers /\ job[j] # Nothing /\ job[j].kind = "share" /\ job[j].at \in {"write", "evict"}
    BY Zenon, <1>3 DEF share_write, ShTypeOK, Handler, Sharers, Writers, Unsharers, Evicters, AllEvicters
  <2>2. Named(job[j].dir, job[j].pattern)
    BY Zenon, <2>1 DEF PatternsNameFiles
  <2>3. job'[j].dir = job[j].dir /\ job'[j].pattern = job[j].pattern
    BY Zenon, <1>3, <2>1 DEF share_write, ShTypeOK, Writers
  <2>4. \A i \in Jobs \ {j} : job'[i] = job[i]
    BY Zenon, <1>3 DEF share_write, ShTypeOK
  <2>5. promised' \subseteq promised \cup {[dir |-> job[j].dir, group |-> job[j].group, pattern |-> job[j].pattern,
                                          allow |-> job[j].allow]}
    BY Zenon, <1>3 DEF share_write
  <2>6. \A p \in promised' : Named(p.dir, p.pattern)
    BY <2>2, <2>5 DEF PatternsNameFiles
  <2> QED
    BY Zenon, <2>2, <2>3, <2>4, <2>6 DEF PatternsNameFiles, Named
<1>4. ASSUME NEW j \in Jobs, share_evict(j)
      PROVE  PatternsNameFiles'
  BY Zenon, <1>1, <1>4 DEF share_evict, ShTypeOK
<1>5. ASSUME NEW j \in Jobs, unshare_write(j)
      PROVE  PatternsNameFiles'
  BY Zenon, <1>1, <1>5 DEF unshare_write, Evicting, ShTypeOK
<1>6. ASSUME NEW j \in Jobs, evict_end(j) \/ evict_all(j) \/ snapshot_restore(j)
      PROVE  PatternsNameFiles'
  <2>1. promised' \subseteq promised
    BY Zenon, <1>6 DEF evict_end, evict_all, snapshot_restore, Overwrite
  <2>2. \A i \in Jobs \ {j} : job'[i] = job[i]
    BY Zenon, <1>6 DEF evict_end, evict_all, snapshot_restore, ShTypeOK
  <2>3. job'[j] = Nothing \/ job'[j].kind = "evictAll"
    <3>1. CASE evict_end(j) \/ evict_all(j)
      BY Zenon, <3>1 DEF evict_end, evict_all, ShTypeOK
    <3>2. CASE snapshot_restore(j)
      BY Zenon, <3>2 DEF snapshot_restore, ShTypeOK
    <3> QED
      BY Zenon, <1>6, <3>1, <3>2
  <2> QED
    BY Zenon, <1>1, <2>1, <2>2, <2>3
<1>7. ASSUME NEW j \in Jobs, NEW d, NEW c, put_permissions(j, d, c) \/ delete_permissions(j, d) \/ rename_permissions(j, d, c)
      PROVE  PatternsNameFiles'
  BY SMTT(60), <1>1, <1>7 DEF put_permissions, delete_permissions, rename_permissions, Evicting, Overwrite, ShTypeOK
<1>8. ASSUME NEW j \in Jobs, NEW ps, NEW g, NEW a, share(j, ps, g, a) \/ unshare(j, ps, g, a)
      PROVE  PatternsNameFiles'
  BY SMTT(60), <1>1, <1>8 DEF share, unshare, ShTypeOK
<1>9. CASE UNCHANGED job /\ promised' \subseteq promised
  BY <1>1, <1>9
<1>10. CASE UNCHANGED shVars
  BY Zenon, <1>9, <1>10 DEF shVars
<1>11. CASE load_begin \/ load_end \/ snapshot_create
  BY Zenon, <1>9, <1>11 DEF load_begin, load_end, snapshot_create
<1>12. ASSUME NEW d, NEW e, copy_permissions(d, e) \/ restore_deleted(d)
       PROVE  PatternsNameFiles'
  BY Zenon, <1>9, <1>12 DEF copy_permissions, restore_deleted, Overwrite
<1>13. ASSUME NEW u, NEW t, update_user(u, t) \/ change_group(u, t) \/ toggle_file(u) \/ create_share_link(u, t)
       PROVE  PatternsNameFiles'
  BY Zenon, <1>9, <1>13 DEF update_user, change_group, toggle_file, create_share_link
<1> QED
  BY Zenon, <1>2, <1>3, <1>4, <1>5, <1>6, <1>7, <1>8, <1>10, <1>11, <1>12, <1>13 DEF ShNext

LEMMA PromisesInit ==
  ShInit => PromisesStored /\ PatternsNameFiles
BY Zenon DEF ShInit, PromisesStored, PatternsNameFiles

\* With fresh caches a stored share is listed, by user and by path.
LEMMA StoredShown ==
  ASSUME ShTypeOK, CachesAgree, PromisesStored, PatternsNameFiles, Quiet, blame = {}
  PROVE  SharesShown
<1> SUFFICES ASSUME NEW p \in promised
             PROVE  /\ \A u \in Users : p.group \in GroupsOf(u) =>
                         Shown(p.dir, p.pattern, p.allow) \in shared_with_me(u)
                    /\ target_path(p.dir, p) \in Paths /\ node[target_path(p.dir, p)] # "none" =>
                         \E l \in list_shares(target_path(p.dir, p)) :
                           l.group = p.group /\ l.pattern = p.pattern /\ l.allow = p.allow
  BY Zenon DEF SharesShown
<1>1. PICK l \in perms[p.dir] : l.group = p.group /\ l.pattern = p.pattern /\ l.allow = p.allow
  BY DEF PromisesStored, Stored
<1>2. p.dir \in Dirs /\ p.pattern \in Patterns
  BY Zenon DEF ShTypeOK
<1>3. ASSUME NEW u \in Users, p.group \in GroupsOf(u)
      PROVE  Shown(p.dir, p.pattern, p.allow) \in shared_with_me(u)
  <2> DEFINE grant == [group |-> l.group, target |-> target_path(p.dir, l), dir |-> p.dir, pattern |-> l.pattern,
                       allow |-> l.allow]
  <2>1. View(u).groups = GroupsOf(u) /\ View(u).grants = AllGrants
    BY Zenon DEF View, CachesAgree
  <2>2. grant \in AllGrants
    BY <1>1, <1>2 DEF AllGrants
  <2>3. grant.group = p.group /\ grant.dir = p.dir /\ grant.pattern = p.pattern /\ grant.allow = p.allow
    BY Zenon, <1>1
  <2> HIDE DEF grant
  <2> QED
    BY Zenon, <1>3, <2>1, <2>2, <2>3 DEF shared_with_me
<1>4. ASSUME target_path(p.dir, p) \in Paths, node[target_path(p.dir, p)] # "none"
      PROVE  l \in list_shares(target_path(p.dir, p))
  <2>1. CASE p.pattern = NoName
    <3>1. target_path(p.dir, p) = p.dir /\ node[p.dir] = "dir"
      BY Zenon, <1>2, <1>4, <2>1 DEF target_path, ShTypeOK
    <3> QED
      BY Zenon, <1>1, <3>1 DEF list_shares, PermDir
  <2>2. CASE p.pattern # NoName
    <3>1. target_path(p.dir, p) = Append(p.dir, p.pattern) /\ Append(p.dir, p.pattern) \notin Dirs
      BY Zenon, <2>2 DEF target_path, PatternsNameFiles, Named
    <3>2. node[target_path(p.dir, p)] = "file"
      BY Zenon, <1>4, <3>1 DEF ShTypeOK
    <3>3. p.dir \in Seq(PathNames)
      BY Zenon, <1>2, SharingAssumption DEF Dirs
    <3>4. p.pattern \in PathNames
      <4>1. PICK q \in Paths \ {<<>>} : p.pattern = file_name(q)
        BY Zenon, <1>2, <2>2 DEF Patterns
      <4>2. q \in Seq(PathNames) /\ q # <<>>
        BY Zenon, <4>1, SharingAssumption
      <4> QED
        BY <4>1, <4>2 DEF file_name
    <3>5. parent_path(target_path(p.dir, p)) = p.dir /\ file_name(target_path(p.dir, p)) = p.pattern
      BY Zenon, <3>1, <3>3, <3>4, JoinPath
    <3> QED
      BY Zenon, <1>1, <3>2, <3>5 DEF list_shares, PermDir
  <2> QED
    BY Zenon, <2>1, <2>2
<1> QED
  BY Zenon, <1>1, <1>3, <1>4

\* For any number of overlapping handlers: once nothing is under way, every
\* share that was answered and not withdrawn is shown to each member of its
\* group and to whoever lists the shares of its path, unless a case of blame
\* occurred (share_paths, shared_with_me, list_shares).
THEOREM SharesAreShown ==
  ShSpec => [](Quiet /\ blame = {} => SharesShown)
<1> DEFINE Inv == ShTypeOK /\ CachesFresh /\ PromisesStored /\ PatternsNameFiles
<1>1. ShInit => Inv
  BY TypedInit, FreshInit, PromisesInit
<1>2. Inv /\ [ShNext]_shVars => Inv'
  BY TypedNext, FreshNext, PromisesNext, PatternsNext
<1>3. Inv => (Quiet /\ blame = {} => SharesShown)
  BY FreshAgree, StoredShown
<1> HIDE DEF Inv
<1> QED
  BY <1>1, <1>2, <1>3, PTL DEF ShSpec
=============================================================================
