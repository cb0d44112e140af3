---------------------------- MODULE QuerySession ----------------------------
(***************************************************************************)
(* The query interface of aeordb: the where clause a client or the plugin  *)
(* SDK's builder sends, the pages the query handler cuts, aggregates and   *)
(* the search over all indexed directories (engine/query_engine.rs,        *)
(* engine/search.rs, server/engine_routes.rs, plugin-sdk query_builder.rs).*)
(***************************************************************************)
EXTENDS QueryEngine

CONSTANTS Sessions,    \* the values of setup
          Readable,     \* the files the client has Read on
          MaxDepth,     \* MAX_WHERE_CLAUSE_DEPTH
          NoCursor

VARIABLES writes,    \* stores and deletes so far
          session    \* the client's paged query

qvars == <<setup, files, index, writes, session>>

----------------------------------------------------------------------------
(* Sorting and paging.  A result set has no order of its own (it comes out   *)
(* of a hash set), and the sorts are stable: rows equal under every key come *)
(* in any order.                                                             *)

SortIndexes(dir, field) == {ix \in load_indexes_for_field(dir, field) : is_order_preserving(ix.conv)}

\* The sort key of a row: its path; its raw stored bytes (none sort first); its
\* place is open when the request names no order.
SortKey(order, dir, row) ==
  CASE order = "@path" -> row.key[2]
    [] order = "@size" -> files[row.key[2]].size
    [] order = "none" -> 0
    [] OTHER -> LET values == (CHOOSE ix \in SortIndexes(dir, order) : TRUE).values
                IN  IF row.key[1] = "path" /\ row.key[2] \in DOMAIN values THEN values[row.key[2]] ELSE -1

Precedes(order, dir, a, b) ==
  LET ka == SortKey(order, dir, a)
      kb == SortKey(order, dir, b)
  IN  ka < kb \/ (ka = kb /\ a.score > b.score)

sort_results(rows, order, dir) ==
  {s \in SetToSeqs(rows) : \A i, j \in DOMAIN s : Precedes(order, dir, s[i], s[j]) => i < j}

\* A cursor whose file is not in the result any more is ignored.
CursorAt(rows, cursor) == {i \in DOMAIN rows : rows[i].key = cursor}
AfterCursor(rows, cursor) == IF CursorAt(rows, cursor) = {} THEN 1 ELSE (CHOOSE i \in CursorAt(rows, cursor) : TRUE) + 1
BeforeCursor(rows, cursor) == IF CursorAt(rows, cursor) = {} THEN Len(rows) ELSE (CHOOSE i \in CursorAt(rows, cursor) : TRUE) - 1

\* A page with more rows behind it gives its last row as the next cursor.
NextCursorAhead(rest, limit) == IF Len(rest) > limit /\ limit > 0 THEN rest[limit + 1].key ELSE NoCursor
NextCursor(rest, limit) == IF Len(rest) > limit /\ limit > 0 THEN rest[limit].key ELSE NoCursor

\* One page of an ordered result; a page reached by a cursor gives its first
\* row as the previous cursor.
execute_paginated(rows, after, before, limit) ==
  LET rest == SubSeq(rows, AfterCursor(rows, after), BeforeCursor(rows, before))
      page == SubSeq(rest, 1, Lesser(limit, Len(rest)))
  IN  [rows |-> page, lost |-> \E c \in {after, before} \ {NoCursor} : CursorAt(rows, c) = {},
       next_cursor |-> NextCursor(rest, limit),
       prev_cursor |-> IF after # NoCursor /\ page # <<>> THEN Head(page).key ELSE NoCursor]

----------------------------------------------------------------------------
(* Requests.  The JSON of a where clause: "array", "and", "or", "not" with   *)
(* the children under c, "field" with the leaf under q, any other key.       *)

\* The JSON a client writes by hand, and the JSON of the plugin SDK's builder.
RECURSIVE to_json(_, _)
to_json(node, via) ==
  IF node.k = "field" THEN node
  ELSE [k |-> IF via = "sdk" THEN (CASE node.k = "and" -> "AND" [] node.k = "or" -> "OR" [] OTHER -> "NOT") ELSE node.k,
        c |-> [i \in DOMAIN node.c |-> to_json(node.c[i], via)]]

Parsed(json, children) ==
  IF \E i \in DOMAIN children : children[i].k = "error" THEN [k |-> "error"]
  ELSE [k |-> IF json.k = "array" THEN "and" ELSE json.k, c |-> children]

TooDeep(depth) == depth > MaxDepth

RECURSIVE parse_where_clause_inner(_, _)
parse_where_clause_inner(json, depth) ==
  IF TooDeep(depth) THEN [k |-> "error"]
  ELSE IF json.k = "field" THEN json
  ELSE IF json.k \notin {"array", "and", "or", "not"} THEN [k |-> "error"]
  ELSE Parsed(json, [i \in DOMAIN json.c |-> parse_where_clause_inner(json.c[i], depth + 1)])

parse_where_clause(json) == parse_where_clause_inner(json, 0)

----------------------------------------------------------------------------
(* Aggregates.                                                              *)

\* The number a stored word is shown as: a narrow type reads the front bytes.
bytes_to_f64(tag, word) ==
  CASE tag = "u8" -> word \div 2^(WordBits - Bits("u8"))
    [] tag \in SignedTags -> Signed(word)
    [] OTHER -> word

is_numeric_type(tag) == tag \in {"u8", "u64", "i64"}

MinWord(words) == {w \in words : \A v \in words : w <= v}
MaxWord(words) == {w \in words : \A v \in words : w >= v}

\* SUM over the numbers; MIN and MAX over the raw bytes.
compute_aggregates(keys, ix) ==
  LET having == {f \in DOMAIN ix.values : <<"path", f>> \in keys}
      words == {ix.values[f] : f \in having}
  IN  [count |-> Cardinality(keys),
       sum |-> FoldSet(LAMBDA f, total : total + bytes_to_f64(ix.conv.tag, ix.values[f]), 0, having),
       min |-> {bytes_to_f64(ix.conv.tag, w) : w \in MinWord(words)},
       max |-> {bytes_to_f64(ix.conv.tag, w) : w \in MaxWord(words)}]

\* The aggregates of a field over the answer, and per value shown of a second
\* field (a file without one is in the group of null).
execute_aggregate(answer, dir, field, group) ==
  LET keys == {row.key : row \in answer.set}
      of(k) == {bytes_to_f64(gx.conv.tag, gx.values[k[2]]) :
                  gx \in {gx \in load_index(dir, group) : k[1] = "path" /\ k[2] \in DOMAIN gx.values}}
      missing == load_index(dir, field) = {} \/ load_index(dir, group) = {}
      ix == CHOOSE x \in load_index(dir, field) : TRUE
  IN  IF answer.err # "none" THEN [err |-> answer.err]
      ELSE IF missing \/ ~is_numeric_type(ix.conv.tag) THEN [err |-> "NotFound"]
      ELSE [err |-> "none", flat |-> compute_aggregates(keys, ix),
            groups |-> [shown \in {of(k) : k \in keys} |-> compute_aggregates({k \in keys : of(k) = shown}, ix)]]

----------------------------------------------------------------------------
(* Global search: the same tree in every indexed directory at, under or      *)
(* above the base; one row per path, the best score, pages by offset.        *)

discover_indexed_directories_for_base(base) ==
  {d \in Dirs : (base = Root \/ d = base \/ d = Root) /\ \E k \in DOMAIN index : k[1] = d}

discover_fuzzy_fields(dir) == {k[2] : k \in {k \in DOMAIN index : k[1] = dir /\ k[3] \in TokenTags}}

\* A broad search matches the text in every field with a token index.
broad_search(dirs, text) ==
  {execute_internal([k |-> "field", q |-> [field |-> field, op |-> "match", text |-> text]], d) :
     <<d, field>> \in {<<d, field>> \in dirs \X {k[2] : k \in DOMAIN index} : field \in discover_fuzzy_fields(d)}}

structured_search(dirs, node) == {execute_internal(node, d) : d \in dirs}

deduplicate_by_path(rows) ==
  {row \in {[file |-> r.key[2], score |-> r.score] : r \in rows} :
     \A other \in rows : other.key[2] = row.file => other.score <= row.score}

Taken(sorted, limit, offset) == SubSeq(sorted, offset + 1, Lesser(offset + limit + 1, Len(sorted)))

\* A field or directory without an index adds nothing, another error ends it.
global_search(base, answers, limit, offset) ==
  LET rows == {r \in UNION {a.set : a \in answers} : path_is_under_query_path(r.key[2], base)}
      sorted == SetToSortSeq(deduplicate_by_path(rows),
                             LAMBDA a, b : a.score > b.score \/ (a.score = b.score /\ a.file < b.file))
      page == Taken(sorted, limit, offset)
  IN  [err |-> \E a \in answers : a.err \notin {"none", "NotFound"},
       results |-> SubSeq(page, 1, Lesser(limit, Len(page))), has_more |-> Len(page) > limit, total_count |-> Len(sorted)]

----------------------------------------------------------------------------
(* The system: files are stored, deleted and cleaned out of the indexes while *)
(* one client reads the answer of one query, page after page.                *)

\* session.steady: the files that have been in the answer in every state since
\* the query started.  session.got: the files delivered, session.twice: some of
\* them twice, session.first: the answer when it started, session.lost: a cursor was not
\* found, session.quiet: no change since the start, session.page: the last page.
NoSession == [at |-> "idle", why |-> "none"]

QInit ==
  /\ setup \in Sessions
  /\ files = [f \in Documents |-> NoFile]
  /\ index = [k \in setup.indexes |-> NewIndex(create_converter_from_config(k[3], Bits(k[3])))]
  /\ writes = 0
  /\ session = NoSession

Matching(answer) == {row.key[2] : row \in answer.set}

PutFile(f, content) ==
  /\ writes < setup.writes
  /\ files[f] # content
  /\ files' = [files EXCEPT ![f] = content]
  /\ index' = Indexed(setup.indexes, index, f, content)
  /\ writes' = writes + 1
  /\ setup' = setup

\* The delete leaves the index entries to the clean-up.
RemoveFile(f) ==
  /\ writes < setup.writes
  /\ files[f] # NoFile
  /\ files' = [files EXCEPT ![f] = NoFile]
  /\ writes' = writes + 1
  /\ UNCHANGED <<setup, index>>

IndexCleanup(f) ==
  /\ files[f] = NoFile
  /\ \E k \in DOMAIN index : f \in DOMAIN index[k].values
  /\ index' = [k \in DOMAIN index |-> remove(index[k], f)]
  /\ UNCHANGED <<setup, files, writes>>

\* What the change does to an open session's history.
Tracked ==
  IF session.at # "open" THEN session' = session
  ELSE \E node \in {session.tree}, dir \in {session.req.dir} : \E answer \in {execute_internal(node, dir)'} :
         session' = [session EXCEPT !.steady = @ \cap Matching(answer), !.quiet = FALSE]

\* Changes are followed up to the end of the session.
Change ==
  /\ session.at \in {"idle", "open"}
  /\ \E f \in Documents : (\E content \in setup.contents : PutFile(f, content)) \/ RemoveFile(f) \/ IndexCleanup(f)
  /\ Tracked

\* POST /query: a clause that does not parse is answered with 400.
StartQuery(req) ==
  /\ session.at = "idle"
  /\ \E node \in {parse_where_clause(to_json(req.tree, req.via))} :
       \/ /\ node.k = "error"
          /\ session' = [at |-> "failed", why |-> "BadRequest", req |-> req]
       \/ /\ node.k # "error"
          /\ \E answer \in {execute_internal(node, req.dir)} :
               session' = [at |-> "open", why |-> "none", req |-> req, tree |-> node, after |-> NoCursor, before |-> NoCursor,
                           page |-> {}, got |-> {}, twice |-> FALSE, lost |-> FALSE, quiet |-> TRUE,
                           first |-> answer, steady |-> Matching(answer)]
  /\ UNCHANGED <<setup, files, index, writes>>

\* The error the handler turns into a status, if any.
Failure(answer) ==
  IF answer.err # "none" THEN answer.err
  ELSE IF /\ session.req.order \notin {"@path", "@size", "none"}
          /\ answer.set # {}
          /\ SortIndexes(session.req.dir, session.req.order) = {} THEN "NotFound"
  ELSE "none"

\* The rows the caller may not read are dropped from the page, not before it
\* is cut; the cursors are those of the page as cut.
Deliver(page) ==
  LET items == SelectSeq(page.rows, LAMBDA row : row.key[2] \in Readable)
      delivered == {items[i].key[2] : i \in DOMAIN items}
  IN  session' = [session EXCEPT
        !.at = IF page.next_cursor = NoCursor THEN "done" ELSE "open",
        !.after = page.next_cursor, !.before = page.prev_cursor,
        !.page = delivered,
        !.got = @ \cup delivered,
        !.twice = @ \/ Cardinality(delivered) < Len(items) \/ delivered \cap session.got # {},
        !.lost = @ \/ page.lost]

\* The client turns back at the end: the page before its last one.
DeliverPrevious(page) ==
  LET delivered == {page.rows[i].key[2] : i \in DOMAIN page.rows} \cap Readable
  IN  session' = [session EXCEPT !.at = "back", !.page = delivered,
                    !.twice = @ \/ delivered \cap session.page # {}, !.lost = @ \/ page.lost]

\* One request: evaluate, sort, cut the page after or before a cursor.
FetchPage ==
  /\ session.at = "open" \/ (session.at = "done" /\ session.before # NoCursor)
  /\ \E answer \in {execute_internal(session.tree, session.req.dir)} :
       \/ /\ Failure(answer) # "none"
          /\ session' = [at |-> "failed", why |-> Failure(answer), req |-> session.req]
       \/ /\ Failure(answer) = "none"
          /\ \E rows \in sort_results(answer.set, session.req.order, session.req.dir) :
               \/ /\ session.at = "open"
                  /\ \E page \in {execute_paginated(rows, session.after, NoCursor, session.req.limit)} : Deliver(page)
               \/ /\ session.at = "done"
                  /\ \E page \in {execute_paginated(rows, NoCursor, session.before, session.req.limit)} : DeliverPrevious(page)
  /\ UNCHANGED <<setup, files, index, writes>>

QNext == Change \/ (\E req \in setup.requests : StartQuery(req)) \/ FetchPage

QSpec == QInit /\ [][QNext]_qvars

----------------------------------------------------------------------------
(* Properties.                                                              *)

\* What a leaf means, from the files alone.  Scope: the files an index of the
\* directory covers; for a virtual field without an index, those under it.
Scope(fq, dir) ==
  IF field_has_index(dir, fq.field) \/ ~canonical_virtual_field_name(fq.field)
  THEN {f \in Documents : files[f] # NoFile /\ IndexDir(setup.indexes, f) = dir}
  ELSE {f \in Documents : /\ files[f] # NoFile
                          /\ path_is_under_query_path(f, dir)
                          /\ field_has_index_at_path_or_ancestors(dir, fq.field) => IndexDir(setup.indexes, f) = Root}

\* A leaf on numbers, all of one sign, compares numbers; a file with one value.
Numbers(fq, f) == IF fq.field = "n" THEN ToSet(files[f].n) ELSE {files[f].size}

NumberHolds(fq, v) ==
  CASE fq.op \in {"eq", "in"} -> v \in {Signed(w) : w \in fq.values}
    [] fq.op = "gt" -> v > Signed(fq.lo)
    [] fq.op = "lt" -> v < Signed(fq.hi)
    [] OTHER -> v >= Signed(fq.lo) /\ v <= Signed(fq.hi)

RECURSIVE Denotes(_, _)
Denotes(node, dir) ==
  CASE node.k = "field" -> {f \in Scope(node.q, dir) : \E v \in Numbers(node.q, f) : NumberHolds(node.q, v)}
    [] node.k = "and" -> {f \in Documents : node.c # <<>> /\ \A i \in DOMAIN node.c : f \in Denotes(node.c[i], dir)}
    [] node.k = "or" -> UNION {Denotes(node.c[i], dir) : i \in DOMAIN node.c}
    [] OTHER -> {f \in Documents : \E k \in DOMAIN index : k[1] = dir /\ f \in DOMAIN index[k].values /\ files[f] # NoFile}
                  \ Denotes(node.c[1], dir)

\* The leaves answered by a scan name files by another key than those answered
\* by an index (and than NOT's universe): a tree is uniform when it has no mix.
Scanned(fq, dir) == canonical_virtual_field_name(fq.field) /\ ~field_has_index_at_path_or_ancestors(dir, fq.field)

RECURSIVE HasNot(_)
HasNot(node) == node.k = "not" \/ (node.k \in {"and", "or"} /\ \E i \in DOMAIN node.c : HasNot(node.c[i]))

Uniform(node, dir) ==
  \/ \A q \in leaves(node) : ~Scanned(q, dir)
  \/ (\A q \in leaves(node) : Scanned(q, dir)) /\ ~HasNot(node)

Numeric(node) == \A q \in leaves(node) : q.field \in {"n", "@size"} /\ q.op \in ScalarOps

\* A file stored again without a field it had keeps its old entry.
Stale(f) ==
  \E k \in DOMAIN index : /\ k[1] = IndexDir(setup.indexes, f)
                          /\ f \in DOMAIN index[k].values
                          /\ field_values(k[2], f, files[f]) = <<>>

\* A file with at most one value, not negative: its bytes compare as it does.
Comparable(f) ==
  files[f] # NoFile => Len(files[f].n) <= 1 /\ (\A v \in ToSet(files[f].n) : v >= 0) /\ ~Stale(f)

Fresh == session.at = "open" /\ session.quiet /\ session.got = {} /\ session.after = NoCursor
Tree == session.tree
Dir == session.req.dir
Found == Matching(session.first)
Exact(node, dir) == {f \in Found : Comparable(f)} = {f \in Denotes(node, dir) : Comparable(f)}

\* evaluate_node over scalar leaves answers what the where clause means: the
\* bucket table, the scalars and the byte comparisons lose no file and add
\* none, and AND, OR, NOT combine them, for files with one value that is not
\* negative, or that never had one, and for trees that do not mix scanned with
\* indexed leaves.
ScalarsExact ==
  Fresh /\ session.first.err = "none" /\ Numeric(Tree) /\ Uniform(Tree, Dir) => Exact(Tree, Dir)

\* The bucket table rebuilt from the sorted entries gives each lookup the run
\* of its bucket: no entry is in another bucket's run, none is in no run.
NvtPartition ==
  session.at = "idle" => \A k \in DOMAIN index : \A b \in 0 .. Buckets - 1 :
    BucketRun(index[k].entries, b) = Slice(index[k], b, b)

\* The mask of a tree on one field covers the bucket of every match, so that
\* pruning by it would lose nothing.
MaskCovers ==
  Fresh /\ Numeric(Tree) /\ ~HasNot(Tree) =>
    \A field \in {q.field : q \in leaves(Tree)} :
      LET matches == UNION {{e \in ix.entries : e.file \in Found} : ix \in load_index(Dir, field)}
      IN  (\A q \in leaves(Tree) : q.field = field) =>
            {scalar_to_bucket(e.scalar) : e \in matches} \subseteq evaluate_node_as_mask(Tree, Dir)

\* A text leaf answers only files whose value scores, and all of them that the
\* index proposes: a substring with a trigram inside a word; a similar or fuzzy
\* value that shares a trigram; a word with the same phonetic code.
Proposed(fq, dir, value) ==
  LET shares == extract_trigrams[fq.text] \cap extract_trigrams[value] # {}
      has(tags) == \E t \in tags : load_index_by_strategy(dir, fq.field, t) # {}
      sounds == \E s \in PhoneticTags : has({s}) /\ WordsMatch(s, fq.text, value)
  IN  CASE fq.op = "contains" -> (\E w \in WordsOf(fq.text) : Len(w) >= 3) \/ shares
        [] fq.op \in {"similar", "fuzzy"} -> shares
        [] fq.op = "phonetic" -> sounds
        [] OTHER -> (has({"trigram"}) /\ shares) \/ sounds \/ (has({"string"}) /\ fq.text = value)

TextComplete ==
  Fresh /\ Tree.k = "field" /\ is_recheck_operation(Tree.q.op) /\ Tree.q.field = "t" /\ session.first.err = "none" =>
    LET scoring == {f \in Scope(Tree.q, Dir) : files[f].t # <<>> /\ compute_score(Tree.q, files[f].t) > 0}
    IN  /\ {f \in Found : ~Stale(f)} \subseteq scoring
        /\ {f \in scoring : Proposed(Tree.q, Dir, files[f].t)} \subseteq Found

\* EXPLAIN is truthful: a scalar leaf whose plan lists an index is answered from
\* it, one whose plan lists none is answered by a scan or not at all.
Truthful(indexes, answer) ==
  IF indexes = {} THEN \A k \in answer.set : k[1] = "id"
  ELSE answer.err # "NotFound" /\ \A k \in answer.set : k[1] = "path"

PlanTruthful ==
  Fresh => \A step \in explain_node(Tree, Dir) : ~step.recheck => Truthful(step.indexes, evaluate_field_query(step.q, Dir))

\* SUM, MIN, MAX over a full-width unsigned index are those of the matching
\* files' numbers, and the groups partition the answer.
AggregatesExact ==
  LET a == execute_aggregate(session.first, Dir, "n", "n")
      holders == {f \in Found : files[f].n # <<>>}
      numbers == {Last(files[f].n) : f \in holders}
      Total(S, value(_)) == FoldSet(LAMBDA x, total : total + value(x), 0, S)
  IN  Fresh /\ (\A q \in leaves(Tree) : ~Scanned(q, Dir)) /\ a.err = "none" =>
        /\ a.flat.count = Total(DOMAIN a.groups, LAMBDA g : a.groups[g].count)
        /\ a.flat.sum = Total(DOMAIN a.groups, LAMBDA g : a.groups[g].sum)
        /\ (\A f \in Found : Comparable(f)) /\ (\A ix \in load_index(Dir, "n") : ix.conv.tag = "u64") =>
             /\ a.flat.sum = Total(holders, LAMBDA f : Last(files[f].n))
             /\ a.flat.min = {v \in numbers : \A w \in numbers : v <= w}
             /\ a.flat.max = {v \in numbers : \A w \in numbers : v >= w}

\* The pages of a search at offsets 0, limit, 2*limit, ... together give every
\* file found in a directory at, under or above the base, that is under the
\* base, once, and say there is more exactly until the last.
PagesOfSearch(found, pages, limit) ==
  /\ UNION {{pages[i].results[j].file : j \in DOMAIN pages[i].results} : i \in 1 .. 3} = found
  /\ Len(pages[1].results) + Len(pages[2].results) + Len(pages[3].results) = Cardinality(found)
  /\ \A i \in 1 .. 3 : pages[i].total_count = Cardinality(found) /\ (pages[i].has_more <=> i * limit < Cardinality(found))

SearchPaged ==
  Fresh =>
    \E dirs \in {discover_indexed_directories_for_base(Dir)} :
    \E answers \in {IF Tree.k = "field" /\ Tree.q.op = "match" THEN broad_search(dirs, Tree.q.text) ELSE structured_search(dirs, Tree)} :
    \E rows \in {UNION {a.set : a \in answers}} :
      PagesOfSearch({f \in {r.key[2] : r \in rows} : path_is_under_query_path(f, Dir)},
                    [i \in 1 .. 3 |-> global_search(Dir, answers, session.req.limit, (i - 1) * session.req.limit)], session.req.limit)

\* A clause is refused with 400 only when it nests deeper than the limit, or
\* is a boolean clause of the SDK's builder, whose keys are in upper case.
RECURSIVE Depth(_)
Depth(node) == IF node.k = "field" \/ node.c = <<>> THEN 0
               ELSE 1 + (CHOOSE d \in {Depth(node.c[i]) : i \in DOMAIN node.c} : \A i \in DOMAIN node.c : Depth(node.c[i]) <= d)

RefusedOnlyIf ==
  session.at # "idle" =>
    (session.why = "BadRequest" <=> Depth(session.req.tree) > MaxDepth \/ (session.req.via = "sdk" /\ session.req.tree.k # "field"))

\* The order of the rows is total and the same on every page.
Ordered == \/ session.req.order = "@path"
           \/ session.quiet /\ \A r, o \in session.first.set : r # o => SortKey(session.req.order, Dir, r) # SortKey(session.req.order, Dir, o)

\* Paging with next_cursor to the end delivers every readable file that was in
\* the answer all the time, whatever is stored and deleted meanwhile, as long
\* as the file a cursor names stays in the answer.
PagesComplete ==
  session.at = "done" /\ session.req.limit > 0 /\ ~session.lost /\ Ordered => session.steady \cap Readable \subseteq session.got

\* ... and no file twice; turning back at the end repeats nothing of the last
\* page.
PagesDistinct ==
  session.at \in {"open", "done", "back"} /\ session.req.order = "@path" /\ ~session.lost /\ Uniform(Tree, Dir) => ~session.twice

\* A query is answered with what its clause means, whatever was stored, deleted
\* and cleaned out of the indexes before: scalars, text, plan, aggregates and
\* refusals, from bucket tables that give each lookup its run.
AnswerExact ==
  ScalarsExact /\ NvtPartition /\ MaskCovers /\ TextComplete /\ PlanTruthful /\ AggregatesExact /\ RefusedOnlyIf

\* The pages of a query or a search together are its answer: nothing is left out
\* and nothing comes twice.
PagesExact == PagesComplete /\ PagesDistinct /\ SearchPaged
=============================================================================
