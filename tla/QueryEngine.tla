----------------------------- MODULE QueryEngine ----------------------------
(***************************************************************************)
(* Evaluation of queries in aeordb (engine/query_engine.rs): a tree of     *)
(* field queries is evaluated against the field indexes of a directory or, *)
(* for a virtual field without an index, by a scan.                        *)
(*                                                                         *)
(* A file is numbered in the order of its path.  It has a numeric field    *)
(* "n" (a sequence: the values its source path fans out to), a text field  *)
(* "t", and the virtual fields "@size" and "@filename".  An index names a  *)
(* file by the key of its path, a scan by the hash of its directory entry: *)
(* <<"path", f>> and <<"id", f>>.  Both keys load the same record.         *)
(***************************************************************************)
EXTENDS FieldIndex

CONSTANTS Documents,        \* 1 .. k, in path order
          Root, Sub,    \* the two directories
          DirOf,        \* the directory of a file
          NameOf,       \* the name of a file, a text
          NoFile

Dirs == {Root, Sub}
VirtualFields == {"@size", "@filename"}
ScalarOps == {"eq", "in", "gt", "lt", "between"}
RecheckOps == {"contains", "similar", "phonetic", "fuzzy", "match"}

\* The order in which list_indexes sorts the strategies of one field.
Strategies == <<"dmetaphone", "i64", "soundex", "string", "timestamp", "trigram", "u64", "u8">>

VARIABLES setup,    \* [indexes, contents, requests, writes]: the index configuration, a set of
                     \* <<dir, field, tag>>, what files may hold, what the client may ask,
                     \* and a bound on the stores and deletes of a behaviour
          files,     \* file -> its content [n, t, size], or NoFile
          index      \* <<dir, field, strategy>> -> the buffered FieldIndex

Ok(s) == [err |-> "none", set |-> s]
Err(e) == [err |-> e, set |-> {}]

----------------------------------------------------------------------------
(* Indexing a file: the nearest directory with a configuration indexes it.  *)

ConfiguredDirs(cfg) == {k[1] : k \in cfg}
IndexDir(cfg, f) == IF DirOf[f] \in ConfiguredDirs(cfg) THEN DirOf[f] ELSE Root

\* resolve_sources: every value the field's source path fans out to.
field_values(field, f, content) ==
  CASE field = "n" -> [i \in DOMAIN content.n |-> json_value_to_bytes(content.n[i])]
    [] field = "t" -> IF content.t = <<>> THEN <<>> ELSE <<content.t>>
    [] field = "@size" -> <<content.size>>
    [] OTHER -> <<NameOf[f]>>

Bits(tag) == IF tag = "u8" THEN 1 ELSE WordBits

\* The update of one index: the file's old entries go, each value comes in.  A
\* file without a value is passed over: what was indexed for it before stays.
index_field(ix, f, field, content) ==
  LET values == field_values(field, f, content)
      after[i \in 0 .. Len(values)] == IF i = 0 THEN remove(ix, f) ELSE insert_expanded(after[i - 1], values[i], f)
  IN  IF values = <<>> THEN ix ELSE after[Len(values)]

Indexed(cfg, ixs, f, content) ==
  [k \in DOMAIN ixs |-> IF k[1] = IndexDir(cfg, f) THEN index_field(ixs[k], f, k[2], content) ELSE ixs[k]]

----------------------------------------------------------------------------
(* Loading indexes (IndexManager).                                          *)

load_indexes_for_field(dir, field) ==
  {deep_clone(index[k]) : k \in {k \in DOMAIN index : k[1] = dir /\ k[2] = field}}

field_has_index(dir, field) == load_indexes_for_field(dir, field) # {}

load_index_by_strategy(dir, field, strategy) ==
  {deep_clone(index[k]) : k \in DOMAIN index \cap {<<dir, field, strategy>>}}

\* The first strategy in the order of the names.
load_index(dir, field) ==
  LET present == {i \in DOMAIN Strategies : <<dir, field, Strategies[i]>> \in DOMAIN index}
  IN  IF present = {} THEN {}
      ELSE load_index_by_strategy(dir, field, Strategies[CHOOSE i \in present : \A j \in present : i <= j])

virtual_index_ancestor_paths(dir) == {Root} \ {dir}

load_index_by_strategy_for_query(dir, field, strategy, include_ancestors) ==
  LET here == load_index_by_strategy(dir, field, strategy)
  IN  IF here # {} \/ ~include_ancestors THEN here
      ELSE UNION {load_index_by_strategy(d, field, strategy) : d \in virtual_index_ancestor_paths(dir)}

canonical_virtual_field_name(field) == field \in VirtualFields
is_recheck_operation(op) == op \in RecheckOps

Key(fs) == {<<"path", f>> : f \in fs}
get_entry(key) == files[key[2]] # NoFile
path_is_under_query_path(f, dir) == dir = Root \/ DirOf[f] = dir

filter_hashes_to_query_path(keys, dir) ==
  IF dir = Root THEN keys ELSE {k \in keys : get_entry(k) /\ path_is_under_query_path(k[2], dir)}

----------------------------------------------------------------------------
(* Leaves with an index.                                                    *)

evaluate_exact_field_values(field, dir, values) ==
  LET indexes == load_indexes_for_field(dir, field)
      exact == {ix \in indexes : supports_scalar_exact_lookup(ix)}
  IN  IF indexes = {} THEN Err("NotFound")
      ELSE IF exact # {} THEN Ok(Key(UNION {lookup_exact(ix, v) : ix \in exact, v \in values}))
      ELSE Ok(Key(UNION {lookup_stored_values_exact(ix, values) : ix \in indexes}))

evaluate_indexed_field_query(fq, dir) ==
  LET found == load_index(dir, fq.field)
      ix == CHOOSE x \in found : TRUE
  IN  CASE fq.op \in {"eq", "in"} -> evaluate_exact_field_values(fq.field, dir, fq.values)
        [] fq.op \notin {"eq", "in"} /\ (found = {} \/ is_recheck_operation(fq.op)) -> Err("NotFound")
        [] OTHER ->
             IF ~is_order_preserving(ix.conv) THEN Err("RangeQueryNotSupported")
             ELSE LET lo == fq.lo
                      hi == fq.hi
                  IN  Ok(Key(CASE fq.op = "gt" -> lookup_gt(ix, lo)
                               [] fq.op = "lt" -> lookup_lt(ix, hi)
                               [] OTHER -> lookup_range(ix, lo, hi)))

----------------------------------------------------------------------------
(* Text: candidates from the token indexes, then a score from the value.    *)

WordsMatch(strategy, a, b) == phonetic_codes[strategy, a] \cap phonetic_codes[strategy, b] # {}

MaxEdits(fq) == IF fq.edits = "auto" THEN auto_fuzziness(Len(fq.text)) ELSE fq.edits

DlScore(query, value, max_edits) ==
  LET d == damerau_levenshtein[query, value]
  IN  IF d > max_edits THEN 0
      ELSE 100 - (100 * d) \div Greater(1, Greater(Len(query), Len(value)))

\* The score of a value in percent; 0 is no match.
compute_score(fq, value) ==
  LET similarity == trigram_similarity[fq.text, value]
      sounds == \E s \in PhoneticTags : WordsMatch(s, fq.text, value)
  IN  CASE fq.op = "contains" -> IF IsSubstring(Lower(fq.text), Lower(value)) THEN 100 ELSE 0
        [] fq.op = "similar" -> IF similarity >= fq.threshold THEN similarity ELSE 0
        [] fq.op = "phonetic" -> IF sounds THEN 100 ELSE 0
        [] fq.op = "fuzzy" -> DlScore(fq.text, value, MaxEdits(fq))
        [] OTHER -> Greater(IF Lower(fq.text) = Lower(value) \/ sounds THEN 100 ELSE 0,
                            Greater(IF similarity > 30 THEN similarity ELSE 0,
                                    DlScore(fq.text, value, auto_fuzziness(Len(fq.text)))))

ByTokens(ix, tokens) == [token \in tokens |-> lookup_by_scalar(ix, HashScalar[token])]

InteriorTrigrams(trigrams) == {t \in trigrams : \A i \in DOMAIN t : t[i] # 0}

contains_candidates(ix, text) ==
  LET trigrams == extract_trigrams[text]
      interior == InteriorTrigrams(trigrams)
      hits == ByTokens(ix, trigrams)
  IN  IF interior = {} THEN UNION {hits[t] : t \in trigrams}
      ELSE {f \in Documents : \A t \in interior : f \in hits[t]}

any_trigram_candidates(ix, text) ==
  LET hits == ByTokens(ix, extract_trigrams[text]) IN UNION {hits[t] : t \in DOMAIN hits}

phonetic_candidates(ix, text) ==
  LET hits == ByTokens(ix, phonetic_codes[ix.conv.tag, text])
  IN  UNION {hits[t] : t \in DOMAIN hits}

\* The candidates the operation takes from the trigram (tri), phonetic (pho) and
\* string (str) indexes it uses, and the values stored in those.
FuzzyCandidates(fq, tri, pho, str) ==
  [unindexed |-> fq.op # "match" /\ tri \cup pho = {},
   hits |-> UNION {IF fq.op = "contains" THEN contains_candidates(ix, fq.text) ELSE any_trigram_candidates(ix, fq.text) : ix \in tri}
              \cup UNION {phonetic_candidates(ix, fq.text) : ix \in pho}
              \cup UNION {lookup_exact(ix, fq.text) : ix \in str},
   values |-> [f \in UNION {DOMAIN ix.values : ix \in tri \cup pho \cup str} |->
                 (CHOOSE ix \in tri \cup pho \cup str : f \in DOMAIN ix.values).values[f]]]

get_fuzzy_candidates_with_values(fq, dir) ==
  LET load(strategies) == UNION {load_index_by_strategy_for_query(dir, fq.field, s, canonical_virtual_field_name(fq.field)) : s \in strategies}
  IN  FuzzyCandidates(fq, load(IF fq.op = "phonetic" THEN {} ELSE {"trigram"}),
                      load(IF fq.op \in {"phonetic", "match"} THEN PhoneticTags ELSE {}),
                      load(IF fq.op = "match" THEN {"string"} ELSE {}))

\* The candidates of a virtual field may come from an index further up.
CandidateKeys(found, fq, dir) ==
  IF canonical_virtual_field_name(fq.field) THEN filter_hashes_to_query_path(Key(found.hits), dir) ELSE Key(found.hits)

\* The value a candidate is rechecked against: the stored one; else the
\* record's own (a virtual field) or the file's (an index without values).
RecheckValue(found, fq, f) ==
  IF f \in DOMAIN found.values THEN found.values[f] ELSE field_values(fq.field, f, files[f])[1]

Scored(found, keys, fq) ==
  {[key |-> k, score |-> compute_score(fq, RecheckValue(found, fq, k[2]))] :
     k \in {k \in keys : get_entry(k) /\ (k[2] \in DOMAIN found.values \/ field_values(fq.field, k[2], files[k[2]]) # <<>>)}}

RecheckRows(found, fq, dir) == {row \in Scored(found, CandidateKeys(found, fq, dir), fq) : row.score > 0}

----------------------------------------------------------------------------
(* Virtual fields.                                                          *)

\* The answer of the path's own index; without one, of the nearest above.
NearestAnswer(here, above, dir) ==
  LET answers == {r \in above : r.err # "NotFound"}
      r == CHOOSE r \in answers : TRUE
  IN  IF here.err # "NotFound" THEN here
      ELSE IF answers = {} THEN Err("NotFound")
      ELSE [r EXCEPT !.set = filter_hashes_to_query_path(@, dir)]

evaluate_indexed_virtual_field_query(fq, dir) ==
  NearestAnswer(evaluate_indexed_field_query(fq, dir),
                {evaluate_indexed_field_query(fq, d) : d \in {d \in virtual_index_ancestor_paths(dir) : field_has_index(d, fq.field)}},
                dir)

VirtualRecheck(found, fq, dir) ==
  IF found.unindexed \/ (CandidateKeys(found, fq, dir) = {} /\ DOMAIN found.values = {}) THEN Err("NotFound")
  ELSE Ok({row.key : row \in RecheckRows(found, fq, dir)})

evaluate_virtual_recheck_field_query(fq, dir) == VirtualRecheck(get_fuzzy_candidates_with_values(fq, dir), fq, dir)

TextLess(a, b) ==
  \E i \in 0 .. Lesser(Len(a), Len(b)) :
    /\ SubSeq(a, 1, i) = SubSeq(b, 1, i)
    /\ i < Len(b)
    /\ i = Len(a) \/ a[i + 1] < b[i + 1]

virtual_u64_matches(fq, size) ==
  CASE fq.op \in {"eq", "in"} -> size \in fq.values
    [] fq.op = "gt" -> size > fq.lo
    [] fq.op = "lt" -> size < fq.hi
    [] OTHER -> size >= fq.lo /\ size <= fq.hi

virtual_string_matches(fq, value) ==
  CASE fq.op \in {"eq", "in"} -> value \in fq.values
    [] fq.op = "gt" -> TextLess(fq.lo, value)
    [] fq.op = "lt" -> TextLess(value, fq.hi)
    [] fq.op = "contains" -> IsSubstring(fq.text, value)
    [] fq.op = "similar" -> trigram_similarity[value, fq.text] >= fq.threshold
    [] fq.op = "phonetic" -> \E s \in PhoneticTags : Code[s][value] = Code[s][fq.text]
    [] fq.op = "fuzzy" -> damerau_levenshtein[value, fq.text] <= MaxEdits(fq)
    [] OTHER -> IsSubstring(Lower(fq.text), Lower(value)) \/ trigram_similarity[value, fq.text] >= 30

virtual_field_matches(fq, f) ==
  IF fq.field = "@size" THEN virtual_u64_matches(fq, files[f].size) ELSE virtual_string_matches(fq, NameOf[f])

\* The recursive listing under the path, filtered record by record.
virtual_scan(fq, dir) ==
  LET listing == {f \in Documents : files[f] # NoFile /\ path_is_under_query_path(f, dir)}
      supported == IF fq.field = "@size" THEN fq.op \in ScalarOps ELSE fq.op # "between"
  IN  IF ~supported /\ listing # {} THEN Err("InvalidInput")
      ELSE Ok({<<"id", f>> : f \in {f \in listing : virtual_field_matches(fq, f)}})

OrScan(indexed, fq, dir) == IF indexed.err # "NotFound" THEN indexed ELSE virtual_scan(fq, dir)

evaluate_virtual_field_query(fq, dir) ==
  OrScan(IF fq.op \in ScalarOps THEN evaluate_indexed_virtual_field_query(fq, dir)
         ELSE evaluate_virtual_recheck_field_query(fq, dir), fq, dir)

evaluate_field_query(fq, dir) ==
  IF canonical_virtual_field_name(fq.field) THEN evaluate_virtual_field_query(fq, dir)
  ELSE evaluate_indexed_field_query(fq, dir)

----------------------------------------------------------------------------
(* Trees: [k |-> "field", q |-> leaf], [k |-> "and" | "or", c |-> trees],    *)
(* [k |-> "not", c |-> <<tree>>].                                            *)

\* The universe of NOT: every file some index of the directory mentions.
collect_all_hashes(dir) ==
  Key({e.file : e \in UNION {index[k].entries : k \in {k \in DOMAIN index : k[1] = dir}}})

FirstErr(results) == LET bad == {i \in DOMAIN results : results[i].err # "none"}
                     IN  IF bad = {} THEN "none" ELSE results[CHOOSE i \in bad : \A j \in bad : i <= j].err

Combine(k, results, dir) ==
  IF FirstErr(results) # "none" THEN Err(FirstErr(results))
  ELSE CASE k = "and" /\ results = <<>> -> Ok({})
         [] k = "and" /\ results # <<>> -> Ok({key \in results[1].set : \A i \in DOMAIN results : key \in results[i].set})
         [] k = "or" -> Ok(UNION {results[i].set : i \in DOMAIN results})
         [] OTHER -> Ok(collect_all_hashes(dir) \ results[1].set)

RECURSIVE evaluate_node(_, _)
evaluate_node(node, dir) ==
  IF node.k = "field" THEN evaluate_field_query(node.q, dir)
  ELSE Combine(node.k, [i \in DOMAIN node.c |-> evaluate_node(node.c[i], dir)], dir)

RECURSIVE leaves(_)
leaves(node) == IF node.k = "field" THEN {node.q} ELSE UNION {leaves(node.c[i]) : i \in DOMAIN node.c}

field_has_index_at_path_or_ancestors(dir, field) ==
  \E d \in {dir} \cup virtual_index_ancestor_paths(dir) : field_has_index(d, field)

should_use_recheck_path(node, dir) ==
  IF node.k = "field"
  THEN is_recheck_operation(node.q.op)
       /\ (canonical_virtual_field_name(node.q.field) => field_has_index_at_path_or_ancestors(dir, node.q.field))
  ELSE \E q \in leaves(node) : is_recheck_operation(q.op) /\ ~canonical_virtual_field_name(q.field)

RecheckAnswer(found, fq, dir) == IF found.unindexed THEN Err("NotFound") ELSE Ok(RecheckRows(found, fq, dir))

execute_with_recheck_internal(node, dir) ==
  IF node.k # "field" THEN Err("NotFound")
  ELSE RecheckAnswer(get_fuzzy_candidates_with_values(node.q, dir), node.q, dir)

\* All matching rows [key, score]; an index entry of a file that is gone is
\* skipped when its record is loaded.
LoadRecords(r) ==
  IF r.err # "none" THEN r ELSE Ok({[key |-> k, score |-> 100] : k \in {k \in r.set : get_entry(k)}})

execute_internal(node, dir) ==
  IF node.k = "and" /\ node.c = <<>> THEN Ok({})
  ELSE IF should_use_recheck_path(node, dir) THEN execute_with_recheck_internal(node, dir)
  ELSE LoadRecords(evaluate_node(node, dir))

----------------------------------------------------------------------------
(* EXPLAIN: the directory whose indexes a leaf is said to use, and which.    *)

PlanSource(fq, dir) ==
  LET above == {d \in virtual_index_ancestor_paths(dir) : field_has_index(d, fq.field)}
  IN  IF ~field_has_index(dir, fq.field) /\ canonical_virtual_field_name(fq.field) /\ above # {}
      THEN CHOOSE d \in above : TRUE ELSE dir

RECURSIVE explain_node(_, _)
explain_node(node, dir) ==
  IF node.k # "field" THEN UNION {explain_node(node.c[i], dir) : i \in DOMAIN node.c}
  ELSE {[q |-> node.q, recheck |-> is_recheck_operation(node.q.op),
         indexes |-> {k[3] : k \in {k \in DOMAIN index : k[1] = PlanSource(node.q, dir) /\ k[2] = node.q.field}}]}

----------------------------------------------------------------------------
(* Bucket masks, kept for pruning an evaluation: a mask is a set of buckets. *)

from_range(start, end) == Lesser(start, Buckets) .. Lesser(end, Buckets) - 1

MaskBucket(ix, value) == Lesser((to_scalar(ix.conv, value) * Buckets) \div Precision, Buckets - 1)

MaskEnd(ix, value) == MaskBucket(ix, value) + 1

field_query_to_mask(ix, fq) ==
  CASE fq.op \in {"eq", "in"} -> {MaskBucket(ix, v) : v \in fq.values}
    [] fq.op = "gt" -> from_range(MaskBucket(ix, fq.lo), Buckets)
    [] fq.op = "lt" -> from_range(0, MaskEnd(ix, fq.hi))
    [] OTHER -> from_range(MaskBucket(ix, fq.lo), MaskEnd(ix, fq.hi))

RECURSIVE evaluate_node_as_mask(_, _)
evaluate_node_as_mask(node, dir) ==
  IF node.k = "field" THEN UNION {field_query_to_mask(ix, node.q) : ix \in load_index(dir, node.q.field)}
  ELSE LET masks == [i \in DOMAIN node.c |-> evaluate_node_as_mask(node.c[i], dir)]
       IN  CASE node.c = <<>> -> {}
             [] node.c # <<>> /\ node.k = "and" -> {b \in masks[1] : \A i \in DOMAIN masks : b \in masks[i]}
             [] node.c # <<>> /\ node.k = "or" -> UNION {masks[i] : i \in DOMAIN masks}
             [] OTHER -> (0 .. Buckets - 1) \ masks[1]

=============================================================================
