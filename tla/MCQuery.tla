------------------------------ MODULE MCQuery ------------------------------
(***************************************************************************)
(* Instances of QuerySession: three files, one in the root directory and   *)
(* two in a subdirectory.  Words have four bits, scalars nine steps, the   *)
(* bucket table four buckets, so that values share scalars and scalars     *)
(* share buckets.  Each workload pairs an index configuration with what    *)
(* files hold and what the client asks.                                    *)
(***************************************************************************)
EXTENDS QuerySession

MCFiles == 1 .. 3
MCDirOf == [f \in MCFiles |-> IF f = 1 THEN "/" ELSE "/s"]
MCNameOf == [f \in MCFiles |-> <<1, 2, f>>]

C(n, t, size) == [n |-> n, t |-> t, size |-> size]

leaf == [field |-> "n", op |-> "eq", values |-> {}, lo |-> 0, hi |-> 0, text |-> <<>>, threshold |-> 0, edits |-> "auto"]
Field(q) == [k |-> "field", q |-> q]
EqN(ns) == Field([leaf EXCEPT !.op = "in", !.values = {json_query_value_to_bytes(n) : n \in ns}])
Gt(field, n) == Field([leaf EXCEPT !.field = field, !.op = "gt", !.lo = json_query_value_to_bytes(n)])
Lt(field, n) == Field([leaf EXCEPT !.field = field, !.op = "lt", !.hi = json_query_value_to_bytes(n)])
Between(field, a, b) == Field([leaf EXCEPT !.field = field, !.op = "between", !.lo = a, !.hi = b])
Text(field, op, text) == Field([leaf EXCEPT !.field = field, !.op = op, !.text = text, !.threshold = 40])
And(a, b) == [k |-> "and", c |-> <<a, b>>]
Or(a, b) == [k |-> "or", c |-> <<a, b>>]
Not(a) == [k |-> "not", c |-> <<a>>]

Req(tree, dir, order, limit, via) == [tree |-> tree, dir |-> dir, order |-> order, limit |-> limit, via |-> via]

\* Numbers under one configuration at the root.
Numbered ==
  [writes |-> 2, indexes |-> {<<"/", "n", "u64">>},
   contents |-> {C(<<3>>, <<>>, 1), C(<<6>>, <<>>, 2), C(<<1, 6>>, <<>>, 1), C(<<-2>>, <<>>, 2)},
   requests |-> {Req(EqN({3, 6}), "/", "@path", 1, "http"), Req(Gt("n", 2), "/", "n", 1, "http"),
                 Req(And(Lt("n", 6), Not(EqN({1}))), "/", "@path", 2, "http"),
                 Req(Or(Between("n", 1, 3), Gt("n", 5)), "/", "none", 2, "http"),
                 Req(And(Gt("n", 1), Gt("n", 2)), "/", "@path", 1, "sdk"),
                 Req(Not(Not(Not(EqN({1})))), "/", "@path", 1, "http")}]

\* Sizes by a scan, and a subdirectory with a configuration of its own.
Sized ==
  [writes |-> 2, indexes |-> {<<"/", "n", "i64">>, <<"/s", "n", "u8">>},
   contents |-> {C(<<3>>, <<>>, 1), C(<<6>>, <<>>, 2), C(<<>>, <<>>, 3)},
   requests |-> {Req(Gt("@size", 1), "/", "@path", 1, "http"), Req(Lt("@size", 3), "/s", "@size", 1, "http"),
                 Req(Lt("n", 5), "/s", "@path", 1, "http"), Req(Gt("n", 3), "/", "@path", 2, "http"),
                 Req(Text("@filename", "contains", <<1, 2, 3>>), "/", "@path", 1, "http")}]

\* Sizes by an index at the root.
SizedIndex ==
  [writes |-> 2, indexes |-> {<<"/", "@size", "u64">>, <<"/", "n", "timestamp">>},
   contents |-> {C(<<3>>, <<>>, 1), C(<<6>>, <<>>, 2)},
   requests |-> {Req(Gt("@size", 1), "/s", "@path", 1, "http"), Req(And(Lt("@size", 2), Gt("n", 1)), "/", "@path", 1, "http"),
                 Req(Lt("n", 6), "/", "t", 1, "http")}]

\* Text: ab, abc, bac, "ab c", and abcab in upper case.
Words == {<<1, 2>>, <<1, 2, 3>>, <<2, 1, 3>>, <<1, 2, 0, 3>>, <<5, 6, 7, 5, 6>>}

Texts ==
  [writes |-> 2, indexes |-> {<<"/", "t", "trigram">>, <<"/", "t", "soundex">>},
   contents |-> {C(<<>>, w, 1) : w \in Words},
   requests |-> {Req(Text("t", op, w), "/", "@path", 1, "http") :
                   op \in {"contains", "similar", "phonetic", "fuzzy", "match"}, w \in {<<1, 2>>, <<1, 2, 3>>}}]

\* Pages while files come and go.
Paged ==
  [writes |-> 4, indexes |-> {<<"/", "n", "u64">>}, contents |-> {C(<<3>>, <<>>, 1), C(<<1>>, <<>>, 1)},
   requests |-> {Req(Gt("n", 2), "/", "@path", 1, "http"), Req(Lt("n", 5), "/", "@path", 2, "http")}]

MCSessions == {Numbered, Sized, SizedIndex, Texts, Paged}

MCVocabulary == Words \cup {MCNameOf[f] : f \in MCFiles} \cup {<<1, 2>>, <<1, 2, 3>>}

\* Phonetic codes: of a word, its first letter and its length class.
AllWords == UNION {WordsOf(Lower(w)) : w \in MCVocabulary} \cup MCVocabulary
MCCode == [s \in {"soundex", "dmetaphone"} |->
             [w \in AllWords |-> IF s = "soundex" THEN <<w[1]>> ELSE <<w[1], Len(w)>>]]

=============================================================================
