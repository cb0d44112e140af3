----------------------------- MODULE FieldIndex -----------------------------
(***************************************************************************)
(* One field index of aeordb (engine/index_store.rs): entries sorted by a  *)
(* scalar, the raw values they came from, and a bucket table (the NVT) by  *)
(* which a lookup finds the slice of the entries it has to read.           *)
(*                                                                         *)
(* A number is stored as an eight byte big-endian word: here a word of     *)
(* WordBits bits.  A scalar is an f64 in [0,1]: here a fixed-point number  *)
(* 0 .. Precision, coarser than the words, because in the code distinct    *)
(* words share an f64 too.  Text is a sequence of characters: 0 stands for *)
(* every character that is not alphanumeric, 1 .. Letters for the lower    *)
(* case letters, Letters+1 .. 2*Letters for the upper case ones.           *)
(***************************************************************************)
EXTENDS Integers, FiniteSets, SequencesExt

CONSTANTS WordBits,      \* bits of a stored number (64)
          Buckets,       \* DEFAULT_NVT_BUCKET_COUNT
          Precision,     \* number of steps between scalar 0.0 and scalar 1.0
          Letters,       \* size of the alphabet
          Vocabulary,    \* the texts of the instance: values, names, query strings
          Code           \* Code[strategy][word]: the phonetic code of a word

ASSUME IndexConstants ==
  /\ {WordBits, Buckets, Precision, Letters} \subseteq Nat \ {0}
  /\ Precision >= Buckets

Lesser(a, b) == IF a < b THEN a ELSE b
Greater(a, b) == IF a > b THEN a ELSE b

----------------------------------------------------------------------------
(* Numbers and their bytes.                                                 *)

Signed(word) == IF word >= 2^(WordBits - 1) THEN word - 2^WordBits ELSE word

\* Integers, negative ones in two's complement; a query literal and a stored
\* field go through the same conversion.
json_value_to_bytes(number) == number % 2^WordBits
json_query_value_to_bytes(number) == number % 2^WordBits

----------------------------------------------------------------------------
(* Text: words, trigrams, edit distance (engine/fuzzy.rs).                  *)

Lower(text) == [i \in DOMAIN text |-> IF text[i] > Letters THEN text[i] - Letters ELSE text[i]]

\* The maximal runs of letters of a text.
WordsOf(text) ==
  {SubSeq(text, i, j) : <<i, j>> \in
     {<<i, j>> \in (1 .. Len(text)) \X (1 .. Len(text)) :
        /\ i <= j
        /\ \A k \in i .. j : text[k] # 0
        /\ i = 1 \/ text[i - 1] = 0
        /\ j = Len(text) \/ text[j + 1] = 0}}

\* Each word is padded with two spaces before it and one after it.
extract_trigrams == [text \in Vocabulary |->
  UNION {LET padded == <<0, 0>> \o word \o <<0>>
         IN  {SubSeq(padded, i, i + 2) : i \in 1 .. Len(padded) - 2} :
         word \in WordsOf(Lower(text))}]

\* The Dice coefficient of the two sets of trigrams, in percent.
trigram_similarity == [a \in Vocabulary, b \in Vocabulary |->
  LET A == extract_trigrams[a]
      B == extract_trigrams[b]
  IN  IF A = {} /\ B = {} THEN 0
      ELSE (200 * Cardinality(A \cap B)) \div (Cardinality(A) + Cardinality(B))]

auto_fuzziness(len) == IF len <= 2 THEN 0 ELSE IF len <= 5 THEN 1 ELSE 2

\* Optimal string alignment: insertions, deletions, substitutions and
\* transpositions of neighbours.
damerau_levenshtein == [a \in Vocabulary, b \in Vocabulary |->
  LET cost(i, j) == IF a[i] = b[j] THEN 0 ELSE 1
      dp[i \in 0 .. Len(a), j \in 0 .. Len(b)] ==
        IF i = 0 THEN j
        ELSE IF j = 0 THEN i
        ELSE Lesser(Lesser(Lesser(dp[i - 1, j], dp[i, j - 1]) + 1, dp[i - 1, j - 1] + cost(i, j)),
                    IF i > 1 /\ j > 1 /\ a[i] = b[j - 1] /\ a[i - 1] = b[j] THEN dp[i - 2, j - 2] + 1 ELSE i + j)
  IN  dp[Len(a), Len(b)]]

IsSubstring(part, text) ==
  \E i \in 0 .. Len(text) - Len(part) : SubSeq(text, i + 1, i + Len(part)) = part

----------------------------------------------------------------------------
(* Scalar converters (engine/scalar_converter.rs).  A converter is a record  *)
(* [tag, bits, min, max]; bits is the width it reads from the front of the   *)
(* bytes, min and max its configured range.                                  *)

UnsignedTags == {"u8", "u64"}
SignedTags == {"i64", "timestamp"}
NumericTags == UnsignedTags \cup SignedTags
PhoneticTags == {"soundex", "dmetaphone"}
TokenTags == {"trigram"} \cup PhoneticTags
Tags == NumericTags \cup TokenTags \cup {"string"}

is_order_preserving(c) == c.tag \in NumericTags

\* The codes of the words of a text; a word without a code gives none.
phonetic_codes == [s \in PhoneticTags, text \in Vocabulary |->
  {Code[s][word] : word \in WordsOf(Lower(text))} \ {<<>>}]

Tokens == UNION {extract_trigrams[t] \cup UNION {phonetic_codes[s, t] : s \in PhoneticTags} : t \in Vocabulary}

\* blake3 of a token, as a scalar: any function, collisions included.
HashScalar == [token \in Tokens |->
  LET hash[i \in 0 .. Len(token)] == IF i = 0 THEN 1 ELSE (hash[i - 1] * 7 + (token[i] + 1) * 101) % 1009
  IN  (((hash[Len(token)] * 613) % 1009) * Precision) \div 1009]

\* The big-endian integer in the first bits of the word.
Leading(c, word) == word \div 2^(WordBits - c.bits)

to_scalar_unsigned(c, word) ==
  IF c.min = c.max THEN Precision \div 2
  ELSE (Greater(Leading(c, word) - c.min, 0) * Precision) \div (c.max - c.min)

to_scalar_signed(c, word) ==
  IF c.min = c.max THEN Precision \div 2
  ELSE Greater(0, Lesser(Precision, ((Signed(word) - c.min) * Precision) \div (c.max - c.min)))

\* The first character weighs 0.7, the length 0.3.
to_scalar_string(c, text) ==
  IF text = <<>> THEN 0
  ELSE (text[1] * 7 * Precision) \div (20 * Letters) + (Lesser(Len(text), c.max) * 3 * Precision) \div (10 * c.max)

to_scalar(c, value) ==
  CASE c.tag \in UnsignedTags -> to_scalar_unsigned(c, value)
    [] c.tag \in SignedTags -> to_scalar_signed(c, value)
    [] c.tag = "string" -> to_scalar_string(c, value)
    [] OTHER -> HashScalar[value]

\* One entry per value; per trigram of it; per phonetic code of its words.
expand_value(c, value) ==
  CASE c.tag = "trigram" -> extract_trigrams[value]
    [] c.tag \in PhoneticTags -> phonetic_codes[c.tag, value]
    [] OTHER -> {value}

\* PathIndexConfig -> converter: an absent bound is the type's own.
create_converter_from_config(tag, bits) ==
  [tag |-> tag, bits |-> bits,
   min |-> IF tag = "i64" THEN -(2^(WordBits - 1)) ELSE 0,
   max |-> CASE tag \in UnsignedTags -> 2^bits - 1
             [] tag \in SignedTags -> 2^(WordBits - 1) - 1
             [] OTHER -> 4]

----------------------------------------------------------------------------
(* FieldIndex: [conv, entries, values].  The code keeps the entries in a     *)
(* vector sorted by scalar; here they are a set, which Sorted puts in order. *)
(* Two equal entries of one file cannot be told apart by any lookup.  The    *)
(* bucket table is rebuilt whenever an index is loaded, so it is no state.   *)

NewIndex(conv) == [conv |-> conv, entries |-> {}, values |-> <<>>]

insert_expanded(ix, value, file) ==
  [ix EXCEPT !.values = [f \in DOMAIN @ \cup {file} |-> IF f = file THEN value ELSE @[f]],
             !.entries = @ \cup {[scalar |-> to_scalar(ix.conv, token), file |-> file] : token \in expand_value(ix.conv, value)}]

remove(ix, file) ==
  [ix EXCEPT !.values = [f \in DOMAIN @ \ {file} |-> @[f]], !.entries = {e \in @ : e.file # file}]

\* The scalar 1.0, and one above a configured range, fall in the last bucket.
scalar_to_bucket(scalar) == Lesser((scalar * Buckets) \div Precision, Buckets - 1)

\* The table over the sorted vector: where the entries of a bucket start
\* (counting from 0) and how many they are.
StartFirst(mine) == (CHOOSE i \in mine : \A j \in mine : i <= j) - 1

rebuild_nvt(entries) ==
  [b \in 0 .. Buckets - 1 |->
     LET mine == {i \in DOMAIN entries : scalar_to_bucket(entries[i].scalar) = b}
     IN  [start |-> IF mine = {} THEN 0 ELSE StartFirst(mine), count |-> Cardinality(mine)]]

Sorted(entries) ==
  LET Before(d, e) == d.scalar < e.scalar \/ (d.scalar = e.scalar /\ d.file < e.file)
  IN  [i \in 1 .. Cardinality(entries) |->
         CHOOSE e \in entries : Cardinality({d \in entries : Before(d, e)}) = i - 1]

\* The run of the sorted vector that the table gives for a bucket.
BucketRun(entries, b) ==
  LET sorted == Sorted(entries)
      nvt == rebuild_nvt(sorted)
  IN  {sorted[i] : i \in nvt[b].start + 1 .. Lesser(nvt[b].start + nvt[b].count, Len(sorted))}

\* serialize then deserialize_v0: the converter, the entries and the values
\* survive, the bucket table is rebuilt from the entries.
deep_clone(ix) == [conv |-> ix.conv, entries |-> ix.entries, values |-> ix.values]

supports_scalar_exact_lookup(ix) == ix.conv.tag \notin TokenTags

\* The entries of buckets first .. last, each bucket's run being its entries.
Slice(ix, first, last) ==
  {e \in ix.entries : scalar_to_bucket(e.scalar) \in first .. Lesser(last, Buckets - 1)}

\* A byte comparison of the stored value, the scalar for an entry without one.
Passes(ix, entry, onValue(_), onScalar(_)) ==
  IF entry.file \in DOMAIN ix.values THEN onValue(ix.values[entry.file]) ELSE onScalar(entry.scalar)

lookup_exact(ix, value) ==
  LET target == to_scalar(ix.conv, value)
      bucket == scalar_to_bucket(target)
  IN  {e.file : e \in {e \in Slice(ix, bucket, bucket) :
                         e.scalar = target /\ Passes(ix, e, LAMBDA v : v = value, LAMBDA s : TRUE)}}

lookup_range(ix, min_value, max_value) ==
  LET min_scalar == to_scalar(ix.conv, min_value)
      max_scalar == to_scalar(ix.conv, max_value)
  IN  {e.file : e \in {e \in Slice(ix, scalar_to_bucket(min_scalar), scalar_to_bucket(max_scalar)) :
                         Passes(ix, e, LAMBDA v : v >= min_value /\ v <= max_value,
                                       LAMBDA s : s >= min_scalar /\ s <= max_scalar)}}

lookup_gt(ix, value) ==
  LET target == to_scalar(ix.conv, value)
  IN  {e.file : e \in {e \in Slice(ix, scalar_to_bucket(target), Buckets - 1) :
                         Passes(ix, e, LAMBDA v : v > value, LAMBDA s : s > target)}}

lookup_lt_below(ix, value) ==
  LET target == to_scalar(ix.conv, value)
  IN  {e.file : e \in {e \in Slice(ix, 0, scalar_to_bucket(target) - 1) :
                         Passes(ix, e, LAMBDA v : v < value, LAMBDA s : s < target)}}
lookup_lt(ix, value) ==
  LET target == to_scalar(ix.conv, value)
  IN  {e.file : e \in {e \in Slice(ix, 0, scalar_to_bucket(target)) :
                         Passes(ix, e, LAMBDA v : v < value, LAMBDA s : s < target)}}

lookup_by_scalar(ix, scalar) ==
  LET bucket == scalar_to_bucket(scalar)
  IN  {e.file : e \in {e \in Slice(ix, bucket, bucket) : e.scalar = scalar}}

lookup_stored_values_exact(ix, values) ==
  {f \in DOMAIN ix.values : ix.values[f] \in values}

=============================================================================
