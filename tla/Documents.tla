------------------------------ MODULE Documents ------------------------------
(* The value layer under the json and config commands: documents, the two  *)
(* syntaxes of paths into them, and the walkers, diff and merge, which     *)
(* print paths or rebuild documents.                                       *)
(*                                                                         *)
(* A document is a prefix-closed function from places (sequences of steps) *)
(* to nodes.  A step is a key of an object or a position in an array; its  *)
(* spelling is the sequence of characters a path writes for it.            *)
EXTENDS Integers, Sequences, FiniteSets, SequencesExt, TLC

CONSTANTS Keys,      \* the keys objects may have
          Positions, \* the sequence of array positions, the first one first
          Spelling   \* the characters of each key

Steps == Keys \cup ToSet(Positions)
Letters == {"a", "b", "c", "_"}
Digits == <<"0", "1", "2", "3", "4">>
Digit == ToSet(Digits)

Node(t, v) == [t |-> t, v |-> v]
Leaf(t, v) == <<>> :> Node(t, v)
Null == Leaf("null", "null")
type_name(d) == d[<<>>].t
IsContainer(d) == type_name(d) \in {"object", "array"}

(* The part of a document at a place, and its children by step.            *)
Part(d, p) == LET below == {q \in DOMAIN d : IsPrefix(p, q)}
              IN  [r \in {SubSeq(q, Len(p) + 1, Len(q)) : q \in below} |-> d[p \o r]]
Children(d) == [s \in {p[1] : p \in DOMAIN d \ {<<>>}} |-> Part(d, <<s>>)]
Build(t, kids) ==
  [p \in {<<>>} \cup UNION {{<<s>> \o q : q \in DOMAIN kids[s]} : s \in DOMAIN kids} |->
     IF p = <<>> THEN Node(t, "") ELSE kids[Head(p)][Tail(p)]]
Size(d) == Cardinality(DOMAIN Children(d))
Leaves(d) == {p \in DOMAIN d : \A q \in DOMAIN d : ~IsStrictPrefix(p, q)}

-----------------------------------------------------------------------------
(* Paths as text.                                                          *)

(* mistake: only the leading style writes the separator.                   *)
build_path_Glued(prefix, segment, sep, leading) ==
  IF ~leading THEN prefix \o segment ELSE prefix \o sep \o segment
(* build_path: a segment after what is there already, the separator left   *)
(* out before the first one unless the style leads with it.                *)
build_path(prefix, segment, sep, leading) ==
  IF prefix = <<>> /\ ~leading THEN segment ELSE prefix \o sep \o segment

Index(s) == CHOOSE i \in DOMAIN Positions : Positions[i] = s
Number(s) == <<Digits[Index(s)]>>
Bracketed(s) == <<"[">> \o Number(s) \o <<"]">>
Spelled(s) == IF s \in Keys THEN Spelling[s] ELSE Bracketed(s)

(* The style of grep, diff and schema (".a[0]"), that of flatten, paths    *)
(* and keys ("a.0"), and that of values, which joins as the second does.   *)
DotPath(p) ==
  FoldLeft(LAMBDA pre, s : IF s \in Keys THEN build_path(pre, Spelling[s], <<".">>, TRUE)
                           ELSE build_path(pre, Bracketed(s), <<>>, TRUE), <<>>, p)
FlatPath(p, sep) ==
  FoldLeft(LAMBDA pre, s : build_path(pre, IF s \in Keys THEN Spelling[s] ELSE Number(s),
                                      sep, FALSE), <<>>, p)

Run(s, from, S) ==
  LET ends == {i \in from .. Len(s) : s[i] \notin S}
  IN  (IF ends = {} THEN Len(s) + 1 ELSE CHOOSE i \in ends : \A j \in ends : i <= j) - 1

(* parse_dot_path: the segments, each as it is spelled, or nothing for     *)
(* text outside the grammar.  Dots are skipped wherever they stand.        *)
Malformed == <<"malformed">>
RECURSIVE Segments(_, _)
Segments(s, i) ==
  CASE i > Len(s) -> <<>>
    [] i <= Len(s) /\ s[i] = "." -> Segments(s, i + 1)
    [] i <= Len(s) /\ s[i] = "[" ->
         LET j == Run(s, i + 1, Digit)
         IN  IF j = i \/ j = Len(s) \/ s[j + 1] /= "]" THEN <<Malformed>>
             ELSE <<SubSeq(s, i, j + 1)>> \o Segments(s, j + 2)
    [] i <= Len(s) /\ s[i] \in Letters ->
         LET j == Run(s, i, Letters \cup Digit) IN <<SubSeq(s, i, j)>> \o Segments(s, j + 1)
    [] OTHER -> <<Malformed>>
parse_dot_path(s) == Segments(s, 1)

RECURSIVE Pointed(_, _)
(* Value::pointer: the tokens between slashes, a number naming a position  *)
(* where the value is an array and a key where it is an object.            *)
Pointed(d, s) ==
  IF s = <<>> THEN {<<>>}
  ELSE LET j == Run(s, 2, Letters \cup Digit \cup {".", "[", "]", "-"})
           token == SubSeq(s, 2, j)
           named == {k \in DOMAIN Children(d) : token = IF k \in Keys THEN Spelling[k] ELSE Number(k)}
       IN  UNION {{<<k>> \o p : p \in Pointed(Part(d, <<k>>), SubSeq(s, j + 1, Len(s)))} : k \in named}

(* resolve_path, resolve_expression: the place an expression names in a    *)
(* document, if there is one; and whether the expression can be parsed.    *)
resolve_path(d, segs) ==
  {p \in DOMAIN d : Len(p) = Len(segs) /\ \A i \in DOMAIN p : Spelled(p[i]) = segs[i]}
IsPointer(e) == e = <<>> \/ e[1] = "/"
resolve_expression(d, e) ==
  IF IsPointer(e) THEN Pointed(d, e) ELSE resolve_path(d, parse_dot_path(e))
parses(e) == IsPointer(e) \/ Malformed \notin ToSet(parse_dot_path(e))

-----------------------------------------------------------------------------
(* The walkers.  A row is a path and what is shown beside it; max_depth    *)
(* is a number of steps, none for no bound.                                *)

NoDepth == 99
format_grep_path(path) == IF path = <<>> THEN <<"(root)">> ELSE path
Row(n, path, kind, old, new) == [n |-> n, path |-> path, kind |-> kind, old |-> old, new |-> new]
Shown(n, path, d) == Row(n, path, "=", Null, d)

(* collect_keys goes through objects only; a depth of 0 lists as 1 does.   *)
collect_keys(n, d, depth) ==
  {Shown(n, FlatPath(p, <<".">>), Part(d, p)) :
     p \in {q \in DOMAIN d \ {<<>>} : ToSet(q) \subseteq Keys /\ (Len(q) = 1 \/ Len(q) <= depth)}}

(* flatten_value ends at a scalar, an empty container, the depth, and at   *)
(* an array when arrays are skipped.  Of two places with one text the map  *)
(* keeps the later one's value (Before is the order of the walk).          *)
Ends(d, p, depth, skip) ==
  p \in Leaves(d) \/ Len(p) >= depth \/ (skip /\ d[p].t = "array")
Reached(d, depth, skip) ==
  {p \in DOMAIN d : Ends(d, p, depth, skip)
                    /\ \A q \in DOMAIN d : IsStrictPrefix(q, p) => ~Ends(d, q, depth, skip)}
flatten_value(n, d, sep, depth, skip, Before(_, _)) ==
  LET at == Reached(d, depth, skip)
  IN  {Shown(n, FlatPath(p, sep), Part(d, p)) :
         p \in {q \in at : \A r \in at : FlatPath(r, sep) = FlatPath(q, sep) => ~Before(q, r)}}

(* collect_schema: under each path, its positions merged into "[]", the    *)
(* types found there.                                                      *)
SchemaPath(p) ==
  FoldLeft(LAMBDA pre, s : IF s \in Keys THEN build_path(pre, Spelling[s], <<".">>, TRUE)
                           ELSE build_path(pre, <<"[", "]">>, <<>>, TRUE), <<>>, p)
collect_schema(d, depth) ==
  LET at == {p \in DOMAIN d : Len(p) <= depth}
  IN  [path \in {SchemaPath(p) : p \in at} |-> {d[p].t : p \in {q \in at : SchemaPath(q) = path}}]

(* grep: the objects' entries by their key, or the scalars by their text.  *)
grep(n, d, mode, pattern, types) ==
  {Shown(n, format_grep_path(DotPath(p)), Part(d, p)) :
     p \in {q \in DOMAIN d :
              /\ d[q].t \in types
              /\ CASE mode = "keys" -> q /= <<>> /\ Last(q) \in pattern \cap Keys
                   [] mode = "values" -> d[q].t \notin {"object", "array"} /\ d[q].v \in pattern}}

(* values: every entry under one key, at any depth.                        *)
collect(n, d, key) ==
  {Shown(n, FlatPath(p, <<".">>), Part(d, p)) :
     p \in {q \in DOMAIN d \ {<<>>} : Last(q) = key}}

-----------------------------------------------------------------------------
(* diff and merge.                                                         *)

(* mistake: only the older document's children are gone through.           *)
RECURSIVE diff_walk_OneSided(_, _, _)
diff_walk_OneSided(a, b, p) ==
  IF type_name(a) = type_name(b) /\ IsContainer(a)
  THEN UNION {IF s \notin DOMAIN Children(b)
              THEN {Row(1, DotPath(p \o <<s>>), "-", Children(a)[s], Null)}
              ELSE diff_walk_OneSided(Children(a)[s], Children(b)[s], p \o <<s>>)
                : s \in DOMAIN Children(a)}
  ELSE IF a /= b THEN {Row(1, format_grep_path(DotPath(p)), "~", a, b)} ELSE {}
(* diff_walk: two objects or two arrays are compared child by child,       *)
(* anything else whole.                                                    *)
RECURSIVE diff_walk(_, _, _)
diff_walk(a, b, p) ==
  IF type_name(a) = type_name(b) /\ IsContainer(a)
  THEN LET ka == Children(a)
           kb == Children(b)
       IN  UNION {IF s \notin DOMAIN kb THEN {Row(1, DotPath(p \o <<s>>), "-", ka[s], Null)}
                  ELSE IF s \notin DOMAIN ka THEN {Row(1, DotPath(p \o <<s>>), "+", Null, kb[s])}
                  ELSE diff_walk(ka[s], kb[s], p \o <<s>>)
                    : s \in DOMAIN ka \cup DOMAIN kb}
  ELSE IF a /= b THEN {Row(1, format_grep_path(DotPath(p)), "~", a, b)} ELSE {}
diff(a, b) == diff_walk(a, b, <<>>)

(* merge_at: the overlay wins where both have a value; objects are merged  *)
(* key by key; arrays are replaced or put one behind the other; a          *)
(* container against anything else is an error unless lenient.             *)
Broken == Leaf("error", "")
Behind(ka, kb) ==
  LET n == Cardinality(DOMAIN ka)
      at(i) == Positions[i]
  IN  [s \in {at(i) : i \in 1 .. n + Cardinality(DOMAIN kb)} |->
         IF Index(s) <= n THEN ka[s] ELSE kb[at(Index(s) - n)]]
RECURSIVE merge_at(_, _, _, _)
merge_at(b, o, append, lenient) ==
  LET kb == Children(b)
      ko == Children(o)
  IN  CASE type_name(b) = "object" /\ type_name(o) = "object" ->
             LET kids == [k \in DOMAIN kb \cup DOMAIN ko |->
                            IF k \notin DOMAIN ko THEN kb[k]
                            ELSE IF k \notin DOMAIN kb THEN ko[k]
                            ELSE merge_at(kb[k], ko[k], append, lenient)]
             IN  IF \E k \in DOMAIN kids : kids[k] = Broken THEN Broken ELSE Build("object", kids)
        [] type_name(b) = "array" /\ type_name(o) = "array" ->
             IF append THEN Build("array", Behind(kb, ko)) ELSE o
        [] ~IsContainer(b) /\ ~IsContainer(o) -> o
        [] OTHER -> IF lenient THEN o ELSE Broken
merge_all(base, overlays, append, lenient) ==
  FoldLeft(LAMBDA acc, o : IF acc = Broken THEN Broken ELSE merge_at(acc, o, append, lenient),
           base, overlays)
=============================================================================
