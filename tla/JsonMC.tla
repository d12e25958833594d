-------------------------------- MODULE JsonMC -------------------------------
(* Documents, files and command lines for Json.                            *)
EXTENDS Json

MCKeys == {"a", "b", "a.b", "0"}
MCPositions == <<"[0]", "[1]", "[2]", "[3]", "[4]">>
MCSpelling == [k \in MCKeys |-> CASE k = "a" -> <<"a">> [] k = "b" -> <<"b">>
                                  [] k = "a.b" -> <<"a", ".", "b">> [] k = "0" -> <<"0">>]
MCCollation == <<"'1'", "'2'", "'x'", "-", "0", "1", "1.0", "2", "a", "a.b", "b", "null", "true", "x">>
MCNumberOf == ("0" :> 0) @@ ("1" :> 1) @@ ("1.0" :> 1) @@ ("2" :> 2)

One == Leaf("number", "1")
Two == Leaf("number", "2")
Text1 == Leaf("string", "1")
TextX == Leaf("string", "x")
Truth == Leaf("boolean", "true")
Objects_(keys, S) == UNION {{Build("object", f) : f \in [K -> S]} : K \in SUBSET keys}
Arrays_(n, S) == UNION {{ArrayOf(s) : s \in [1 .. m -> S]} : m \in 0 .. n}

(* Documents up to two levels deep, and a few with keys no path can write. *)
Flat == {One, TextX} \cup Objects_({"a"}, {One, TextX}) \cup Arrays_(1, {One, TextX})
Small == Flat \cup {Null} \cup Objects_({"a", "b"}, {One}) \cup Arrays_(2, {One})
Deep == Small \cup Objects_({"a", "b"}, Flat) \cup Arrays_(2, Flat)
Odd == Objects_({"a.b", "0"}, {One, TextX})
       \cup {Build("object", ("a" :> Build("object", "b" :> One)) @@ ("a.b" :> TextX)),
             Build("object", "a" :> Build("array", "[0]" :> Build("object", "0" :> One)))}
Docs_ == Deep \cup Odd
Layers == Flat \cup Objects_({"a", "b"}, Flat) \cup Arrays_(2, {One, TextX})

Good(d) == File(TRUE, "json", <<Record("value", d)>>)
Twice == File(TRUE, "json", <<Record("twice", One)>>)
TwiceToml == File(TRUE, "toml", <<Record("twice", One)>>)
Bad == File(TRUE, "json", <<Record("bad", Null)>>)
Gone == File(FALSE, "json", <<>>)
Lines(ds) == File(TRUE, "none", [i \in DOMAIN ds |-> Record("value", ds[i])])
Unnamed(d) == File(TRUE, "none", <<Record("value", d)>>)
AsFormat(d, ext) == File(TRUE, ext, <<Record("value", d)>>)

(* A command line: what it leaves out has the default.                     *)
Default == [op |-> "", path |-> <<>>, depth |-> NoDepth, sep |-> <<".">>, flag |-> FALSE,
            lines |-> FALSE, format |-> FALSE, limit |-> NoLimit, strict |-> FALSE]
C(op, more) == more @@ [Default EXCEPT !.op = op]
RootPath == <<>>
A == <<".", "a">>
B == <<".", "b">>
AB == <<".", "a", ".", "b">>
A0 == <<".", "a", "[", "0", "]">>
PointA0 == <<"/", "a", "/", "0">>
Broke == <<".", "a", ".", "0">>

S(t, fs, cs) == <<[tool |-> t, files |-> fs, cmds |-> cs]>>
Ones(ds) == {<<Good(d)>> : d \in ds}

Lookups ==
  {C(op, [path |-> e, flag |-> f]) : op \in {"query", "exists", "type", "length"},
                                     e \in {RootPath, A, A0, AB, PointA0, Broke}, f \in {FALSE}}
Flattens == {C(op, [depth |-> n, sep |-> p, flag |-> k]) :
               op \in {"flatten"}, n \in {0, 1, NoDepth}, p \in {<<".">>, <<"/">>}, k \in BOOLEAN}
Types == {"null", "boolean", "number", "string", "array", "object"}
Greps == {C("grep", [mode |-> "keys", pattern |-> {"a", "0"}, types |-> Types]),
          C("grep", [mode |-> "keys", pattern |-> {"b", "a.b"}, types |-> {"object", "array"}]),
          C("grep", [mode |-> "values", pattern |-> ToSet(MCCollation), types |-> Types]),
          C("grep", [mode |-> "values", pattern |-> {"1"}, types |-> {"number"}])}
Selects == {C("select", [fields |-> ("a" :> A) @@ ("b" :> e), flag |-> f]) : e \in {AB, A0, Broke}, f \in BOOLEAN}
Documents_ ==
  Lookups \cup Flattens \cup Greps \cup Selects
  \cup {C("exists", [path |-> A, flag |-> TRUE]), C("paths", <<>>), C("flatten", [sep |-> <<>>])}
  \cup {C("keys", [path |-> e, depth |-> n]) : e \in {RootPath, A, Broke}, n \in {0, 1, 2}}
  \cup {C("schema", [depth |-> n]) : n \in {1, NoDepth}}
JsonOnly == {C("values", [key |-> k]) : k \in {"a", "b"}} \cup {C("size", <<>>), C("format", <<>>)}
DocTrees ==
  S("json", Ones(Docs_), Documents_ \cup JsonOnly)
  \o S("config", Ones(Small), Documents_)
  \o S("json", {<<Good(d), f>> : d \in Small, f \in {Good(One), Good(TextX), Bad, Gone, Twice}}, Documents_)
  \o S("json", {<<Lines(<<d, One, TextX>>)>> : d \in Flat}, {C(op, [lines |-> TRUE, path |-> A]) : op \in {"query", "keys"}})
Diffs == S("json", {<<Good(a), Good(b)>> : a \in Layers, b \in Layers}, {C("diff", <<>>)})
         \o S("config", {<<Good(a), b>> : a \in Small, b \in {Good(One), Bad, Gone, Twice}}, {C("diff", <<>>)})

Merges ==
  S("config", {<<Good(a), Good(b)>> : a \in Layers, b \in Layers},
    {C("merge", [append |-> p, flag |-> l, to |-> "json"]) : p \in BOOLEAN, l \in BOOLEAN})
  \o S("config", {<<AsFormat(a, e), Good(b), Good(c)>> :
                       a \in Flat, b \in Flat, c \in Flat, e \in {"ini", "toml", "none"}},
         {C("merge", [append |-> p, flag |-> TRUE, to |-> t]) : p \in BOOLEAN, t \in {"none", "toml"}})
Converts ==
  S("config", {<<Good(a), b>> : a \in Small, b \in {Good(Null), Good(Build("object", "a" :> Build("object", "b" :> One))), Bad, Unnamed(One)}},
    {C("convert", [to |-> t]) : t \in {"json", "toml", "ini"}})

(* Arrays of records with an id and perhaps a field.                       *)
Fields == {One, Leaf("number", "1.0"), Two, Text1, TextX, Null, Truth}
Rec(i, f) == Build("object", ("a" :> i) @@ f)
Recs(i) == {Rec(i, <<>>)} \cup {Rec(i, "b" :> v) : v \in Fields}
RecArrays == {<<>>} \cup {<<x, y>> : x \in Recs(One), y \in Recs(Two)}
             \cup {<<x, y, z>> : x \in Recs(One), y \in Recs(Two), z \in Recs(TextX)}
Scalars == {<<x, y, z>> : x \in Fields, y \in Fields, z \in Fields}
Where(op, l) == [path |-> B, op |-> op, literal |-> l, regex |-> {"1", "x"}]
ListCommands ==
  {C("take", [take |-> [kind |-> k, n |-> n, end |-> e]]) :
     k \in {"first", "last", "range"}, n \in 0 .. 2, e \in {1, 3}}
  \cup {C("sort", [field |-> B, numeric |-> n, flag |-> r]) : n \in BOOLEAN, r \in BOOLEAN}
  \cup {C("count", [field |-> B]), C("uniq", [path |-> B])}
  \cup {C("table", [columns |-> <<A, B>>, preds |-> {Where(op, l)}]) :
          op \in {"=", "!=", "~", "!~", "<", "<=", ">", ">="}, l \in {One, TextX}}
Mixed ==
  {<<Good(ArrayOf(s))>> : s \in {<<One>>, <<One, Rec(Two, <<>>)>>, <<TextX, Null, ArrayOf(<<>>), One>>, <<Rec(One, <<>>), Two>>}}
  \cup {<<Lines(<<One, TextX, Rec(One, <<>>)>>)>>}
Tablings ==
  {C("table", [columns |-> c, preds |-> p, lines |-> l]) :
     c \in {<<A, Broke>>, <<Broke>>, <<A>>}, p \in {{}, {[Where("!=", One) EXCEPT !.path = Broke]}, {[Where("!=", TextX) EXCEPT !.path = <<>>]}},
     l \in BOOLEAN}
ListFiles == {<<Good(ArrayOf(s))>> : s \in RecArrays}
MoreLists ==
  S("json", {<<Good(ArrayOf(s))>> : s \in Scalars}, {C("uniq", <<>>), C("count", [field |-> <<>>])})
  \o S("json", {<<Good(ArrayOf(<<Rec(One, "b" :> v)>>)), f>> : v \in Fields, f \in {Good(ArrayOf(<<Rec(Two, <<>>)>>)), Good(One), Bad}},
         ListCommands \cup {C("table", [columns |-> <<Broke>>, preds |-> {}])})
  \o S("config", ListFiles, {C("table", [columns |-> <<A, B>>, preds |-> {}])})
  \o S("json", Mixed, Tablings) \o S("config", Mixed, {c \in Tablings : c.preds = {} /\ ~c.lines})
  \o S("json", {<<Lines(s)>> : s \in {t \in RecArrays : Len(t) < 3}}, {C("table", [columns |-> <<A, B>>, preds |-> {}, lines |-> TRUE])})
Lists_ == S("json", ListFiles, ListCommands) \o MoreLists

Checked == {Good(One), Twice, Bad, Gone, Lines(<<One, One>>), Unnamed(One)}
Validations ==
  {C("validate", [lines |-> l, strict |-> s, flag |-> q, limit |-> m, format |-> g]) :
     l \in BOOLEAN, s \in BOOLEAN, q \in BOOLEAN, m \in {NoLimit, 1}, g \in BOOLEAN}
Validates ==
  LET lists == UNION {[1 .. n -> Checked] : n \in 1 .. 3}
  IN  S("json", lists, Validations)
      \o S("config", lists \cup {<<TwiceToml>>, <<Twice, TwiceToml, Good(One)>>}, Validations)

MCScenarios == DocTrees \o Diffs \o Merges \o Converts \o Lists_ \o Validates
=============================================================================
