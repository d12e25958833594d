--------------------------------- MODULE Json --------------------------------
(* The json and config commands: each reads all its inputs, computes, and  *)
(* prints.  The two differ in how a file is read and in a few commands of  *)
(* their own.                                                              *)
EXTENDS Lists

CONSTANTS Scenarios  \* a sequence of choices: [tool, files, cmds], the last two sets

VARIABLES
  tool,     \* "json" or "config"
  files,    \* the files named, in order
  cmd,      \* the command line
  pc,       \* "start" or "ended"
  printed,  \* the lines on standard output
  code      \* the exit code

vars == <<tool, files, cmd, pc, printed, code>>

(* A record of a file: its text is a value, a value with a key twice (the  *)
(* later one counts), or neither.  A file's name tells its format, or      *)
(* "none", and needs --format, which names the format the file is in.      *)
Record(text, doc) == [text |-> text, doc |-> doc]
File(readable, ext, records) == [readable |-> readable, ext |-> ext, records |-> records]

Nothing == {}
NoLimit == 99
Found == 0
NotFound == 1
Error == 2

-----------------------------------------------------------------------------
(* Reading.  Without --lines a file is one value, with it one value in each *)
(* line.  Whatever is unreadable or malformed fails the command before it  *)
(* prints.                                                                 *)
ValidRecord(r, strict) == r.text = "value" \/ (r.text = "twice" /\ ~strict)
ReadJson(f, lines) ==
  f.readable /\ (lines \/ Len(f.records) = 1) /\ \A r \in ToSet(f.records) : ValidRecord(r, FALSE)
detect_format(f) == f.ext /= "none" \/ cmd.format
(* parse_one: of the parsers, that of TOML alone refuses a key twice.      *)
ReadConfig(f) ==
  detect_format(f) /\ f.readable /\ Len(f.records) = 1 /\ ValidRecord(f.records[1], f.ext = "toml")
Readable ==
  \A f \in ToSet(files) : IF tool = "json" THEN ReadJson(f, cmd.lines) ELSE ReadConfig(f)
inputs == FlattenSeq([i \in DOMAIN files |-> [j \in DOMAIN files[i].records |-> files[i].records[j].doc]])

Is(t, op) == pc = "start" /\ tool = t /\ cmd.op = op
End(rows, c) ==
  /\ pc' = "ended" /\ printed' = rows /\ code' = c
  /\ UNCHANGED <<tool, files, cmd>>
Exit(found) == IF found THEN Found ELSE NotFound
(* Most commands: exit 1 when there was nothing to print.                  *)
Answer(ok, rows, found) ==
  IF Readable /\ ok THEN End(rows, Exit(found)) ELSE End(Nothing, Error)
Listing(ok, rows) == Answer(ok, rows, rows /= Nothing)

Docs == DOMAIN inputs
PathOk(e) == inputs = <<>> \/ parses(e)
Target(i, e) == {p \in DOMAIN inputs[i] : p \in resolve_expression(inputs[i], e)}
Targets(e) == UNION {{<<i, p>> : p \in Target(i, e)} : i \in Docs}
At(t) == Part(inputs[t[1]], t[2])

-----------------------------------------------------------------------------
(* The commands on documents.                                              *)

QueryRows(e) == {Shown(t[1], e, At(t)) : t \in Targets(e)}
Query == Listing(PathOk(cmd.path), QueryRows(cmd.path))

Present == {i \in Docs : Target(i, cmd.path) /= {}}
Exists == Answer(PathOk(cmd.path), Nothing, IF cmd.flag THEN Present /= {} ELSE Present = Docs)

(* keys and length, type: an input without the path is passed over.        *)
Objects == {t \in Targets(cmd.path) : type_name(At(t)) = "object"}
ListKeys == Answer(PathOk(cmd.path), UNION {collect_keys(t[1], At(t), cmd.depth) : t \in Objects},
                   Objects /= {})
Type == Listing(PathOk(cmd.path),
                {Shown(t[1], cmd.path, Leaf("string", type_name(At(t)))) : t \in Targets(cmd.path)})

(* length fails at the first value without one, after the lines of the     *)
(* inputs before.                                                          *)
HasLength(d) == type_name(d) \in {"array", "object", "string"}
value_length(d) == ToString(IF IsContainer(d) THEN Size(d) ELSE Len(Text(d)))
Length ==
  LET targets == Targets(cmd.path)
      bad == {t \in targets : ~HasLength(At(t))}
      before == {t \in targets : \A u \in bad : t[1] < u[1]}
      rows == {Shown(t[1], cmd.path, Leaf("number", value_length(At(t)))) : t \in before}
  IN  IF Readable /\ PathOk(cmd.path) /\ bad /= {} THEN End(rows, Error)
      ELSE Answer(PathOk(cmd.path), rows, targets /= {})

(* Within one object the map goes by the bytes of the keys, within an      *)
(* array by position.                                                      *)
KeyText == [k \in Keys |-> FoldLeft(LAMBDA t, c : t \o c, "", Spelling[k])]
Precedes(p, q) ==
  \E i \in 1 .. Least(Len(p), Len(q)) :
    /\ SubSeq(p, 1, i - 1) = SubSeq(q, 1, i - 1) /\ p[i] /= q[i]
    /\ IF p[i] \in Keys /\ q[i] \in Keys THEN Collated(KeyText[p[i]]) < Collated(KeyText[q[i]])
       ELSE Index(p[i]) < Index(q[i])
Flattened == UNION {flatten_value(i, inputs[i], cmd.sep, cmd.depth, cmd.flag, Precedes) : i \in Docs}
Flatten == Listing(cmd.sep /= <<>>, Flattened)
(* paths: the same without the values.                                     *)
Paths == Listing(cmd.sep /= <<>>, {[r EXCEPT !.kind = "path"] : r \in Flattened})

Grepped == UNION {grep(i, inputs[i], cmd.mode, cmd.pattern, cmd.types) : i \in Docs}
GrepJson == Listing(TRUE, Grepped)

SchemaRows(i) ==
  LET schema == collect_schema(inputs[i], cmd.depth)
  IN  {Row(i, format_grep_path(path), "types", Null, Leaf("types", ToString(schema[path]))) : path \in DOMAIN schema}
Schema == Answer(TRUE, UNION {SchemaRows(i) : i \in Docs}, TRUE)

(* select: one object for each input that has one of the fields; each      *)
(* field is a key to print it under and a path.                            *)
project(d, fields, null_missing) ==
  LET given == {k \in DOMAIN fields : null_missing \/ Resolved(d, fields[k]) /= {}}
  IN  Build("object", [k \in given |-> IF Resolved(d, fields[k]) = {} THEN Null
                                       ELSE Single(Resolved(d, fields[k]))])
Selected == {i \in Docs : /\ type_name(inputs[i]) = "object"
                          /\ cmd.flag \/ Size(project(inputs[i], cmd.fields, FALSE)) > 0}
Projects == \E i \in Docs : type_name(inputs[i]) = "object"
Select == Listing(Projects => \A k \in DOMAIN cmd.fields : parses(cmd.fields[k]),
                  {Shown(i, <<>>, project(inputs[i], cmd.fields, cmd.flag)) : i \in Selected})

Collected == UNION {collect(i, inputs[i], cmd.key) : i \in Docs}
Values == Listing(TRUE, Collected)

(* size: the depth, the scalars, the longest array and the keys.           *)
Most(S) == CHOOSE n \in S : \A m \in S : m <= n
stats_of(d) ==
  <<Most({Len(p) + (IF d[p].t \in {"object", "array"} THEN 1 ELSE 0) : p \in DOMAIN d}),
    Cardinality({p \in DOMAIN d : d[p].t \notin {"object", "array"}}),
    Most({0} \cup {Size(Part(d, p)) : p \in {q \in DOMAIN d : d[q].t = "array"}}),
    Cardinality({p \in DOMAIN d \ {<<>>} : Last(p) \in Keys})>>
SizeRows == {Row(i, <<>>, "size", Null, Leaf("size", ToString(stats_of(inputs[i])))) : i \in Docs}
SizeOf == Listing(TRUE, SizeRows)

(* minify and pretty print every value whole.                              *)
Format == Answer(TRUE, {Shown(i, <<>>, inputs[i]) : i \in Docs}, TRUE)

(* diff exits with 0 when it has nothing to print.                         *)
Compared(rows) == Answer(TRUE, rows, rows = {})
Diff == Compared(diff(inputs[1], inputs[2]))

(* validate goes on after a bad file, and ends when the next line would be *)
(* one too many; json has opened every file by then.                       *)
validate_one(f) ==
  IF tool = "config" THEN ReadConfig(f)
  ELSE /\ f.readable
       /\ (cmd.lines \/ Len(f.records) = 1)
       /\ \A r \in ToSet(f.records) : ValidRecord(r, cmd.strict)
Validate ==
  LET good == {i \in DOMAIN files : validate_one(files[i])}
      rank(i) == Cardinality({j \in good : j <= i})
      stops == {i \in good : ~cmd.flag /\ rank(i) > cmd.limit}
      seen == {i \in DOMAIN files : \A j \in stops : i < j}
  IN  End({Row(i, <<>>, "valid", Null, Null) : i \in {j \in seen \cap good : ~cmd.flag}},
          Exit(/\ seen \subseteq good
               /\ tool = "json" => \A f \in ToSet(files) : f.readable))

-----------------------------------------------------------------------------
(* The commands on the elements of an array.                               *)

Whole(s) == {Shown(1, <<>>, ArrayOf(s))}
Take == LET s == collect_elements(inputs, cmd.path)
        IN  Answer(s /= Lost, Whole(apply_take(s, cmd.take)), TRUE)

Sort == LET s == collect_elements(inputs, cmd.path)
            ok == s /= Lost /\ (s = <<>> \/ PathOk(cmd.field))
        IN  Answer(ok, Whole(sort_by_key(s, cmd.field, cmd.numeric, cmd.flag)), TRUE)

Uniq == LET s == collect_path_values(inputs, cmd.path)
        IN  Answer(s /= Lost, IF s = <<>> THEN Nothing ELSE Whole(distinct_sorted(s)), s /= <<>>)

CountRow(t, n) == Row(1, <<>>, "count", Leaf("string", t), Leaf("number", ToString(n)))
Count ==
  LET s == collect_path_values(inputs, cmd.path)
      ok == s /= Lost /\ (s = <<>> \/ PathOk(cmd.field))
      counts == tally(s, cmd.field)
  IN  Answer(ok, {CountRow(t, counts[t]) : t \in DOMAIN counts}, DOMAIN counts /= {})

(* table: a row of cells for each element the predicates keep; with        *)
(* --lines the value of each line is the element.                          *)
TableElements ==
  IF ~cmd.lines THEN collect_elements(inputs, cmd.path)
  ELSE IF \E i \in Docs : Resolved(inputs[i], cmd.path) = {} THEN Lost
       ELSE [i \in Docs |-> Single(Resolved(inputs[i], cmd.path))]
TableRows(s) ==
  {Row(i, <<>>, "cells", s[i], Leaf("cells", ToString(project_row(s[i], cmd.columns)))) :
     i \in DOMAIN s}
(* --where is parsed with the command line, a column when a row needs it:  *)
(* json has printed the rows before by then, config has printed none.      *)
Table ==
  LET s == TableElements
      ok == s /= Lost /\ \A pred \in cmd.preds : parses(pred.path)
      kept == filter_elements(s, cmd.preds)
      fails == {i \in DOMAIN kept : project_row(kept[i], cmd.columns) = NoRow}
      done == SubSeq(kept, 1, CHOOSE n \in 0 .. Len(kept) : n + 1 \in fails /\ \A i \in fails : n < i)
  IN  IF Readable /\ ok /\ fails /= {} THEN End(IF tool = "json" THEN TableRows(done) ELSE Nothing, Error)
      ELSE Answer(ok, TableRows(kept), kept /= <<>>)

-----------------------------------------------------------------------------
(* The commands config has of its own.                                     *)

(* emit: TOML has tables at its root and no null, INI two levels of        *)
(* scalars, which come out as text.                                        *)
Representable(to, d) ==
  CASE to = "toml" -> type_name(d) = "object" /\ \A p \in DOMAIN d : d[p].t /= "null"
    [] to = "ini" -> \A p \in DOMAIN d :
                       IF Len(p) < 2 THEN d[p].t = "object"
                       ELSE Len(p) = 2 /\ d[p].t \in {"string", "number", "boolean"}
    [] OTHER -> TRUE
Written(to, d) ==
  [p \in DOMAIN d |-> IF to = "ini" /\ Len(p) = 2 THEN Node("string", d[p].v) ELSE d[p]]

(* convert writes one file's document before it reads the next file.       *)
Convert ==
  LET fails == {i \in DOMAIN files : ~ReadConfig(files[i])
                                     \/ ~Representable(cmd.to, files[i].records[1].doc)}
      done == {i \in DOMAIN files : \A j \in fails : i < j}
  IN  End({Shown(i, <<>>, Written(cmd.to, files[i].records[1].doc)) : i \in done},
          IF fails = {} THEN Found ELSE Error)

(* merge writes the format of the base file unless it is given one.        *)
Merge ==
  LET merged == merge_all(inputs[1], Tail(inputs), cmd.append, cmd.flag)
      to == IF cmd.to = "none" THEN files[1].ext ELSE cmd.to
  IN  Answer(/\ merged /= Broken /\ to /= "none"
             /\ Representable(to, merged),
             {Shown(1, <<>>, Written(to, merged))}, TRUE)

ConfigQuery == Is("config", "query") /\ Query
ConfigExists == Is("config", "exists") /\ Exists
ConfigKeys == Is("config", "keys") /\ ListKeys
ConfigType == Is("config", "type") /\ Type
ConfigLength == Is("config", "length") /\ Length
ConfigFlatten == Is("config", "flatten") /\ Flatten
ConfigPaths == Is("config", "paths") /\ Paths
ConfigGrep == Is("config", "grep") /\ GrepJson
ConfigSchema == Is("config", "schema") /\ Schema
ConfigSelect == Is("config", "select") /\ Select
ConfigTable == Is("config", "table") /\ Table
ConfigDiff == Is("config", "diff") /\ Diff
ConfigValidate == Is("config", "validate") /\ Validate

Init == /\ \E i \in DOMAIN Scenarios :
             /\ tool = Scenarios[i].tool
             /\ files \in Scenarios[i].files /\ cmd \in Scenarios[i].cmds
        /\ pc = "start" /\ printed = Nothing /\ code = Found

JsonCommand ==
  \/ (Is("json", "query") /\ Query)
  \/ (Is("json", "exists") /\ Exists)
  \/ (Is("json", "keys") /\ ListKeys)
  \/ (Is("json", "type") /\ Type)
  \/ (Is("json", "length") /\ Length)
  \/ (Is("json", "flatten") /\ Flatten)
  \/ (Is("json", "paths") /\ Paths)
  \/ (Is("json", "grep") /\ GrepJson)
  \/ (Is("json", "schema") /\ Schema)
  \/ (Is("json", "select") /\ Select)
  \/ (Is("json", "values") /\ Values)
  \/ (Is("json", "size") /\ SizeOf)
  \/ (Is("json", "format") /\ Format)
  \/ (Is("json", "diff") /\ Diff)
  \/ (Is("json", "validate") /\ Validate)
  \/ (Is("json", "take") /\ Take)
  \/ (Is("json", "sort") /\ Sort)
  \/ (Is("json", "uniq") /\ Uniq)
  \/ (Is("json", "count") /\ Count)
  \/ (Is("json", "table") /\ Table)
ConfigCommand ==
  \/ ConfigQuery \/ ConfigExists \/ ConfigKeys \/ ConfigType \/ ConfigLength \/ ConfigFlatten
  \/ ConfigPaths \/ ConfigGrep \/ ConfigSchema \/ ConfigSelect \/ ConfigTable \/ ConfigDiff
  \/ ConfigValidate
  \/ (Is("config", "convert") /\ Convert)
  \/ (Is("config", "merge") /\ Merge)
Next == JsonCommand \/ ConfigCommand

Spec == Init /\ [][Next]_vars

-----------------------------------------------------------------------------
(* Properties.                                                             *)

TypeOK ==
  /\ tool \in {"json", "config"} /\ pc \in {"start", "ended"}
  /\ code \in {Found, NotFound, Error}
  /\ \A r \in printed : r.n \in Nat /\ <<>> \in DOMAIN r.old /\ <<>> \in DOMAIN r.new

Ran(op) == pc = "ended" /\ cmd.op = op
(* Keys that can be written in a path, and documents of such keys.         *)
PlainKey(k) ==
  Spelling[k] /= <<>> /\ Spelling[k][1] \in Letters /\ ToSet(Spelling[k]) \subseteq Letters \cup Digit
Plain(d) == \A p \in DOMAIN d : \A s \in ToSet(p) : s \in Keys => PlainKey(s)
Arrayless(d) == \A p \in DOMAIN d : d[p].t /= "array"

(* Every path a command prints leads query back to the value printed with  *)
(* it: in the document for keys and grep, in the older or newer document   *)
(* for diff; for flatten, paths and values when there are no arrays.       *)
LeadsTo(d, r, value) == Plain(d) => Resolved(d, r.path) = {value}
PathsLeadBack ==
  \A r \in {x \in printed : x.path /= <<"(root)">>} :
    /\ Ran("keys") => \E t \in Targets(cmd.path) : t[1] = r.n /\ LeadsTo(At(t), r, r.new)
    /\ Ran("grep") => LeadsTo(inputs[r.n], r, r.new)
    /\ Ran("values") /\ Arrayless(inputs[r.n]) => LeadsTo(inputs[r.n], r, r.new)
    /\ Ran("flatten") /\ cmd.sep = <<".">> /\ Arrayless(inputs[r.n]) => LeadsTo(inputs[r.n], r, r.new)
    /\ Ran("diff") /\ r.kind /= "+" => LeadsTo(inputs[1], r, r.old)
    /\ Ran("diff") /\ r.kind /= "-" => LeadsTo(inputs[2], r, r.new)

(* flatten leaves nothing out and lists nothing twice: every leaf lies     *)
(* under exactly one printed path, and the value there is all below it.    *)
(* grep for everything finds every scalar.                                 *)
ListingsAreWhole ==
  \A i \in Docs :
    LET rows == {r \in printed : r.n = i}
        d == inputs[i]
    IN  /\ Ran("flatten") /\ code = Found /\ Plain(d) =>
             \A l \in Leaves(d) :
               Cardinality({r \in rows : \E p \in Prefixes(l) :
                              FlatPath(p, cmd.sep) = r.path /\ Part(d, p) = r.new}) = 1
        /\ Ran("grep") /\ code /= Error /\ cmd.mode = "values" /\ cmd.pattern = ToSet(Collation) =>
             Cardinality(rows) = Cardinality({l \in Leaves(d) : d[l].t \in cmd.types \ {"object", "array"}})

(* The rows of keys, grep, values, flatten, paths and diff.                *)
ListingsAreTrue == TypeOK /\ PathsLeadBack /\ ListingsAreWhole

(* What diff prints is the difference: it prints nothing and exits with 0  *)
(* just when the documents are equal, and what it prints rebuilds the      *)
(* newer document from the older one.                                      *)
Place(r) ==
  LET segs == IF r.path = <<"(root)">> THEN <<>> ELSE parse_dot_path(r.path)
  IN  [i \in DOMAIN segs |-> CHOOSE s \in Steps : Spelled(s) = segs[i]]
Patched(d, rows) ==
  LET gone == {Place(r) : r \in {x \in rows : x.kind /= "+"}}
      come == {r \in rows : r.kind /= "-"}
      kept == {p \in DOMAIN d : \A q \in gone : ~IsPrefix(q, p)}
      new == UNION {{Place(r) \o q : q \in DOMAIN r.new} : r \in come}
      from(p) == CHOOSE r \in come : IsPrefix(Place(r), p)
  IN  [p \in kept \cup new |->
         IF p \in new THEN from(p).new[SubSeq(p, Len(Place(from(p))) + 1, Len(p))] ELSE d[p]]
DiffIsExact ==
  Ran("diff") /\ code /= Error =>
    /\ (code = Found) = (inputs[1] = inputs[2])
    /\ Plain(inputs[1]) /\ Plain(inputs[2]) => Patched(inputs[1], printed) = inputs[2]

(* merge lays the overlays over the base: every leaf of the last one is    *)
(* in the result; every leaf of the result is in a file at that place; a   *)
(* leaf of the base is in the result unless an overlay has something else  *)
(* at its place or in its way; and appended arrays lose no element.        *)
InTheWay(o, d, p) ==
  \E q \in Prefixes(p) : q \in DOMAIN o /\ (q = p \/ {o[q].t, d[q].t} /= {"object"})
MergeIsLayered ==
  Ran("merge") /\ code = Found =>
    LET m == Single(printed).new
        top == Last(inputs)
        faithful == cmd.to /= "ini" /\ ~(cmd.to = "none" /\ files[1].ext = "ini")
        placed(d) == {l \in Leaves(d) : cmd.append => ToSet(l) \subseteq Keys /\ d[l].t /= "array"}
    IN  faithful =>
          /\ \A l \in placed(top) :
               l \in DOMAIN m /\ m[l].t = top[l].t /\ (m[l].v = top[l].v)
          /\ \A l \in placed(m) : \E i \in Docs : l \in DOMAIN inputs[i] /\ inputs[i][l] = m[l]
          /\ \A l \in placed(inputs[1]) :
               (\A i \in Docs \ {1} : ~InTheWay(inputs[i], inputs[1], l)) => l \in DOMAIN m /\ m[l] = inputs[1][l]
          /\ cmd.append =>
               \A p \in {q \in DOMAIN m : m[q].t = "array" /\ ToSet(q) \subseteq Keys} :
                 (\A i \in Docs : p \in DOMAIN inputs[i] /\ inputs[i][p].t = "array") =>
                   Size(Part(m, p)) = FoldLeft(LAMBDA n, d : n + Size(Part(d, p)), 0, inputs)

(* The exit code says what happened.  A file that cannot be read or parsed *)
(* is an error before anything is printed, whichever of them it is, but    *)
(* for validate, whose answer it is, and convert, which goes file by file; *)
(* exit 1 is the answer with no line, and diff's with some; length's error *)
(* comes after the lines of the inputs before, and that of json's table    *)
(* after the rows of the scalars before the first element whose columns    *)
(* it must look into, since one of them is no path; two strictly merged    *)
(* files are an error just when a container meets something else.          *)
Meets(a, b) ==
  \E p \in DOMAIN a \cap DOMAIN b :
    /\ \A q \in Prefixes(p) \ {p} : a[q].t = "object" /\ b[q].t = "object"
    /\ a[p].t /= b[p].t /\ {a[p].t, b[p].t} \cap {"object", "array"} /= {}
ExitsAreTrue ==
  pc = "ended" =>
    /\ cmd.op \notin {"validate", "convert"} => (~Readable => code = Error /\ printed = Nothing)
    /\ cmd.op \notin {"length", "convert"} /\ ~(Ran("table") /\ tool = "json") => (code = Error => printed = Nothing)
    /\ Ran("table") =>
         LET pathless == \E k \in DOMAIN cmd.columns : ~parses(cmd.columns[k])
             cut == code = Error /\ printed /= Nothing
             n == Cardinality(printed)
         IN  /\ pathless => \A r \in printed : ~IsContainer(r.old)
             /\ cut => /\ pathless /\ {r.n : r \in printed} = 1 .. n
                       /\ LET s == filter_elements(TableElements, cmd.preds) IN n < Len(s) /\ IsContainer(s[n + 1])
    /\ cmd.op \notin {"exists", "diff", "validate", "format"} =>
         (code = Found => printed /= Nothing \/ cmd.op = "keys")
    /\ cmd.op /= "diff" => (code = NotFound => printed = Nothing \/ cmd.op = "validate")
    /\ Ran("length") /\ code = Error /\ printed /= Nothing =>
         \E i \in Docs : /\ {r.n : r \in printed} \subseteq 1 .. i - 1
                         /\ \E p \in Target(i, cmd.path) : inputs[i][p].t \in {"number", "null", "boolean"}
    /\ Ran("merge") /\ Readable /\ ~cmd.flag /\ Len(files) = 2 /\ Meets(inputs[1], inputs[2]) => code = Error
    /\ Ran("merge") /\ Readable /\ cmd.to = "json" /\ Len(files) = 2 /\ code = Error =>
         Meets(inputs[1], inputs[2])
    /\ Ran("validate") /\ (cmd.flag \/ cmd.limit = NoLimit) =>
         (code = Found) = (\A f \in ToSet(files) : validate_one(f))

(* sort keeps every element, orders them by the field, upwards or          *)
(* downwards, keeps the order of those that tie, and puts those without    *)
(* the field last; uniq prints each value once, in an order that does not  *)
(* depend on that of the input.                                            *)
Pos(s, x) == {i \in DOMAIN s : s[i] = x}
SortsAreOrders ==
  /\ Ran("sort") /\ code = Found =>
       LET s == collect_elements(inputs, cmd.path)
           t == Elements(Single(printed).new)
           key(x) == Resolved(x, cmd.field)
       IN  /\ Len(s) = Len(t) /\ \A x \in ToSet(s) : Cardinality(Pos(s, x)) = Cardinality(Pos(t, x))
           /\ \A i, j \in DOMAIN t : i < j =>
                /\ key(t[i]) = {} => key(t[j]) = {}
                /\ key_cmp(key(t[i]), key(t[j]), cmd.numeric, cmd.flag) <= 0
                /\ key_cmp(key(t[i]), key(t[j]), cmd.numeric, cmd.flag) = 0 =>
                     \E k \in Pos(s, t[i]), l \in Pos(s, t[j]) : k < l
  /\ Ran("uniq") /\ code = Found =>
       LET s == collect_path_values(inputs, cmd.path)
       IN  /\ IsInjective(Elements(Single(printed).new))
           /\ ToSet(Elements(Single(printed).new)) = ToSet(s)
           /\ distinct_sorted(Reverse(s)) = Elements(Single(printed).new)

(* head, tail and slice print just the elements in their range; what count *)
(* prints adds up to the elements that have the field; and a row of table  *)
(* is there by a predicate or by its negation, never by both, while an     *)
(* ordering and its opposite share no row and pass over what they cannot   *)
(* compare.                                                                *)
Negation == [op \in {"=", "!=", "~", "!~"} |->
               CASE op = "=" -> "!=" [] op = "!=" -> "=" [] op = "~" -> "!~" [] op = "!~" -> "~"]
Opposite == [op \in {"<", "<=", ">", ">="} |->
               CASE op = "<" -> ">=" [] op = "<=" -> ">" [] op = ">" -> "<=" [] op = ">=" -> "<"]
ListsAddUp ==
  /\ Ran("take") /\ code = Found =>
       LET s == collect_elements(inputs, cmd.path)
           t == Elements(Single(printed).new)
           low == IF cmd.take.kind = "last" THEN Len(s) - cmd.take.n
                  ELSE IF cmd.take.kind = "range" THEN cmd.take.n ELSE 0
           high == IF cmd.take.kind = "first" THEN cmd.take.n
                   ELSE IF cmd.take.kind = "range" THEN cmd.take.end ELSE Len(s)
       IN  t = FlattenSeq([i \in DOMAIN s |-> IF low < i /\ i <= high THEN <<s[i]>> ELSE <<>>])
  /\ Ran("count") /\ code /= Error =>
       LET s == collect_path_values(inputs, cmd.path)
           counted == {i \in DOMAIN s : Resolved(s[i], cmd.field) /= {}}
           number(r) == CHOOSE n \in 0 .. Len(s) : ToString(n) = Text(r.new)
       IN  /\ MapThenSumSet(number, printed) = Cardinality(counted)
           /\ \A q, r \in printed : q.old = r.old => q = r
  /\ Ran("table") /\ code /= Error /\ Cardinality(cmd.preds) = 1 =>
       LET s == TableElements
           pred == Single(cmd.preds)
           other == [pred EXCEPT !.op = IF pred.op \in DOMAIN Negation THEN Negation[pred.op]
                                        ELSE Opposite[pred.op]]
           kept == {r.old : r \in printed}
           rest == ToSet(filter_elements(s, {other}))
       IN  /\ kept \cap rest = {}
           /\ kept \cup rest = IF pred.op \in DOMAIN Negation THEN ToSet(s)
                               ELSE {x \in ToSet(s) : Ordered(Resolved(x, pred.path), pred.literal)}

(* The lists that sort, uniq, head, tail, slice, count and table print.    *)
ListsAreTrue == SortsAreOrders /\ ListsAddUp

(* What the help of validate says: exit 0 if all inputs are valid, exit 1  *)
(* if any is invalid.                                                      *)
VerdictIsOfAllFiles ==
  Ran("validate") => (code = Found) = (\A f \in ToSet(files) : validate_one(f))
=============================================================================
