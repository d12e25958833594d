----------------------------- MODULE LocalTools -----------------------------
(***************************************************************************)
(* sak helm and sak nix (src/helm, src/nix): a command runs another program*)
(* through one chokepoint (src/local_bin.rs) and tells what that one wrote.*)
(*                                                                         *)
(* A text is a sequence of characters, some of them words.  A JSON value   *)
(* is [kind, of].  What a program wrote is such a value, or lines.  The    *)
(* heading over a table, which no limit counts, is left out of rows.       *)
(***************************************************************************)
EXTENDS Integers, Sequences, FiniteSets, SequencesExt, TLC

CONSTANTS
  None,        \* no value, nothing written, no limit, a file that is not there
  Torn,        \* written, and no JSON
  Commands,    \* [tool, op, json, field, limit, path]
  Outcomes,    \* how a run may end: [op -> set of [ok, out, err]]
  Rank         \* the order of characters

VARIABLES
  cmd,
  heard,   \* what the run gave, once there was one
  rows, code
vars == <<cmd, heard, rows, code>>

Running == -1
Upto(s, n) == IF n = None \/ n >= Len(s) THEN s ELSE SubSeq(s, 1, n)
Joined(texts, by) == FlattenSeq([i \in DOMAIN texts |-> IF i = 1 THEN texts[i] ELSE <<by>> \o texts[i]])
Less(s, t) ==
  \/ IsStrictPrefix(s, t)
  \/ \E i \in DOMAIN s \cap DOMAIN t : Rank[s[i]] < Rank[t[i]] /\ SubSeq(s, 1, i - 1) = SubSeq(t, 1, i - 1)
(* The members of a set in the order of their keys.                        *)
Arranged(S, Key(_)) == [k \in 1..Cardinality(S) |-> CHOOSE x \in S : Cardinality({y \in S : Less(Key(y), Key(x))}) = k - 1]

-----------------------------------------------------------------------------
(* Values.                                                                 *)

get(v, key) == IF v # None /\ v.kind = "object" /\ key \in DOMAIN v.of THEN v.of[key] ELSE None
get_path(v, path) == FoldLeft(get, v, path)
Is(v, kind) == v # None /\ v.kind = kind
Dash == <<"-">>
Spaces == {" ", "tab", "nl", "cr"}
collapse_ws(text) == [i \in DOMAIN text |-> IF text[i] \in Spaces THEN " " ELSE text[i]]
trim(text) ==
  LET kept == {i \in DOMAIN text : text[i] \notin Spaces} IN IF kept = {} THEN <<>> ELSE SubSeq(text, Min(kept), Max(kept))
(* As it would be with lines left as they are.                             *)
render_cell_Raw(v) ==
  IF v = None \/ Is(v, "null") THEN Dash ELSE IF v.kind \in {"text", "number", "bool"} THEN v.of ELSE <<"json">>
render_cell(v) ==
  CASE v = None \/ Is(v, "null") -> Dash
    [] Is(v, "text") -> collapse_ws(v.of)
    [] Is(v, "number") \/ Is(v, "bool") -> v.of
    [] OTHER -> <<"json">>
Texts(v) == LET held == SelectSeq(v.of, LAMBDA e : e.kind = "text") IN [i \in DOMAIN held |-> held[i].of]
(* A list of texts in one cell.                                            *)
Listed(v) == IF ~Is(v, "list") \/ v.of = <<>> THEN Dash ELSE Joined(Texts(v), ",")

-----------------------------------------------------------------------------
(* Tables: what is an entry, and its cells.                                *)

Columns ==
  [list |-> <<<<"name">>, <<"namespace">>, <<"revision">>, <<"updated">>, <<"status">>, <<"chart">>, <<"app_version">>>>,
   history |-> <<<<"revision">>, <<"updated">>, <<"status">>, <<"chart">>, <<"app_version">>, <<"description">>>>,
   repo_list |-> <<<<"name">>, <<"url">>>>,
   search_repo |-> <<<<"name">>, <<"version">>, <<"app_version">>, <<"description">>>>,
   search_hub |-> <<<<"url">>, <<"repository", "name">>, <<"version">>, <<"app_version">>, <<"description">>>>,
   status |-> <<<<"name">>, <<"namespace">>, <<"version">>, <<"info", "status">>, <<"info", "last_deployed">>>>,
   flake_metadata |-> <<<<"locked", "rev">>, <<"locked", "lastModified">>, <<"locked", "narHash">>, <<"original", "url">>, <<"path">>>>,
   store_info |-> <<<<"url">>, <<"version">>, <<"trusted">>, <<"priority">>, <<"wantMassQuery">>, <<"trustedPublicKeys">>>>,
   path_info |-> <<<<"narSize">>, <<"closureSize">>, <<"deriver">>>>]
Lists == {"list", "history", "repo_list", "search_repo", "search_hub"}
Singles == {"status", "flake_metadata", "store_info"}
Tables == Lists \cup Singles \cup {"flake_show", "path_info", "profile_list"}
Plain(op, el) == [i \in DOMAIN Columns[op] |-> render_cell(get_path(el, Columns[op][i]))]

YesNo(b) == IF b THEN <<"true">> ELSE <<"false">>
oci(el) == Is(get(el, "url"), "text") /\ get(el, "url").of # <<>> /\ Head(get(el, "url").of) = "oci"
notes_present(el) ==
  LET notes == get(get(el, "info"), "notes") IN Is(notes, "text") /\ trim(notes.of) # <<>>
signatures(el) == Listed(IF get(el, "signatures") # None THEN get(el, "signatures") ELSE get(el, "sigs"))
flake_attr(el) ==
  LET orig == get(el, "originalUrl")
      attr == get(el, "attrPath")
  IN CASE Is(orig, "text") /\ Is(attr, "text") -> orig.of \o <<"#">> \o attr.of
       [] Is(orig, "text") /\ ~Is(attr, "text") -> orig.of
       [] ~Is(orig, "text") /\ Is(attr, "text") -> attr.of
       [] OTHER -> Dash

(* The entries of an object by key, or of an older nix's list.             *)
Keyed(v) == LET keys == Arranged(DOMAIN v.of, LAMBDA k : <<k>>) IN [i \in DOMAIN keys |-> [name |-> keys[i], el |-> v.of[keys[i]]]]
Entries(v) ==
  CASE Is(v, "object") -> Keyed(v)
    [] Is(v, "list") -> [i \in DOMAIN v.of |-> [name |-> None, el |-> v.of[i]]]
    [] OTHER -> <<>>
PathRow(e) ==
  (IF e.name # None THEN <<<<e.name>>>> ELSE <<get(e.el, "path").of>>) \o Plain("path_info", e.el) \o <<signatures(e.el)>>
path_rows(v) ==
  LET kept == SelectSeq(Entries(v), LAMBDA e : e.name # None \/ Is(get(e.el, "path"), "text")) IN [i \in DOMAIN kept |-> PathRow(kept[i])]
profile_rows(v) ==
  LET es == Entries(get(v, "elements"))
  IN [i \in DOMAIN es |-> <<<<ToString(i - 1)>>, IF es[i].name = None THEN Dash ELSE <<es[i].name>>, Listed(get(es[i].el, "storePaths")), flake_attr(es[i].el)>>]

(* flake-show: the outputs that were evaluated, wherever they are.         *)
RECURSIVE walk_into(_, _)
walk_into(v, path) ==
  CASE ~Is(v, "object") -> <<>>
    [] Is(v, "object") /\ Is(get(v, "type"), "text") -> <<<<Joined(path, "."), get(v, "type").of, render_cell(get(v, "description"))>>>>
    [] OTHER -> LET es == Keyed(v) IN FlattenSeq([i \in DOMAIN es |-> walk_into(es[i].el, Append(path, <<es[i].name>>))])
(* In the order of their paths, those of one path as they were found.      *)
ByPath(found) ==
  LET before(i) == {j \in DOMAIN found : Less(found[j][1], found[i][1]) \/ (found[j][1] = found[i][1] /\ j < i)}
  IN [k \in DOMAIN found |-> found[CHOOSE i \in DOMAIN found : Cardinality(before(i)) = k - 1]]

walk(op, v) ==
  CASE op \in Lists ->
         LET els == IF Is(v, "list") THEN SelectSeq(v.of, LAMBDA e : e.kind = "object") ELSE <<>>
         IN [i \in DOMAIN els |-> Plain(op, els[i]) \o IF op = "repo_list" THEN <<YesNo(oci(els[i]))>> ELSE <<>>]
    [] op \in Singles ->
         IF Is(v, "object") THEN <<Plain(op, v) \o IF op = "status" THEN <<YesNo(notes_present(v))>> ELSE <<>>>> ELSE <<>>
    [] op = "flake_show" -> ByPath(walk_into(v, <<>>))
    [] op = "path_info" -> path_rows(v)
    [] OTHER -> profile_rows(v)

-----------------------------------------------------------------------------
(* What is told of an outcome, and the exit code.                          *)

Refused == [rows |-> <<>>, code |-> 2]
NotFound == [rows |-> <<>>, code |-> 1]
Found(lines) == [rows |-> Upto(lines, cmd.limit), code |-> 0]
Told(lines) == IF lines = <<>> THEN NotFound ELSE Found(lines)
Line(cells) == Joined(cells, "tab")
LinesOf(table) == [i \in DOMAIN table |-> Line(table[i])]
Blank(line) == trim(line) = <<>>

Marker(op) == IF op \in Lists THEN [kind |-> "list", of |-> <<>>] ELSE [kind |-> "object", of |-> <<>>]
emit_tsv(op, out) ==
  CASE out = None \/ (op \in Singles \cup {"path_info"} /\ out = Marker(op)) -> NotFound
    [] out = Torn -> Refused
    [] OTHER -> Told(LinesOf(walk(op, out)))
stream_verbatim(out, empty) == IF out \in {None, empty} THEN NotFound ELSE Found(<<out>>)
emit_to_stdout(op, out) == IF cmd.json THEN stream_verbatim(out, Marker(op)) ELSE emit_tsv(op, out)
emit_text_to_stdout(lines) == IF \A i \in DOMAIN lines : Blank(lines[i]) THEN NotFound ELSE Found(lines)
emit_field(out) ==
  IF out \in {None, Torn} THEN Refused
  ELSE LET v == get_path(out, cmd.field)
       IN IF v = None \/ Is(v, "null") THEN NotFound ELSE Found(<<IF Is(v, "text") THEN v.of ELSE render_cell(v)>>)

(* profile-list reads nix's answer before it looks at the format.          *)
profile_list(out) ==
  CASE out \in {None, Torn} -> Refused
    [] out \notin {None, Torn} /\ profile_rows(out) = <<>> -> NotFound
    [] OTHER -> IF cmd.json THEN Found(<<out>>) ELSE Found(LinesOf(profile_rows(out)))
(* registry-list: words of a line; --scope is kept in field.               *)
registry_list(lines) ==
  LET whole == SelectSeq(lines, LAMBDA l : Len(l) >= 3 /\ (cmd.field = None \/ l[1] = cmd.field))
      table == [i \in DOMAIN whole |-> <<<<whole[i][1]>>, <<whole[i][2]>>, Joined([k \in 1..(Len(whole[i]) - 2) |-> <<whole[i][k + 2]>>], " ")>>]
  IN IF table = <<>> THEN NotFound ELSE IF cmd.json THEN Found(<<table>>) ELSE Found(LinesOf(table))
references(lines) == Told(Arranged({trim(lines[i]) : i \in DOMAIN lines} \ {<<>>}, LAMBDA l : l))

(* helm's table of dependencies: what comes behind its heading, in cells.  *)
Heading == [kind |-> "heading", of |-> <<>>]
dependency_list(lines) ==
  LET start == SelectInSeq(lines, LAMBDA l : l = Heading)
      below == IF start = 0 THEN <<>> ELSE SelectSeq(SubSeq(lines, start + 1, Len(lines)), LAMBDA l : l.of # <<>> /\ ~Blank(l.of[1]))
      table == [i \in DOMAIN below |-> [k \in 1..4 |-> IF k \in DOMAIN below[i].of THEN trim(below[i].of[k]) ELSE <<>>]]
  IN IF table = <<>> THEN NotFound ELSE IF cmd.json THEN Found(<<table>>) ELSE Found(LinesOf(table))

(* lint: its findings, each with the lines that continue it, and the       *)
(* summary, which helm writes to stderr when a chart failed.               *)
parse_summary(o) ==
  LET all == SelectSeq(o.out \o o.err, LAMBDA l : l.kind = "summary") IN IF all = <<>> THEN None ELSE all[1]
Continued(found, l) ==
  [found EXCEPT ![Len(found)].message = (IF @ = <<>> THEN @ ELSE Append(@, " ")) \o collapse_ws(trim(l.message))]
Finding(found, l) ==
  CASE l.kind = "finding" ->
         Append(found, [severity |-> l.severity, path |-> collapse_ws(trim(l.path)), message |-> collapse_ws(trim(l.message))])
    [] l.kind = "more" /\ found # <<>> -> Continued(found, l)
    [] OTHER -> found
parse_findings(lines) == FoldLeft(Finding, <<>>, lines)
lint(o) ==
  LET summary == parse_summary(o)
      found == parse_findings(o.out)
      lines == [i \in DOMAIN found |-> Line(<<found[i].severity, found[i].path, found[i].message>>)]
      kept == Upto(lines, cmd.limit)
      result == Line(<<<<"result">>, <<IF summary.failed = 0 THEN "passed" ELSE "failed">>, <<ToString(summary.linted)>>, <<ToString(summary.failed)>>>>)
  IN IF summary = None THEN Refused
     ELSE [rows |-> IF kept = lines THEN Append(lines, result) ELSE kept, code |-> IF summary.failed = 0 THEN 0 ELSE 1]

-----------------------------------------------------------------------------
(* The chokepoint.                                                         *)

Families(verbs) == {<<v, None>> : v \in verbs}
HelmVerbs == Families({"list", "get", "status", "history", "show", "template", "search", "lint"})
             \cup {<<"dependency", "list">>, <<"repo", "list">>}
NixVerbs == Families({"path-info", "eval"})
            \cup {<<"flake", "show">>, <<"flake", "metadata">>, <<"derivation", "show">>, <<"profile", "list">>, <<"registry", "list">>, <<"store", "info">>}
nix_store_query == Families({"query"})
READ_ONLY_VERBS == [helm |-> HelmVerbs, nix |-> NixVerbs, store |-> nix_store_query]
Verb ==
  [list |-> <<"list", None>>, history |-> <<"history", None>>, repo_list |-> <<"repo", "list">>,
   search_repo |-> <<"search", None>>, search_hub |-> <<"search", None>>, status |-> <<"status", None>>,
   get |-> <<"get", None>>, show |-> <<"show", None>>, template |-> <<"template", None>>, lint |-> <<"lint", None>>,
   dependency_list |-> <<"dependency", "list">>, flake_show |-> <<"flake", "show">>, flake_metadata |-> <<"flake", "metadata">>,
   store_info |-> <<"store", "info">>, path_info |-> <<"path-info", None>>, profile_list |-> <<"profile", "list">>,
   registry_list |-> <<"registry", "list">>, eval |-> <<"eval", None>>, derivation_show |-> <<"derivation", "show">>,
   references |-> <<"query", None>>]
pair_allowed(table, pair) == \E p \in table : p[1] = pair[1] /\ p[2] \in {None, pair[2]}
Allowed(c) == pair_allowed(READ_ONLY_VERBS[IF c.op = "references" THEN "store" ELSE c.tool], Verb[c.op])

show(o) == emit_text_to_stdout(o.out)
template(o) == emit_text_to_stdout(o.out)
(* An evaluation that succeeds has a value; --raw is passed on as it is.   *)
eval(o) == IF cmd.json THEN Found(o.out) ELSE [rows |-> o.out, code |-> 0]
derivation_show(o) == stream_verbatim(o.out, Marker("derivation_show"))

(* What was not found is nothing found, for what asks for one release.     *)
OfRelease == {"status", "get", "history"}
NotThere(o) == \E i \in DOMAIN o.err : o.err[i].kind = "not found"
Answer(op, o) ==
  CASE op = "lint" -> lint(o)
    [] op # "lint" /\ ~o.ok -> IF cmd.tool = "helm" /\ op \in OfRelease /\ NotThere(o) THEN NotFound ELSE Refused
    [] o.ok /\ op = "get" -> emit_text_to_stdout(o.out)
    [] o.ok /\ op = "show" -> show(o)
    [] o.ok /\ op = "template" -> template(o)
    [] o.ok /\ op = "dependency_list" -> dependency_list(o.out)
    [] o.ok /\ op = "eval" -> eval(o)
    [] o.ok /\ op = "derivation_show" -> derivation_show(o)
    [] o.ok /\ op = "profile_list" -> profile_list(o.out)
    [] o.ok /\ op = "registry_list" -> registry_list(o.out)
    [] o.ok /\ op = "references" -> references(o.out)
    [] o.ok /\ op \in Singles /\ cmd.field # None -> emit_field(o.out)
    [] OTHER -> emit_to_stdout(op, o.out)

(* One run.  eval without anything to evaluate is refused.   *)
invoke ==
  /\ code = Running
  /\ IF ~Allowed(cmd) \/ (cmd.op = "eval" /\ cmd.path = None) THEN code' = 2 /\ UNCHANGED <<rows, heard>>
     ELSE \E o \in Outcomes[cmd.op] :
            heard' = <<o>> /\ rows' = Answer(cmd.op, o).rows /\ code' = Answer(cmd.op, o).code
  /\ UNCHANGED cmd

Init ==
  /\ cmd \in Commands
  /\ heard = <<>> /\ rows = <<>> /\ code = Running
Next == invoke
Spec == Init /\ [][Next]_vars

-----------------------------------------------------------------------------
(* Properties.                                                             *)

Ended == code # Running /\ heard # <<>>
Out == heard[1].out
Objects(v) == IF Is(v, "list") THEN SelectSeq(v.of, LAMBDA e : e.kind = "object") ELSE <<>>
Words(text) == SelectSeq(text, LAMBDA c : c \notin Spaces)
Parted(cells, c) == IF c = "tab" THEN Append(cells, <<>>) ELSE [cells EXCEPT ![Len(cells)] = Append(@, c)]
CellsOf(line) == FoldLeft(Parted, <<<<>>>>, line)
Tells(cell, v) == Is(v, "text") => Words(cell) = Words(v.of)

(* A line of a table is one entry of the answer: cut at its tabs it has    *)
(* that entry's values, each in its column, whatever lines and tabs were   *)
(* in them, and no entry is left out (helm/mod.rs and nix/mod.rs,          *)
(* render_cell; walk in list.rs, history.rs, search.rs, path_info.rs).     *)
Tabled == Ended /\ code = 0 /\ ~cmd.json /\ cmd.field = None /\ cmd.limit = None
RowTells(line, el, columns, from) ==
  /\ \A k \in DOMAIN line : line[k] \notin {"nl", "cr"}
  /\ \A k \in DOMAIN columns : Tells(CellsOf(line)[from + k - 1], get_path(el, columns[k]))
RowsAreWhole ==
  /\ Tabled /\ cmd.op \in Lists =>
       /\ Len(rows) = Len(Objects(Out))
       /\ \A i \in DOMAIN rows :
            /\ Len(CellsOf(rows[i])) = Len(Columns[cmd.op]) + (IF cmd.op = "repo_list" THEN 1 ELSE 0)
            /\ RowTells(rows[i], Objects(Out)[i], Columns[cmd.op], 1)
  /\ Tabled /\ cmd.op \in Singles => Len(rows) = 1 /\ RowTells(rows[1], Out, Columns[cmd.op], 1)
  /\ Tabled /\ cmd.op = "path_info" /\ Is(Out, "object") =>
       /\ Len(rows) = Cardinality(DOMAIN Out.of)
       /\ \A k \in DOMAIN Out.of : \E i \in DOMAIN rows : CellsOf(rows[i])[1] = <<k>> /\ RowTells(rows[i], Out.of[k], Columns.path_info, 2)
  /\ Tabled /\ cmd.op = "profile_list" =>
       \A i \in DOMAIN rows : Len(CellsOf(rows[i])) = 4 /\ CellsOf(rows[i])[1] = <<ToString(i - 1)>>

(* flake-show lists exactly the outputs that were evaluated, however deep  *)
(* they are, and none that is within another, in the order of their paths  *)
(* (flake_show.rs, walk_into).                                             *)
Objs(S) == {x \in S : x.kind = "object"}
KeysIn(S) == UNION {DOMAIN x.of : x \in Objs(S)}
Below(S) == UNION {{x.of[k] : k \in DOMAIN x.of} : x \in Objs(S)}
Attributes(v) == KeysIn({v}) \cup KeysIn(Below({v})) \cup KeysIn(Below(Below({v})))
Typed(v, p) == Is(get(get_path(v, p), "type"), "text")
Leaves(v) ==
  {p \in UNION {[1..n -> Attributes(v)] : n \in 0..3} :
     Typed(v, p) /\ \A n \in 0..(Len(p) - 1) : ~Typed(v, SubSeq(p, 1, n))}
PathText(p) == Joined([i \in DOMAIN p |-> <<p[i]>>], ".")
LeavesAreListed ==
  Tabled /\ cmd.op = "flake_show" =>
    /\ Len(rows) = Cardinality(Leaves(Out))
    /\ {CellsOf(rows[i])[1] : i \in DOMAIN rows} = {PathText(p) : p \in Leaves(Out)}
    /\ \A i, j \in DOMAIN rows : i < j => ~Less(CellsOf(rows[j])[1], CellsOf(rows[i])[1])

(* The exit code is 1 where there is nothing to tell, in either format,    *)
(* and 2 where the program failed or wrote what is no answer; a release    *)
(* that is not there is nothing found, a cluster out of reach is not       *)
(* (client.rs, invoke_found; mod.rs, emit_to_stdout).  As JSON, an answer  *)
(* without a single entry to it is passed on as it is.                     *)
Entered(op, v) ==
  CASE op \in Lists -> Objects(v) # <<>>
    [] op \in Singles -> Is(v, "object") /\ DOMAIN v.of # {}
    [] op = "flake_show" -> Is(v, "object") /\ Leaves(v) # {}
    [] op = "path_info" ->
         (Is(v, "object") /\ DOMAIN v.of # {}) \/ (Is(v, "list") /\ \E i \in DOMAIN v.of : Is(get(v.of[i], "path"), "text"))
    [] OTHER -> LET es == get(v, "elements") IN es # None /\ es.kind \in {"object", "list"} /\ Entries(es) # <<>>
Unreadable == cmd.op \in Tables /\ Out = Torn /\ (~cmd.json \/ cmd.op = "profile_list" \/ cmd.field # None)
ExitsAreTold ==
  Ended /\ cmd.op # "lint" =>
    /\ ~heard[1].ok => code = IF cmd.op \in OfRelease /\ NotThere(heard[1]) THEN 1 ELSE 2
    /\ heard[1].ok /\ Unreadable => code = 2
    /\ heard[1].ok /\ cmd.op \in Tables /\ cmd.field = None /\ Out \notin {None, Torn} =>
         /\ Entered(cmd.op, Out) => code = 0
         /\ ~Entered(cmd.op, Out) /\ (~cmd.json \/ Out = Marker(cmd.op)) => code = 1
    /\ code # 0 => rows = <<>>

(* lint tells each finding with all the lines of its message, and its exit *)
(* is the verdict of the charts, wherever helm wrote it (lint.rs).  What   *)
(* dependency-list tells are the chart's dependencies, as long as helm     *)
(* warns of nothing below them (dependency_list.rs, parse).                *)
Said(lines) == FlattenSeq([i \in DOMAIN lines |-> IF lines[i].kind \in {"finding", "more"} THEN Words(lines[i].message) ELSE <<>>])
FindingsAreTold ==
  /\ Ended /\ cmd.op = "lint" /\ code # 2 =>
       LET summary == parse_summary(heard[1])
           first == SelectInSeq(Out, LAMBDA l : l.kind = "finding")
           told == SubSeq(rows, 1, Len(rows) - 1)
       IN /\ (code = 0) <=> (summary.failed = 0)
          /\ cmd.limit = None =>
               FlattenSeq([i \in DOMAIN told |-> Words(CellsOf(told[i])[3])])
               = IF first = 0 THEN <<>> ELSE Said(SubSeq(Out, first, Len(Out)))
  /\ Ended /\ cmd.op = "dependency_list" /\ code = 0 /\ ~cmd.json /\ cmd.limit = None =>
       LET start == SelectInSeq(Out, LAMBDA l : l = Heading)
           below == SubSeq(Out, start + 1, Len(Out))
       IN (\A i \in DOMAIN below : below[i].kind # "warning") =>
            LET given == SelectSeq(below, LAMBDA l : l.kind = "row")
              IN rows = LinesOf([i \in DOMAIN given |-> [k \in 1..4 |-> Words(given[i].of[k])]])

(* No command is stopped at its own chokepoint (local_bin.rs,              *)
(* pair_allowed), and what the tools say is told as it is.                 *)
ToolsAreTrue ==
  /\ Allowed(cmd)
  /\ RowsAreWhole /\ LeavesAreListed /\ ExitsAreTold /\ FindingsAreTold
=============================================================================
