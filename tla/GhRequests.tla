------------------------------ MODULE GhRequests ------------------------------
(***************************************************************************)
(* `sak gh` (src/gh): each command becomes one invocation of the gh binary *)
(* that the chokepoint of client.rs lets through only as a read, and whose *)
(* answer becomes rows.                                                    *)
(***************************************************************************)
EXTENDS GhApi

CONSTANTS
  Phrases,   \* what an invocation of `gh api` is written from: [words, flag, val]
  MaxPhrases, \* bound: the phrases of one
  Held,      \* what GitHub holds: [noun -> sequence of records]
  Requests,  \* [op, id, opts, fields, format, limit, log, headers, given, raws, flags]
  GhDefault  \* how many entries gh lists when it is not told

VARIABLES cmd, args, sent, rows, code
vars == <<cmd, args, sent, rows, code>>

-----------------------------------------------------------------------------
(* The argument vectors of the commands: the options each forwards, in     *)
(* argv.rs's words.                                                        *)

Opt(flag, c) == IF flag \in DOMAIN c.opts THEN <<Long(flag, None), Word(c.opts[flag])>> ELSE <<>>
Opts(flags, c) == FlattenSeq([i \in DOMAIN flags |-> Opt(flags[i], c)])
FlagIf(flag, c) == IF flag \in c.flags THEN <<Long(flag, None)>> ELSE <<>>
Limit(c) == IF c.limit = None THEN <<>> ELSE <<Long("limit", None), Word([Val("number") EXCEPT !.key = c.limit])>>
Json(c) == <<Long("json", None), Word([Val("fields") EXCEPT !.key = c.fields])>>
Id(c) == IF c.id = None THEN <<>> ELSE <<Word(c.id)>>

pr_list(c) == Json(c) \o Opts(<<"state", "repo", "author", "label">>, c) \o Limit(c)
issue_list(c) ==
  Json(c) \o Opts(<<"state", "repo", "author", "assignee", "mention", "label", "milestone", "search">>, c) \o Limit(c)
run_list(c) == Json(c) \o Opts(<<"repo", "workflow", "branch", "event", "status", "user">>, c) \o Limit(c)
release_list(c) == Json(c) \o Opts(<<"repo">>, c) \o FlagIf("exclude-drafts", c) \o FlagIf("exclude-pre-releases", c) \o Limit(c)
workflow_list(c) == Json(c) \o Opts(<<"repo">>, c) \o FlagIf("all", c) \o Limit(c)
pr_view(c) == Id(c) \o Json(c) \o Opts(<<"repo">>, c)
issue_view(c) == Id(c) \o Json(c) \o Opts(<<"repo">>, c)
release_view(c) == Id(c) \o Json(c) \o Opts(<<"repo">>, c)
repo_view(c) == Id(c) \o Json(c)
pr_diff(c) == Id(c) \o Opts(<<"repo">>, c) \o FlagIf("name-only", c)
run_view(c) == Id(c) \o Opts(<<"repo", "job">>, c) \o (IF c.log THEN FlagIf("log", c) \o FlagIf("log-failed", c) ELSE Json(c))
(* api.rs, build_argv: every REST call is pinned to GET.  (--repo travels   *)
(* in the environment.)                                                    *)
Each(letter, values) == FlattenSeq([i \in DOMAIN values |-> <<Short(<<letter>>, None), Word(values[i])>>])
api(c) ==
  <<c.id>> \o (IF c.id = Word(Val("graphql")) THEN <<>> ELSE <<Short(<<"X">>, None), Word(Val("GET"))>>)
  \o Each("H", c.headers) \o Each("F", c.given) \o Each("f", c.raws) \o FlagIf("paginate", c) \o Opts(<<"jq", "cache">>, c)

Argv(c) ==
  CASE c.op[1] = "api" -> api(c)
    [] c.op = <<"pr", "list">> -> pr_list(c) [] c.op = <<"issue", "list">> -> issue_list(c)
    [] c.op = <<"run", "list">> -> run_list(c) [] c.op = <<"release", "list">> -> release_list(c)
    [] c.op = <<"workflow", "list">> -> workflow_list(c) [] c.op = <<"pr", "diff">> -> pr_diff(c)
    [] c.op = <<"pr", "view">> -> pr_view(c) [] c.op = <<"issue", "view">> -> issue_view(c)
    [] c.op = <<"release", "view">> -> release_view(c) [] c.op = <<"repo", "view">> -> repo_view(c)
    [] OTHER -> run_view(c)
Streams(c) == c.op = <<"pr", "diff">> \/ c.log \/ c.op[1] = "api"

-----------------------------------------------------------------------------
(* What gh answers: the entries it holds that pass the options it was      *)
(* given, the first so many of them; the entry with an identity, or the    *)
(* first; or lines.                                                        *)

Told(words, flag) ==
  LET at == {i \in 1..(Len(words) - 1) : words[i] = Long(flag, None)}
  IN IF at = {} THEN None ELSE words[(CHOOSE i \in at : TRUE) + 1].val
Filters == {"state", "author", "label", "assignee", "event"}
Passing(noun, words) ==
  SelectSeq(Held[noun], LAMBDA r : \A f \in Filters : Told(words, f) # None => f \in DOMAIN r.has /\ r.has[f] = Told(words, f))
Identified(noun, words) ==
  IF words # <<>> /\ words[1].dash = 0 THEN SelectSeq(Held[noun], LAMBDA r : r.id = words[1].val) ELSE Held[noun]
Bound(words) == LET n == Told(words, "limit") IN IF n = None THEN GhDefault ELSE n.key
Upto(s, n) == IF n = None \/ n >= Len(s) THEN s ELSE SubSeq(s, 1, n)
GhFails(noun, verb, words) == IF verb = "list" THEN Bound(words) = 0 ELSE noun # "api" /\ Identified(noun, words) = <<>>
GhEntries(noun, verb, words) ==
  IF verb = "list" THEN Upto(Passing(noun, words), Bound(words)) ELSE Upto(Identified(noun, words), 1)

-----------------------------------------------------------------------------
(* render.rs: a value is [kind, of].                                       *)

Text(s) == [kind |-> "text", of |-> s]
Dash == <<"-">>
TextAt(v, key) == key \in DOMAIN v.of /\ v.of[key].kind = "text"
cell_atom(v) ==
  CASE v.kind = "null" -> Dash [] v.kind = "text" -> <<v.of>>
    [] v.kind = "object" /\ TextAt(v, "login") -> <<v.of["login"].of>>
    [] v.kind = "object" /\ ~TextAt(v, "login") /\ TextAt(v, "name") -> <<v.of["name"].of>>
    [] OTHER -> None
Whole(v) == <<"json", v>>
render_cell(entry, field) ==
  IF field \notin DOMAIN entry THEN Dash
  ELSE LET v == entry[field]
       IN CASE v.kind = "list" /\ v.of = <<>> -> Dash
            [] v.kind = "list" /\ v.of # <<>> ->
                 IF \E i \in DOMAIN v.of : cell_atom(v.of[i]) = None THEN Whole(v)
                 ELSE FlattenSeq([i \in DOMAIN v.of |-> cell_atom(v.of[i])])
            [] OTHER -> IF cell_atom(v) = None THEN Whole(v) ELSE cell_atom(v)
Row(entry, fields) == [i \in DOMAIN fields |-> render_cell(entry, fields[i])]
(* emit has a heading that is not counted; emit_single a line per field.   *)
emit(entries, c) == IF entries = <<>> THEN <<>> ELSE <<c.fields>> \o Upto([i \in DOMAIN entries |-> Row(entries[i].is, c.fields)], c.limit)
emit_single(entry, c) == Upto([i \in DOMAIN c.fields |-> <<c.fields[i], render_cell(entry.is, c.fields[i])>>], c.limit)

-----------------------------------------------------------------------------
(* An invocation of gh that someone writes, for the hook to look at.       *)
Write ==
  /\ cmd = None /\ Len(args) < MaxPhrases
  /\ \E p \in Phrases : args' = Append(args, p)
  /\ UNCHANGED <<cmd, sent, rows, code>>

(* A command: no fields or an invocation that is not a read is refused.    *)
Ask ==
  /\ cmd = None /\ args = <<>>
  /\ \E c \in Requests :
       LET refused == (~Streams(c) /\ c.fields = <<>>) \/ ~invoke(c.op[1], c.op[2], Argv(c))
       IN /\ cmd' = c
          /\ sent' = IF refused THEN None ELSE Argv(c)
          /\ code' = IF refused THEN 2 ELSE -1
  /\ UNCHANGED <<args, rows>>

Answer ==
  /\ cmd # None /\ code = -1
  /\ LET noun == cmd.op[1]
         entries == GhEntries(noun, cmd.op[2], sent)
         lines == IF noun = "api" THEN Held["api"] ELSE entries[1].lines
     IN IF GhFails(noun, cmd.op[2], sent) THEN code' = 2 /\ UNCHANGED rows
        ELSE LET told == CASE Streams(cmd) -> Upto(lines, cmd.limit)
                           [] ~Streams(cmd) /\ cmd.op[2] = "list" ->
                                IF cmd.format = "tsv" THEN emit(entries, cmd)
                                ELSE IF entries = <<>> THEN <<>> ELSE Upto(<<entries>>, cmd.limit)
                           [] OTHER -> IF cmd.format = "tsv" THEN emit_single(entries[1], cmd) ELSE Upto(<<entries>>, cmd.limit)
                 some == IF Streams(cmd) THEN lines # <<>> ELSE entries # <<>>
             IN rows' = told /\ code' = IF some THEN 0 ELSE 1
  /\ UNCHANGED <<cmd, args, sent>>

Init == cmd = None /\ args = <<>> /\ sent = None /\ rows = <<>> /\ code = -1
Next == Answer \/ Write \/ Ask
Spec == Init /\ [][Next]_vars
-----------------------------------------------------------------------------
(* Properties.                                                             *)

(* What gh sends for flags and words it was given: the last method, or     *)
(* POST when there is a body; a GraphQL document is run by what is in it,  *)
(* whatever the method.  Behind -- there are only words, and gh takes one. *)
AsWords(p) == [i \in DOMAIN p.words |-> [flag |-> "word", val |-> AsValue(p.words[i])]]
Means ==
  LET ends == {i \in DOMAIN args : args[i].flag = "--"}
      behind(i) == \E e \in ends : e < i
  IN FlattenSeq([i \in DOMAIN args |->
       IF behind(i) THEN AsWords(args[i]) ELSE IF args[i].flag \in {"--", None} THEN <<>> ELSE <<[flag |-> args[i].flag, val |-> args[i].val]>>])
OneWord(given) == Len(SelectSeq(given, LAMBDA f : f.flag = "word")) = 1
Queries(given) == {v \in GivenTo(given, {"field", "raw-field"}) : v.key = "query"}
MayWrite(given) ==
  LET methods == SelectSeq(given, LAMBDA f : f.flag = "method")
  IN OneWord(given) /\
     IF Val("graphql") \in GivenTo(given, {"word"})
     THEN \/ GivenTo(given, {"input"}) # {}
          \/ \E v \in Queries(given) : IF v.at /\ v \in GivenTo(given, {"field"}) THEN TRUE ELSE v.doc.defines \cap {"mutation", "subscription"} # {}
     ELSE IF methods # <<>> THEN ~IsGet(Last(methods).val) ELSE GivenTo(given, API_BODY_FLAGS) # {}

(* No vector of arguments that the chokepoint and the hook take for a read *)
(* can make gh write, however its flags are spelled, joined or doubled and *)
(* whatever is hidden in its documents; no command sends one either        *)
(* (client.rs, api_method, check_api_method, ensure_allowed).              *)
Words(phrases) == FlattenSeq([i \in DOMAIN phrases |-> phrases[i].words])
OnlyReadsPass ==
  /\ cmd = None /\ check_api_method(Words(args)) => ~MayWrite(Means)
  /\ sent # None /\ cmd.op[1] = "api" => ~MayWrite(Parsed(sent).out)
  /\ sent # None => cmd.op[2] \in {None, "list", "view", "diff"}

(* And none that is a read is refused, but for one that names another      *)
(* method, a document GraphQL would not take, or no fields.                *)
Odd(given) == \/ ~OneWord(given)
              \/ \E v \in GivenTo(given, {"method"}) : ~IsGet(v)
              \/ \E v \in Queries(given) : v.at \/ v.doc.defines = {}
ReadsPass ==
  /\ cmd = None /\ ~check_api_method(Words(args)) => MayWrite(Means) \/ Odd(Means)
  /\ cmd # None /\ sent = None /\ code = 2 =>
       IF cmd.op[1] = "api" THEN MayWrite(Parsed(Argv(cmd)).out) \/ Odd(Parsed(Argv(cmd)).out) ELSE cmd.fields = <<>>

(* Every row is an entry GitHub holds that passes all that was asked, in   *)
(* GitHub's order, and none is left out before the limit, or gh's own; a   *)
(* cell says that there is nothing only where there is nothing; and exit 1 *)
(* is said of an empty answer alone (render.rs, argv.rs).                  *)
Asked(noun) ==
  SelectSeq(Held[noun], LAMBDA r : \A f \in DOMAIN cmd.opts \cap Filters : f \in DOMAIN r.has /\ r.has[f] = cmd.opts[f])
Empty(entry, field) ==
  field \notin DOMAIN entry \/ entry[field] \in {[kind |-> "null", of |-> None], [kind |-> "list", of |-> <<>>], Text("-")}
AnswersAreTold ==
  cmd # None /\ code \in {0, 1} /\ cmd.op[2] = "list" =>
    LET asked == Asked(cmd.op[1])
        due == Upto(asked, IF cmd.limit = None THEN GhDefault ELSE cmd.limit)
    IN /\ code = 1 <=> asked = <<>>
       /\ cmd.format = "json" /\ code = 0 => rows = <<due>>
       /\ cmd.format = "tsv" /\ code = 0 =>
            /\ Len(rows) = Len(due) + 1 /\ rows[1] = cmd.fields
            /\ \A i \in DOMAIN due, k \in DOMAIN cmd.fields :
                 (rows[i + 1][k] = Dash) = Empty(due[i].is, cmd.fields[k])

(* What sak asks of GitHub, and what it says of the answer.                *)
RequestsAreTrue == OnlyReadsPass /\ ReadsPass /\ AnswersAreTold
=============================================================================
