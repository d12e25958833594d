------------------------------ MODULE RuleGuards ------------------------------
(***************************************************************************)
(* The guards of the hook's rules (the predicates in every domain's        *)
(* hook.rs): whether the words of an invocation, those behind the tool's   *)
(* name, ask for something that sak can answer.                            *)
(***************************************************************************)
EXTENDS GhApi

(* A flag of one dash and several letters that are not a cluster.          *)
Single(name) == [dash |-> 1, name |-> name, letters |-> <<>>, val |-> None]
W(name) == Word(Val(name))
Has(words, set) == ToSet(words) \cap set # {}
Positional(t) == t.dash = 0
positionals(words) == [i \in DOMAIN SelectSeq(words, Positional) |-> SelectSeq(words, Positional)[i].name]
SomePositional(words) == positionals(words) # <<>>
OnlyInfo(words, info) == words # <<>> /\ ToSet(words) \subseteq info
InfoFlags(letters) == {Long("help", None), Long("version", None)} \cup {Short(<<l>>, None) : l \in letters}

-----------------------------------------------------------------------------
(* fs/hook.rs: the guards of the readers and searchers.                    *)

Heredoc == W("<<")
cat_reads_a_file(words) == ~Has(words, {Heredoc}) /\ SomePositional(words)
(* The value of a flag is no file.                                         *)
WithoutValues(words, flags) ==
  FoldLeft(LAMBDA s, t : IF s.skip THEN [s EXCEPT !.skip = FALSE]
                         ELSE [skip |-> t \in flags, out |-> IF Positional(t) THEN Append(s.out, t) ELSE s.out],
           [skip |-> FALSE, out |-> <<>>], words).out
headtail_reads_a_file(words) ==
  /\ ~Has(words, {Heredoc})
  /\ WithoutValues(words, {Short(<<"c">>, None), Short(<<"n">>, None), Long("bytes", None), Long("lines", None)}) # <<>>
find_is_write(words) ==
  Has(words, {Single(f) : f \in {"exec", "execdir", "delete", "ok", "okdir", "fprint", "fprintf"}})
find_searches(words) == ~find_is_write(words)
find_searches_by_metadata(words) ==
  find_searches(words) /\ Has(words, {Single(f) : f \in {"size", "mtime", "mmin", "newer", "type"}})
fd_searches(words) ==
  ~Has(words, {Short(<<"x">>, None), Short(<<"X">>, None), Long("exec", None), Long("exec-batch", None)})

-----------------------------------------------------------------------------
(* fs/hook.rs: the interpreters.  An InlineSyntax says which flags bring   *)
(* code, take a value, or begin a project; what is looked at first decides.*)

Syntax(eval, long, value, attached, vlong, project, plong, info, bare) ==
  [eval |-> eval, long |-> long, value |-> value, attached |-> attached, vlong |-> vlong, project |-> project, plong |-> plong,
   info |-> info, bare |-> bare]
SyntaxOf(t) ==
  CASE t \in {"node", "nodejs"} ->
         Syntax({"e", "p"}, {"eval", "print"}, {"r", "C"}, {},
                {"require", "import", "loader", "experimental-loader", "conditions", "input-type", "title"},
                {}, {"test", "run"}, InfoFlags({"v", "h"}) \cup {Long("v8-options", None)}, TRUE)
    [] t = "ruby" ->
         Syntax({"e"}, {}, {"r", "I", "C", "E"}, {"0", "F", "i", "K", "T", "W", "x"},
                {"enable", "disable", "encoding", "external-encoding", "internal-encoding", "dump", "backtrace-limit"},
                {}, {}, InfoFlags({"v", "h"}) \cup {Long("copyright", None)}, TRUE)
    [] t = "python" ->
         Syntax({"c"}, {}, {"W", "X"}, {}, {"check-hash-based-pycs"}, {"m"}, {},
                InfoFlags({"V", "h", "?"}) \cup {Short(<<"V", "V">>, None)} \cup {Long(f, None) : f \in {"help-env", "help-xoptions", "help-all"}}, TRUE)
    [] t = "bun" ->
         Syntax({"e", "p"}, {"eval", "print"}, {"r"}, {}, {"preload", "require", "import", "cwd", "env-file", "config"},
                {}, {}, InfoFlags({"v", "h"}) \cup {Long("revision", None)}, FALSE)
    [] OTHER ->
         Syntax({"r", "R", "B", "E", "a"}, {"run", "process-code", "process-begin", "process-end", "interactive"}, {"c", "d", "t", "z"}, {},
                {"php-ini", "define", "docroot", "zend-extension", "rf", "rc", "re", "rz", "ri"},
                {"f", "F", "S", "l"}, {"file", "process-file", "server", "syntax-check"},
                InfoFlags({"v", "h", "i", "m"}) \cup {Long(f, None) : f \in {"info", "modules", "ini"}} \cup {Long("ini", Val("diff"))}, TRUE)
(* The first letter of a cluster that says something.                      *)
Telling(letters, syn) ==
  LET says == SelectSeq(letters, LAMBDA l : l \in syn.eval \cup syn.project \cup syn.attached \cup syn.value)
  IN IF says = <<>> THEN None ELSE says[1]
InlineWord(s, t, syn) ==
  LET letter == Telling(t.letters, syn)
  IN CASE s.says = "then" -> [s EXCEPT !.says = IF t = Minus THEN "code" ELSE "project"]
       [] s.says \in {"code", "project"} -> s
       [] s.says = None /\ s.skip -> [s EXCEPT !.skip = FALSE]
       [] s.says = None /\ ~s.skip /\ t = Minus -> [s EXCEPT !.says = "code"]
       [] s.says = None /\ ~s.skip /\ t = DashDash -> [s EXCEPT !.says = "then"]
       [] s.says = None /\ ~s.skip /\ t.dash = 0 -> [s EXCEPT !.says = "project"]
       [] s.says = None /\ ~s.skip /\ t.dash = 2 /\ t # DashDash ->
            [skip |-> t.name \in syn.vlong /\ t.val = None,
             says |-> IF t.name \in syn.long THEN "code" ELSE IF t.name \in syn.plong THEN "project" ELSE None]
       [] OTHER ->
            [skip |-> letter \in syn.value /\ letter = Last(t.letters) /\ t.val = None,
             says |-> IF letter \in syn.eval THEN "code" ELSE IF letter \in syn.project THEN "project" ELSE None]
runs_inline_program(t, words) ==
  LET syn == SyntaxOf(t)
      given == IF t = "bun" /\ words # <<>> /\ words[1] = W("run") THEN Tail(words) ELSE words
      says == FoldLeft(LAMBDA s, word : InlineWord(s, word, syn), [skip |-> FALSE, says |-> None], given).says
  IN CASE says \in {"code", "then"} -> TRUE [] says = "project" -> FALSE
       [] OTHER -> syn.bare /\ ~OnlyInfo(given, syn.info)
deno_runs_inline_program(words) ==
  LET pos == SelectSeq(words, LAMBDA t : Positional(t) \/ t = Minus)
  IN /\ ~OnlyInfo(words, InfoFlags({"V", "h"}))
     /\ \/ pos = <<>>
        \/ pos # <<>> /\ pos[1] \in {Minus, W("eval"), W("repl")}
        \/ pos # <<>> /\ pos[1] = W("run") /\ (Len(pos) = 1 \/ Has(Tail(pos), {Minus}))

-----------------------------------------------------------------------------
(* git/hook.rs.  words begins with the verb.                               *)

no_extra_args(words) == Len(words) = 1
Only(words, set) == ToSet(Tail(words)) \subseteq set
git_branch_is_listing_Any(words) ==
  Tail(words) = <<>> \/ Has(Tail(words), {Short(<<"a">>, None), Short(<<"r">>, None), Long("list", None)})
git_branch_is_listing(words) ==
  Only(words, {Short(<<l>>, None) : l \in {"a", "r", "l", "v"}}
              \cup {Short(<<"v", "v">>, None)} \cup {Long(l, None) : l \in {"all", "remotes", "list", "verbose", "show-current"}})
git_tag_is_listing(words) ==
  \A i \in 2..Len(words) : \/ words[i] \in {Short(<<"l">>, None), Long("list", None), Long("column", None), Long("no-column", None)}
                           \/ words[i].dash = 1 /\ words[i].letters # <<>> /\ words[i].letters[1] = "n"
                           \/ words[i].dash = 2 /\ words[i].name = "sort"
git_remote_is_listing(words) ==
  Len(words) = 1 \/ words[2] \in {Short(<<"v">>, None), Long("verbose", None), W("show"), W("get-url")}
git_rev_parse_is_single_ref(words) == Len(words) = 2 /\ words[2].dash = 0
git_cat_file_is_pretty_print(words) == Len(words) = 3 /\ words[2] = Short(<<"p">>, None) /\ words[3].dash = 0
git_merge_base_is_two_refs(words) == Len(words) = 3 /\ words[2].dash = 0 /\ words[3].dash = 0
git_shortlog_wants_counts(words) ==
  \E i \in 2..Len(words) : \/ words[i] \in {Long("summary", None), Long("numbered", None)}
                           \/ words[i].dash = 1 /\ {"s", "n"} \cap ToSet(words[i].letters) # {}
(* Words before -- that are neither flags, their values nor the pattern    *)
(* may be revisions, which sak cannot search.                              *)
looks_like_revision(t) == t.name \in {"HEAD", "main..b", "v1:f"}
GrepValues ==
  {"regexp", "file", "after-context", "before-context", "context", "max-count", "max-depth", "threads"}
GrepWord(s, t) ==
  LET attached == t.val # None
      last == IF t.letters = <<>> THEN None ELSE Last(t.letters)
  IN CASE s.dashed -> s
       [] ~s.dashed /\ s.skip -> [s EXCEPT !.skip = FALSE]
       [] ~s.dashed /\ ~s.skip /\ t = DashDash -> [s EXCEPT !.dashed = TRUE]
       [] ~s.dashed /\ ~s.skip /\ (t.dash = 0 \/ t = Minus) -> [s EXCEPT !.words = Append(@, t)]
       [] OTHER ->
            [s EXCEPT !.refused = @ \/ t \in {Long("cached", None), Long("recurse-submodules", None), Short(<<"O">>, None)} \/ t.name = "open-files-in-pager",
                      !.pattern = @ \/ t.name \in {"regexp", "file"} \/ (last \in {"e", "f"} /\ ~attached),
                      !.skip = ~attached /\ (last \in {"e", "f", "A", "B", "C", "m"} \/ t.name \in GrepValues)]
git_grep_searches_worktree(words) ==
  LET s == FoldLeft(GrepWord, [dashed |-> FALSE, skip |-> FALSE, refused |-> FALSE, pattern |-> FALSE, words |-> <<>>], Tail(words))
      revs == IF s.pattern THEN s.words ELSE IF s.words = <<>> THEN <<>> ELSE Tail(s.words)
  IN /\ Len(words) > 1 /\ ~s.refused
     /\ IF s.dashed THEN revs = <<>> ELSE \A i \in DOMAIN revs : ~looks_like_revision(revs[i])

-----------------------------------------------------------------------------
(* The guards of the other domains.                                        *)

(* k8s/hook.rs: a flag that is not known takes the next word all the same. *)
Good(flag, text, values) == flag \in values /\ (flag.name = "sort-by" => text \in {"cpu", "memory"})
FlagWord(s, t, bools, values) ==
  CASE s.wait # None -> [s EXCEPT !.wait = None, !.bad = @ \/ ~Good(s.wait, t.name, values)]
    [] s.wait = None /\ Positional(t) -> [s EXCEPT !.pos = Append(@, t.name)]
    [] s.wait = None /\ ~Positional(t) /\ t \in bools -> s
    [] OTHER ->
         IF t.val = None THEN [s EXCEPT !.wait = t] ELSE [s EXCEPT !.bad = @ \/ ~Good([t EXCEPT !.val = None], t.val.text, values)]
scan_flags(words, bools, values) ==
  LET s == FoldLeft(LAMBDA a, t : FlagWord(a, t, bools, values), [wait |-> None, bad |-> FALSE, pos |-> <<>>], words)
  IN IF s.bad \/ s.wait # None THEN None ELSE s.pos
Everywhere == {Short(<<"A">>, None), Long("all-namespaces", None)}
Namespace == {Short(<<"n">>, None), Long("namespace", None)}
From(words, n) == SubSeq(words, n, Len(words))
kubectl_can_i_is_supported(words) ==
  LET pos == scan_flags(From(words, 3), Everywhere, Namespace \cup {Long("subresource", None)}) IN pos # None /\ Len(pos) = 2 /\ pos[2] # "/url"
kubectl_top_is_supported(words) ==
  /\ Len(words) >= 2
  /\ CASE words[2].name \in {"pods", "pod", "po"} -> scan_flags(From(words, 3), Everywhere, Namespace \cup {Short(<<"l">>, None), Long("selector", None), Long("sort-by", None)}) = <<>>
       [] words[2].name \in {"nodes", "node", "no"} -> scan_flags(From(words, 3), {}, {Long("sort-by", None)}) = <<>>
       [] OTHER -> FALSE
(* cert/hook.rs: anything but these leaves the verification to openssl.    *)
VerifyWord(s, t) ==
  IF s.skip THEN [s EXCEPT !.skip = FALSE] ELSE IF t.dash = 0 THEN s
  ELSE [ca |-> s.ca \/ t.name = "CAfile", skip |-> t.name \in {"CAfile", "untrusted"} /\ t.val = None,
        bad |-> s.bad \/ t.name \notin {"CAfile", "untrusted", "no-CApath", "verbose", "show_chain"}]
verify_is_redirectable(words) ==
  LET start == {i \in DOMAIN words : words[i] = W("verify")}
      rest == IF start = {} THEN <<>> ELSE From(words, (CHOOSE i \in start : \A j \in start : i <= j) + 1)
      s == FoldLeft(VerifyWord, [ca |-> FALSE, skip |-> FALSE, bad |-> FALSE], rest)
  IN s.ca /\ ~s.bad
is_decode(words) == \E i \in DOMAIN words : words[i] = Long("decode", None) \/ {"d", "D"} \cap ToSet(words[i].letters) # {}
sysctl_is_read(words) ==
  ~\E i \in DOMAIN words : \/ words[i].name = "k=v" \/ (words[i].dash > 0 /\ words[i].val # None)
                           \/ words[i] \in {Short(<<"w">>, None), Long("write", None), Short(<<"p">>, None), Long("load", None), Long("system", None)}
sqlite_has_read_marker(words) == \E i \in DOMAIN words : words[i].name \in {".tables", "select", "insert select"}
python_imports_json(words) == Has(words, {W("json.tool"), W("import json")})
nix_eval_is_pure(words) == ~Has(words, {Long("impure", None), Long("no-pure-eval", None)})
Query == Long("query", None)
nix_store_query_is_refs(words) == Has(words, {Query}) /\ Has(words, {Long(f, None) : f \in {"references", "referrers", "requisites"}})
nix_store_query_is_info_size(words) == Has(words, {Query}) /\ Has(words, {Long("info", None), Long("size", None), Short(<<"S">>, None)})
(* gh's guard is handed the verb with the rest.                            *)
gh_api_method_is_get(words) == check_api_method(words)

Holds(guard, t, words) ==
  CASE guard = "always" -> TRUE [] guard = "some_positional" -> SomePositional(words)
    [] guard = "cat_reads_a_file" -> cat_reads_a_file(words) [] guard = "headtail_reads_a_file" -> headtail_reads_a_file(words)
    [] guard = "find_searches" -> find_searches(words) [] guard = "find_searches_by_metadata" -> find_searches_by_metadata(words)
    [] guard = "fd_searches" -> fd_searches(words) [] guard = "runs_inline_program" -> runs_inline_program(t, words)
    [] guard = "perl_runs_a_program" -> ~OnlyInfo(words, InfoFlags({"v", "V", "h"}))
    [] guard = "sed_runs_a_program" -> ~OnlyInfo(words, InfoFlags({}))
    [] guard = "awk_runs_a_program" -> ~OnlyInfo(words, InfoFlags({"V", "h"})) /\ words # <<Short(<<"W">>, None), W("version")>>
    [] guard = "deno_runs_inline_program" -> deno_runs_inline_program(words) [] guard = "no_extra_args" -> no_extra_args(words)
    [] guard = "git_branch_is_listing" -> git_branch_is_listing(words) [] guard = "git_tag_is_listing" -> git_tag_is_listing(words)
    [] guard = "git_remote_is_listing" -> git_remote_is_listing(words) [] guard = "git_rev_parse_is_single_ref" -> git_rev_parse_is_single_ref(words)
    [] guard = "git_cat_file_is_pretty_print" -> git_cat_file_is_pretty_print(words)
    [] guard = "git_merge_base_is_two_refs" -> git_merge_base_is_two_refs(words)
    [] guard = "git_shortlog_wants_counts" -> git_shortlog_wants_counts(words)
    [] guard = "git_grep_searches_worktree" -> git_grep_searches_worktree(words)
    [] guard = "kubectl_can_i_is_supported" -> kubectl_can_i_is_supported(words)
    [] guard = "kubectl_top_is_supported" -> kubectl_top_is_supported(words) [] guard = "verify_is_redirectable" -> verify_is_redirectable(words)
    [] guard = "is_decode" -> is_decode(words) [] guard = "sysctl_is_read" -> sysctl_is_read(words)
    [] guard = "sqlite_has_read_marker" -> sqlite_has_read_marker(words) [] guard = "python_imports_json" -> python_imports_json(words)
    [] guard = "nix_eval_is_pure" -> nix_eval_is_pure(words) [] guard = "nix_store_query_is_refs" -> nix_store_query_is_refs(words)
    [] guard = "nix_store_query_is_info_size" -> nix_store_query_is_info_size(words)
    [] OTHER -> gh_api_method_is_get(words)
=============================================================================
