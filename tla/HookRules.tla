------------------------------ MODULE HookRules ------------------------------
(***************************************************************************)
(* The rule tables the hook consults (the HOOK_RULES of every domain's     *)
(* hook.rs): which invocations of which tools are redirected to which sak  *)
(* command.  The first rule of the registries that is about the tool, whose*)
(* verbs lead the positionals and whose guard (RuleGuards) holds decides.  *)
(*                                                                         *)
(* An invocation is written phrase by phrase, a phrase being words and     *)
(* what they mean to the tool; the rules see the words alone.              *)
(***************************************************************************)
EXTENDS RuleGuards, TLC

CONSTANTS
  Uses,       \* [use of a tool -> [tool, globals, verbs, rest, serves]]
  MaxPhrases  \* bound: the phrases of an invocation

VARIABLES use, args
vars == <<use, args>>

-----------------------------------------------------------------------------
(* The tables.  No verbs means any.                                        *)

Rule(verbs, guard, says) == [verbs |-> verbs, guard |-> guard, says |-> says]
OneRule(guard, says) == <<Rule({}, guard, says)>>
Verb(verb, says) == Rule({<<verb>>}, "always", says)
Verbs(first, second, says) == Rule({<<first, second>>}, "always", says)

ReaderRules ==
  [t \in {"cat", "bat"} |-> OneRule("cat_reads_a_file", "fs read")]
  @@ [t \in {"head", "tail"} |-> OneRule("headtail_reads_a_file", "fs head")]
  @@ [t \in {"grep", "egrep", "fgrep", "ag", "ack"} |-> OneRule("some_positional", "fs grep")]
  @@ ("rg" :> OneRule("always", "fs grep"))
SearchRules ==
  [t \in {"find", "gfind"} |-> <<Rule({}, "find_searches_by_metadata", "fs find"), Rule({}, "find_searches", "fs glob")>>]
  @@ [t \in {"fd", "fdfind"} |-> OneRule("fd_searches", "fs glob")]
  @@ ("stat" :> OneRule("some_positional", "fs stat")) @@ ("wc" :> OneRule("always", "fs wc")) @@ ("tree" :> OneRule("always", "fs tree"))
  @@ [t \in {"ls", "eza", "exa"} |-> OneRule("always", "fs glob")] @@ ("cut" :> OneRule("always", "fs cut"))
ProgramRules ==
  [t \in {"awk", "gawk", "nawk", "mawk"} |-> OneRule("awk_runs_a_program", "deny")]
  @@ [t \in {"sed", "gsed"} |-> OneRule("sed_runs_a_program", "deny")] @@ ("perl" :> OneRule("perl_runs_a_program", "deny"))
  @@ [t \in {"node", "nodejs", "ruby", "python", "bun", "php"} |-> OneRule("runs_inline_program", "deny")]
  @@ ("deno" :> OneRule("deno_runs_inline_program", "deny"))
GitRules ==
  "git" :> <<Verb("status", "git status"), Verb("diff", "git diff"), Verb("log", "git log"), Verb("show", "git show"),
             Verb("blame", "git blame"), Rule({<<"shortlog">>}, "git_shortlog_wants_counts", "git contributors"),
             Rule({<<"shortlog">>}, "no_extra_args", "git shortlog"), Rule({<<"rev-parse">>}, "git_rev_parse_is_single_ref", "git rev-parse"),
             Rule({<<"merge-base">>}, "git_merge_base_is_two_refs", "git merge-base"), Rule({<<"ls-files">>}, "no_extra_args", "git ls-files"),
             Rule({<<"cat-file">>}, "git_cat_file_is_pretty_print", "git cat-file"), Rule({<<"branch">>}, "git_branch_is_listing", "git branch"),
             Rule({<<"tag">>}, "git_tag_is_listing", "git tags"), Rule({<<"remote">>}, "git_remote_is_listing", "git remote"),
             Verbs("stash", "list", "git stash-list"), Rule({<<"grep">>}, "git_grep_searches_worktree", "fs grep")>>
JsonRules == ("jq" :> OneRule("some_positional", "json query")) @@ ("python" :> OneRule("python_imports_json", "json query"))
ConfigRules ==
  [t \in {"yq", "tomlq"} |-> OneRule("some_positional", "config query")] @@ ("plistutil" :> OneRule("always", "config query"))
CertRules == "openssl" :> <<Verb("x509", "cert inspect"), Rule({<<"verify">>}, "verify_is_redirectable", "cert verify-chain")>>
HashRules ==
  ("openssl" :> <<Verb("dgst", "hash")>>) @@ [t \in {"sha256sum", "sha1sum", "md5sum", "shasum", "b3sum"} |-> OneRule("always", "hash")]
Base64Rules == "base64" :> <<Rule({}, "is_decode", "base64 decode"), Rule({}, "always", "base64 encode")>>
NixRules ==
  ("nix" :> <<Verbs("flake", "show", "nix flake-show"), Rule({<<"flake", "metadata">>, <<"flake", "info">>}, "always", "nix flake-metadata"),
              Rule({<<"store", "info">>, <<"store", "ping">>}, "always", "nix store-info"), Verbs("registry", "list", "nix registry-list"),
              Verbs("profile", "list", "nix profile-list"), Rule({<<"derivation", "show">>, <<"show-derivation">>}, "always", "nix derivation-show"),
              Verb("path-info", "nix path-info"), Rule({<<"eval">>}, "nix_eval_is_pure", "nix eval")>>)
  @@ ("nix-store" :> <<Rule({}, "nix_store_query_is_refs", "nix references"), Rule({}, "nix_store_query_is_info_size", "nix path-info")>>)
GhRules ==
  "gh" :> <<Rule({<<"api">>}, "gh_api_method_is_get", "gh api"), Verbs("pr", "list", "gh pr-list"), Verbs("pr", "view", "gh pr-view"),
            Verbs("pr", "diff", "gh pr-diff"), Verbs("issue", "list", "gh issue-list"), Verbs("issue", "view", "gh issue-view"),
            Verbs("run", "list", "gh run-list"), Verbs("run", "view", "gh run-view"), Verbs("release", "list", "gh release-list"),
            Verbs("release", "view", "gh release-view"), Verbs("workflow", "list", "gh workflow-list"), Verbs("repo", "view", "gh repo-view")>>
HelmRules ==
  "helm" :> <<Rule({<<"list">>, <<"ls">>}, "always", "helm list"), Verb("status", "helm status"), Verb("get", "helm get"),
              Rule({<<"show">>, <<"inspect">>}, "always", "helm show"), Verb("template", "helm template"), Verb("lint", "helm lint"),
              Verb("search", "helm search"), Rule({<<"history">>, <<"hist">>}, "always", "helm history"), Verbs("repo", "list", "helm repo-list"),
              Rule({<<"dependency", "list">>, <<"dependencies", "list">>, <<"dep", "list">>}, "always", "helm dependency-list")>>
TalosRules == "talosctl" :> <<Verb("get", "talos get"), Verb("read", "talos read")>>
LinuxRules == "sysctl" :> OneRule("sysctl_is_read", "linux sysctl")
KubectlRules ==
  "kubectl" :> <<Verb("get", "k8s get"), Verb("describe", "k8s describe"), Verb("logs", "k8s logs"), Verb("events", "k8s events"),
                 Verb("api-resources", "k8s kinds"), Rule({<<"auth", "can-i">>}, "kubectl_can_i_is_supported", "k8s can-i"),
                 Rule({<<"top">>}, "kubectl_top_is_supported", "k8s top"), Verb("explain", "k8s schema"),
                 Verbs("config", "get-contexts", "k8s contexts")>>
DockerRules ==
  "docker" :> <<Verb("ps", "docker ps"), Verb("images", "docker images"), Verb("inspect", "docker inspect"), Verb("logs", "docker logs")>>
LxcRules ==
  [t \in {"lxc", "incus"} |->
     <<Verb("list", "lxc list"), Verb("info", "lxc info"), Verbs("config", "show", "lxc config-show"),
       Rule({<<"image", "list">>, <<"image", "ls">>}, "always", "lxc image-list")>>]
SqliteRules == "sqlite3" :> OneRule("sqlite_has_read_marker", "sqlite")

registries ==
  <<ReaderRules, SearchRules, ProgramRules, GitRules, JsonRules, ConfigRules, CertRules, HashRules, Base64Rules, NixRules, GhRules,
    HelmRules, TalosRules, LinuxRules, KubectlRules, DockerRules, LxcRules, SqliteRules>>

-----------------------------------------------------------------------------
(* claude_code.rs, apply_registries.                                       *)

(* git's own flags, with their values, stand before the verb.              *)
strip_git_global_flags(words) ==
  LET valued == {Short(<<"C">>, None), Short(<<"c">>, None), Long("git-dir", None), Long("work-tree", None), Long("namespace", None)}
      s == FoldLeft(LAMBDA a, t : IF a.found THEN [a EXCEPT !.out = Append(@, t)]
                                  ELSE IF a.skip THEN [a EXCEPT !.skip = FALSE]
                                  ELSE IF t.dash = 0 THEN [a EXCEPT !.found = TRUE, !.out = <<t>>]
                                  ELSE [a EXCEPT !.skip = t \in valued],
                    [found |-> FALSE, skip |-> FALSE, out |-> <<>>], words)
  IN s.out
normalize_args(t, words) == IF t = "git" THEN strip_git_global_flags(words) ELSE words
subcommand_matches(verbs, pos) == verbs = {} \/ \E seq \in verbs : IsPrefix(seq, pos)
RulesOf(t) == FlattenSeq([i \in DOMAIN registries |-> IF t \in DOMAIN registries[i] THEN registries[i][t] ELSE <<>>])
apply_registries(t, given) ==
  LET words == normalize_args(t, given)
      pos == positionals(words)
      matching == SelectSeq(RulesOf(t), LAMBDA r : subcommand_matches(r.verbs, pos) /\ Holds(r.guard, t, words))
  IN IF matching = <<>> THEN None ELSE matching[1].says

-----------------------------------------------------------------------------
(* An invocation is written: flags that stand before the verb, the verb,   *)
(* and what belongs to it.                                                 *)
Given == {i \in DOMAIN args : args[i] \in Uses[use].verbs}
Offered == IF Uses[use].verbs # {} /\ Given = {} THEN Uses[use].globals \cup Uses[use].verbs ELSE Uses[use].rest

Init == use \in DOMAIN Uses /\ args = <<>>
Write == \E p \in Offered : Len(args) < MaxPhrases /\ args' = Append(args, p) /\ UNCHANGED use
Spec == Init /\ [][Write]_vars
-----------------------------------------------------------------------------
(* Properties.  What an invocation does is read off what its phrases mean  *)
(* to the tool, not off their words: "write" changes something whatever    *)
(* stands beside it, "makes" when it is given a name and lists nothing;    *)
(* and each phrase names the sak command it calls for, if any.             *)

Tool == Uses[use].tool
Says == apply_registries(Tool, FlattenSeq([i \in DOMAIN args |-> args[i].words]))
Means == {args[i].means : i \in DOMAIN args}
Complete == Uses[use].verbs = {} \/ Given # {}
Changes == "write" \in Means \/ ({"makes", "name"} \subseteq Means /\ "list" \notin Means)

(* What is redirected to a sak command would have changed nothing, whatever*)
(* stands before the verb or between it and the word that writes; the      *)
(* languages are denied whole (the guards of the tables).                  *)
WritesAreLeftAlone == Changes => Says \in {None, "deny"}

(* What sak can answer is redirected to the command that answers it: no    *)
(* rule that comes first, no flag before git's verb and no order of the    *)
(* flags hides a read (the order of the tables, normalize_args).           *)
Served ==
  LET serving == {i \in DOMAIN args \ Given : args[i].serves # None}
  IN IF serving # {} THEN args[CHOOSE i \in serving : TRUE].serves
     ELSE IF Given # {} THEN args[CHOOSE i \in Given : TRUE].serves ELSE Uses[use].serves
ReadsAreServed ==
  Complete /\ ~Changes /\ Served # None /\ Means \cap {"unserved", "name"} = {} => Says = Served

(* A program given on the command line or on standard input is denied and  *)
(* one in a file is left alone, whichever flags with values come before.   *)
ProgramsAreDenied ==
  LET deciding == SelectSeq(args, LAMBDA p : p.means \in {"code", "script"})
  IN deciding # <<>> => (deciding[1].means = "code" <=> Says = "deny")

(* What the tables make of every invocation.                               *)
RulesAreTrue == WritesAreLeftAlone /\ ReadsAreServed /\ ProgramsAreDenied
=============================================================================
