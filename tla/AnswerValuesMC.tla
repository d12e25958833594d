----------------------------- MODULE AnswerValuesMC -----------------------------
(* Values for TLC of the constants of PodTriage, GitHistory, CertChain,    *)
(* CertFiles, GhRequests, HookRules and Metrics.                           *)
EXTENDS Integers, Sequences, FiniteSets, SequencesExt, FiniteSetsExt

CONSTANTS None, NoLimit

(* PodTriage: a pod that is restarted for ever, with and without init      *)
(* containers, a job in another namespace that runs once, and what stands  *)
(* beside them.                                                            *)
P(ns, name, policy, init, main) ==
  [ns |-> ns, name |-> name, policy |-> policy, init |-> init, main |-> main]
MCPods == {{P("app", "web", "Always", 1, 1), P("batch", "job", "Never", 0, 1)},
           {P("app", "web", "Always", 2, 1)}, {P("app", "web", "Always", 0, 2)},
           {P("batch", "job", "Never", 0, 2)}}

Box(name, image, vars_) == [name |-> name, image |-> image, env |-> vars_]
Var(name, from) == [name |-> name, from |-> from]
Path(there, containers) == [there |-> there, containers |-> containers]
TwoContainers == <<Box("web", "v2", <<Var("A", {"value", "secret"}), Var("B", {"configMap"}), Var("C", {})>>),
         Box("job", "v1", <<>>)>>
MCObjects ==
  {[kind |-> "deploy", ns |-> "app", name |-> "web", conditions |-> [Available |-> "True"],
    shapes |-> <<Path(FALSE, <<>>), Path(TRUE, TwoContainers), Path(FALSE, <<>>)>>],
   [kind |-> "deploy", ns |-> "batch", name |-> "job", conditions |-> [Available |-> "Unknown"],
    shapes |-> <<Path(FALSE, <<>>), Path(TRUE, <<Box("web", "v1", <<>>)>>), Path(FALSE, <<>>)>>],
   [kind |-> "cronjob", ns |-> "app", name |-> "job", conditions |-> [Any |-> "True"],
    shapes |-> <<Path(TRUE, TwoContainers), Path(TRUE, <<>>), Path(FALSE, <<>>)>>],
   [kind |-> "node", ns |-> None, name |-> "n1", conditions |-> [Ready |-> "False"], shapes |-> <<>>]}

E(id, first, last, time, name) ==
  [id |-> id, first |-> first, last |-> last, time |-> time, kind |-> "Pod", name |-> name, ns |-> "app"]
MCEvents ==
  {{E(1, <<1, None>>, <<5, None>>, None, "web"), E(2, None, None, <<5, 4>>, "web"),
    E(3, <<6, None>>, None, None, "job"), E(4, None, None, None, "job"), E(5, <<2, None>>, <<2, None>>, <<9, 1>>, "web")},
   {E(1, None, None, <<5, 4>>, "web"), E(2, None, None, <<5, 3>>, "web"), E(3, <<1, None>>, <<4, None>>, None, "web")}}

MCServed == {[version |-> "v1", kind |-> "Pod", scope |-> "namespaced"],
             [version |-> "v1", kind |-> "Node", scope |-> "cluster"],
             [version |-> "apps", kind |-> "Deployment", scope |-> "namespaced"]}
MCBuiltins == [po |-> "Pod", pod |-> "Pod", deploy |-> "Deployment"]
MCDocuments == [v1 |-> [of |-> "Pod", kinds |-> {"Pod", "Node"}], apps |-> [of |-> "Deployment", kinds |-> {}]]
MCRights == {<<"get", None, None>>, <<"delete", "batch", None>>, <<"delete", "app", "web">>}
PodRank ==
  [x \in {None, "app", "batch", "job", "n1", "web", "v1", "apps", "Pod", "Node", "Deployment", "A", "B"} |->
     CASE x = None -> 0 [] x = "app" -> 1 [] x = "batch" -> 2 [] x = "job" -> 3 [] x = "n1" -> 4 [] x = "web" -> 5
       [] x = "v1" -> 2 [] x = "apps" -> 1 [] x = "Pod" -> 3 [] x = "Node" -> 2 [] x = "Deployment" -> 1
       [] x = "A" -> 1 [] OTHER -> 2]

Ask(op, kind) == [op |-> op, kind |-> kind, ns |-> None, all |-> TRUE, name |-> None,
                  limit |-> NoLimit, n |-> 0, a |-> None, b |-> None]
Here(c) == [c EXCEPT !.all = FALSE]
First(c, limit) == [c EXCEPT !.limit = limit]
For(c, kind, name) == [c EXCEPT !.kind = kind, !.name = name]
Cond(c, a, b) == [c EXCEPT !.a = a, !.b = b]
PodCommands ==
  {[Ask("table", "pod") EXCEPT !.n = n] : n \in {-5, -1, 0, 119, 120, 599, 10799, 10861, 172799, 180000, 691199, 63071999, 63072001, 252287999}}
  \cup {Ask(op, "pod") : op \in {"failing", "pending"}} \cup {Here(First(Ask("failing", "pod"), 0))}
  \cup {Cond(Ask("not-ready", "pod"), "Ready", "True"), Cond(Ask("not-ready", "deploy"), "Available", "True"),
        Cond(Ask("not-ready", "node"), "Ready", "True"), Cond(Here(Ask("not-ready", "node")), "Ready", "True")}
  \cup {[Ask("restarts", "pod") EXCEPT !.n = n, !.limit = 1] : n \in 0..1}
  \cup {Ask("images", "deploy"), Ask("images", "cronjob"), Here(Ask("images", "node"))}
  \cup {For(Here(Ask("env", k)), k, n) : k \in {"deploy", "node", "cronjob"}, n \in {"web", "n1"}}
  \cup {First(Ask("events", None), 2), First(For(Ask("events", "po"), "po", "web"), 1), For(Ask("events", "po"), "po", None)}
  \cup {First(Ask("contexts", None), n) : n \in {0, 1}} \cup {Ask("kinds", None)}
  \cup {For(Here(Ask("can-i", "delete")), "delete", n) : n \in {None, "web"}}
  \cup {[Here(For(Ask("can-i", "get"), "get", "web")) EXCEPT !.b = b] : b \in {None, "web"}}
  \cup {Ask("schema", "po"), Ask("schema", "deploy"), Cond(Ask("schema", "Node"), "v1", "v1"), Cond(Ask("schema", "Node"), None, "v1")}

-----------------------------------------------------------------------------
(* GitHistory.                                                             *)

NoTree == <<>>

Src == <<"src">>
Lib == <<"src", "lib">>
Doc == <<"doc">>
New == <<"new">>
Al == <<"al", "a@x">>
Al2 == <<"al", "b@x">>
Bo == <<"bo", "b@x">>
MCPlace == (Doc :> 1) @@ (New :> 2) @@ (Lib :> 3)
GitRank == [n \in {"al", "bo", "a@x", "b@x", "main", "side", "v1", "v2", "tree"} |->
                CASE n = "al" -> 1 [] n = "bo" -> 2 [] n = "a@x" -> 1 [] n = "b@x" -> 2
                  [] n = "main" -> 1 [] n = "side" -> 2 [] n = "v1" -> 1 [] n = "v2" -> 2 [] OTHER -> 3]

C(parents, time, author, tree) ==
  [parents |-> parents, time |-> time, author |-> author, tree |-> tree, message |-> author[1]]
One == Lib :> 1
Two == One @@ (Doc :> 1)
(* A line of four commits, the first with the time t of its clock.         *)
Line(t, u) ==
  (1 :> C(<<>>, t, Al, One)) @@ (2 :> C(<<1>>, u, Bo, Two)) @@
  (3 :> C(<<2>>, 6, Al2, (Lib :> 2) @@ (Doc :> 1))) @@ (4 :> C(<<3>>, 7, Al, (Lib :> 2) @@ (New :> 1)))
(* Two branches and their merge; the side has a merge of its own work.     *)
Diamond(u) ==
  (1 :> C(<<>>, -3, Al, One)) @@ (2 :> C(<<1>>, u, Bo, Two)) @@ (3 :> C(<<1>>, 5, Al, Lib :> 3)) @@
  (4 :> C(<<2, 3>>, 6, Al, (Lib :> 3) @@ (Doc :> 1)))

Commit(c) == [kind |-> "commit", commit |-> c]
Refs == ("HEAD" :> Commit(4)) @@ ("main" :> Commit(4)) @@ ("side" :> Commit(3)) @@
        ("v1" :> [kind |-> "tag", commit |-> 2]) @@ ("v2" :> Commit(1)) @@
        ("tree" :> [kind |-> "tree", tree |-> Two]) @@ ("void" :> [kind |-> "blob", size |-> 0])
NoFiles == [kind |-> "tree", tree |-> NoTree]
Repo(commits, h, refs, index, workdir) ==
  [commits |-> commits, head |-> h, refs |-> refs, index |-> index, workdir |-> workdir,
   names |-> [branch |-> {"main", "side"}, tags |-> {"v1", "v2", "tree"}],
   lines |-> [head |-> <<[commit |-> 1], [commit |-> 3]>>, workdir |-> <<"x", "y", "z">>]]
MCRepos ==
  {Repo(Line(t, u), 4, Refs, Two, (Lib :> 2) @@ (New :> 1)) : t \in {-3, 2, 5}, u \in {2, 5, 9}}
  \cup {Repo(Diamond(u), h, ("void" :> NoFiles) @@ Refs @@ ("fork" :> Commit(2)), One @@ (New :> 4), Two) : u \in {1, 5, 9}, h \in {2, 4}}
  \cup {Repo(Line(2, 5), None, "v1" :> Commit(2), NoTree, One)}

Plain == [from |-> None, to |-> None, second |-> None, range |-> "", staged |-> FALSE, since |-> None,
          until |-> None, author |-> None, grep |-> None, paths |-> {}, count |-> None, sort |-> "commits",
          merges |-> FALSE, now |-> 9, first |-> 1, last |-> 9]
L(op, more) == more @@ [op |-> op] @@ Plain
Names == {"HEAD", "side", "v1", "fork", "tree", "void", "gone"}
GitCommands ==
  {L(op, [since |-> s, until |-> u]) : op \in {"log", "contributors"}, s \in {None, 3, 6}, u \in {None, 5}}
  \cup {L("log", [count |-> n, author |-> a, grep |-> g, paths |-> p]) :
          n \in {None, 0, 2}, a \in {None, "al"}, g \in {None, "bo"}, p \in {{}, {Src}}}
  \cup {L(op, [count |-> n, sort |-> s]) : op \in {"contributors", "shortlog"}, n \in {None, 1}, s \in {"commits", "name"}}
  \cup {L(op, [since |-> s, merges |-> m, paths |-> p]) :
          op \in {"churn", "age"}, s \in {None, 5}, m \in BOOLEAN, p \in {{}, {Src}}}
  \cup {L(op, [from |-> a, to |-> b]) : op \in {"changed-files", "ahead-behind", "merge-base"}, a \in Names, b \in Names}
  \cup {L("diff", [from |-> a, to |-> b, range |-> r, second |-> s]) :
          a \in Names, b \in Names, r \in {"", "..", "..."}, s \in {None, "side"}}
  \cup {L("diff", [from |-> a, staged |-> s, paths |-> p]) : a \in {None, "side"}, s \in BOOLEAN, p \in {{}, {Src}}}
  \cup {L(op, [from |-> a]) : op \in {"show", "ref-resolve", "cat-file", "branch", "tags"}, a \in Names}
  \cup {L("tags", [sort |-> "date"]), L("branch", <<>>), L("status", <<>>), L("ls-files", <<>>), L("status", [paths |-> {Src}])}
  \cup {L("blame", [first |-> f, last |-> l]) : f \in {1, 2, 4}, l \in {1, 2, 9}}

-----------------------------------------------------------------------------
(* Certificates: an authority with its root, intermediates issued twice,   *)
(* cross-signed, expired or without the right to issue.                    *)
Key(who) == [who |-> who, bits |-> 2048]
Base == [subject |-> <<"leaf", "a">>, issuer |-> <<"inter", "b">>, key |-> Key("leaf"),
         signer |-> Key("inter"), alg |-> "rsa", from |-> 1, to |-> 3, ca |-> "none",
         pathlen |-> 9, usage |-> "none", v1 |-> FALSE, good |-> TRUE]
Leaf == Base
Inter == [Base EXCEPT !.subject = <<"inter", "a">>, !.issuer = <<"root", "a">>,
                      !.key = Key("inter"), !.signer = Key("root"), !.ca = "yes"]
Root == [Inter EXCEPT !.subject = <<"root", "b">>, !.key = Key("root")]
Second == [Inter EXCEPT !.subject = <<"second", "a">>, !.key = Key("second")]
Under == [Inter EXCEPT !.issuer = <<"second", "b">>, !.signer = Key("second")]
Others ==
  {Inter, Root, Second, Under,
   [Inter EXCEPT !.to = 1], [Inter EXCEPT !.key = Key("other")], [Inter EXCEPT !.pathlen = 0],
   [Inter EXCEPT !.usage = "other"], [Inter EXCEPT !.ca = "no"], [Second EXCEPT !.pathlen = 0],
   [Second EXCEPT !.pathlen = 1],
   [Inter EXCEPT !.alg = "other"], [Root EXCEPT !.ca = "none"], [Root EXCEPT !.v1 = TRUE, !.ca = "none"],
   [Root EXCEPT !.signer = Key("old")], [Root EXCEPT !.key = Key("old"), !.signer = Key("old")]}
(* A leaf with the name of the root above it.                              *)
Namesake == [Leaf EXCEPT !.subject = <<"root", "c">>]
Leafs == {Leaf, [Leaf EXCEPT !.to = 1], [Leaf EXCEPT !.good = FALSE]}

Job(anchored, now, sources, untrusted, anchors) ==
  [anchored |-> anchored, allow |-> Len(sources) = 2, now |-> now, sources |-> sources,
   untrusted |-> untrusted, anchors |-> anchors]
Triples(S) == {<<x, y, z>> : x \in S, y \in S, z \in S}
Bundles ==
  {<<x>> : x \in Others \cup Leafs} \cup {<<x, y>> : x \in Others \cup {Leaf}, y \in Others}
  \cup {s \in Triples(Others \cup Leafs) : Leaf \in Range(s)} \cup {<<>>}
  \cup {<<Under, x, Leaf, Root>> : x \in Others}
  \cup {<<Namesake, Inter, Root>>, <<Root, Namesake, Inter>>, <<Leaf, Root, Inter, Root>>}
Roots == {c \in Others : c.subject[1] = c.issuer[1]}
MCJobs ==
  {Job(FALSE, 2, <<b>>, <<>>, <<>>) : b \in Bundles}
  \cup {Job(FALSE, 2, <<<<Leaf, Inter, Root>>, <<x>>>>, <<>>, <<>>) : x \in Others}
  \cup {Job(TRUE, 2, <<<<l, x>>>>, <<y, z>>, <<r>>) :
          l \in Leafs, x \in Others, y \in Others, z \in {Inter, Root, Second, Under}, r \in {Root, Inter}}
  \cup {Job(TRUE, 2, <<<<Leaf>>, <<x>>>>, <<Inter>>, <<r, q>>) : x \in Others, r \in Roots, q \in Others}

-----------------------------------------------------------------------------
(* Files, documents and dates.                                             *)
Content(form, blocks) == [form |-> form, blocks |-> blocks]
Block(kind, to) == [kind |-> kind, to |-> to]

Pem(blocks) == Content("pem", blocks)
Absent == Content("absent", <<>>)
Junk == Content("junk", <<>>)
Ends(to) == Block("certificate", to)
Bytes == {Pem(<<Ends(t)>>) : t \in 10 .. 30}
         \cup {Pem(<<Block("key", 0), Ends(40), Block("torn", 0), Ends(t)>>) : t \in {17, 20, 21}}
         \cup {Content("base64", <<Ends(40)>>), Content("der", <<Ends(12)>>), Junk,
               Pem(<<Block("key", 0)>>), Pem(<<Ends(40), Block("unparsed", 0)>>)}
File(name, bytes) == [name |-> name, bytes |-> bytes]
Formats == {<<"kv", 2>>, <<"tsv", NoLimit>>, <<"json", 0>>}
CertAsk(op, format, limit) == [op |-> op, now |-> 20, format |-> format, limit |-> limit]

Few == {Pem(<<Ends(40)>>), Pem(<<Ends(19)>>), Junk}
FileLists == {<<File("a", b)>> : b \in Bytes} \cup {<<File("a", b), File(n, c)>> : b \in Bytes, c \in Few, n \in {"a", "b"}}
Looking ==
  {[files |-> f, days |-> d] @@ CertAsk("expiring", o[1], o[2]) : f \in FileLists, o \in Formats, d \in 0 .. 2}
  \cup {[files |-> f, days |-> 0] @@ CertAsk("inspect", o[1], o[2]) :
          f \in FileLists, o \in Formats \cup {<<"unknown field", NoLimit>>}}

Entry(kind, name, body, data, file) ==
  [name |-> name, label |-> <<kind, name>>, body |-> body, data |-> data, file |-> file]
TwoCerts == Pem(<<Ends(19), Ends(40)>>)
Bodies == {<<FALSE, TwoCerts, Absent>>, <<TRUE, Absent, Absent>>, <<TRUE, Absent, TwoCerts>>, <<TRUE, Absent, Junk>>,
           <<TRUE, TwoCerts, Absent>>, <<TRUE, TwoCerts, Junk>>, <<TRUE, Junk, TwoCerts>>}
Entries_(kind, n) == {Entry(kind, n, b[1], b[2], b[3]) : b \in Bodies}
Kubeconfigs ==
  {[form |-> "yaml", users |-> <<u, v>>, clusters |-> <<c>>] :
     u \in Entries_("user", "me"), v \in Entries_("user", "you"),
     c \in Entries_("cluster", "me") \cup Entries_("cluster", "you")}
  \cup {[form |-> "bad", users |-> <<>>, clusters |-> <<>>]}
Embedded == {[kc |-> k, name |-> n, ca |-> c] @@ CertAsk("from_kubeconfig", "tsv", NoLimit) :
               k \in Kubeconfigs, n \in {"", "me"}, c \in BOOLEAN}
Extracted ==
  {[value |-> [type |-> t, bytes |-> b, kc |-> k]] @@ CertAsk("from_yaml", "json", 1) :
     t \in {"string", "number"}, b \in {TwoCerts, Pem(<<Block("unparsed", 0)>>), Junk},
     k \in {x \in Kubeconfigs : x.users = <<>> \/ ~x.users[1].body}}
Dates == {[y |-> y, m |-> m, d |-> d] @@ CertAsk("at", "kv", NoLimit) :
            y \in {1970, 1999, 2000, 2001, 2024, 2100, 2101}, m \in 0 .. 13, d \in {0, 1, 2, 28, 29, 30, 31, 32}}

CertCommands == Looking \cup Embedded \cup Extracted \cup Dates
MCFields == <<"subject", "not_after", "context">>

-----------------------------------------------------------------------------
(* GhRequests and HookRules: both are shown command lines, word by word.   *)
Val(text) == [text |-> text, key |-> None, doc |-> None, at |-> FALSE]
Field(key, doc, at) == [text |-> "field", key |-> key, doc |-> doc, at |-> at]
T(dash, name, letters, val) == [dash |-> dash, name |-> name, letters |-> letters, val |-> val]
Carries(v) == T(0, v.text, <<>>, v)
Word(name) == Carries(Val(name))
LongWith(name, v) == T(2, name, <<>>, v)
LongIs(name, value) == LongWith(name, Val(value))
Long(name) == LongWith(name, None)
ShortWith(letters, v) == T(1, None, letters, v)
Short(letters) == ShortWith(letters, None)
Single(name) == T(1, name, <<>>, None)

-----------------------------------------------------------------------------
(* GhRequests: documents made from definitions, so that what they define   *)
(* is known; phrases that spell the same flags in several ways; issues and *)
(* runs with every kind of value.                                          *)

(* GraphQL: definitions with variables and selections that hold brackets   *)
(* in objects, strings, block strings and comments.                        *)
Variables == {<<>>, <<"f", "{", "}">>, <<"quote", ")", "bs", "quote", "(", "quote">>, <<"block", "quote", ")", "bsblock", "}", "block">>, <<"#", "(", "nl">>}
Selections == {<<"mutation">>, <<"f", "{", "f", "}">>, <<"f", "(", "quote", "}", "quote", "f", "{", "}", ")">>, <<"#", "}", "nl", "f">>}
Definition(kind, name, variables, selection) ==
  (IF kind = "shorthand" THEN <<>> ELSE <<kind>> \o name \o (IF variables = <<>> THEN <<>> ELSE <<"(">> \o variables \o <<")">>))
  \o <<"{">> \o selection \o <<"}">>
Document(text, defines) == [text |-> text, defines |-> defines]
Simple(kind) == Definition(kind, <<>>, <<>>, <<"f">>)
GraphQL ==
  {Document(Definition(k, n, v, s), {k}) :
     k \in {"query", "mutation", "subscription"}, n \in {<<>>, <<"mutation">>}, v \in Variables, s \in Selections}
  \cup {Document(Definition("query", <<"f">>, v, s) \o d \o Simple(k), {"query", k}) :
          v \in Variables, s \in Selections, k \in {"mutation", "fragment", "query"}, d \in {<<>>, <<"#", "quote", "nl">>}}
  \cup {Document(Definition("shorthand", <<>>, <<>>, s) \o Simple(k), {"query", k}) : s \in Selections, k \in {"mutation", "fragment"}}
  \cup {Document(t, {}) : t \in {<<"query", "{", "f">>, <<"query", "(", "{", "}">>, <<"}">>, <<"quote", "nl", "quote">>, <<"{", "block", "}">>}}
Read == Document(Simple("query"), {"query"})
Change == Document(Simple("query") \o Simple("mutation"), {"query", "mutation"})

Phrase(words, flag, val) == [words |-> words, flag |-> flag, val |-> val]
Body(doc) == Field("query", doc, FALSE)
MCPhrases ==
  {Phrase(<<Word(w)>>, "word", Val(w)) : w \in {"graphql", "repos"}}
  \cup {Phrase(<<ShortWith(<<"X">>, Val(m))>>, "method", Val(m)) : m \in {"POST", "get"}}
  \cup {Phrase(<<ShortWith(<<"i", "X">>, None), Word("GET")>>, "method", Val("GET")),
        Phrase(<<LongWith("method", Val("POST"))>>, "method", Val("POST")),
        Phrase(<<LongWith("paginate", None)>>, None, None), Phrase(<<LongWith("", None)>>, "--", None),
        Phrase(<<ShortWith(<<"p">>, None), Word("graphql")>>, "preview", Val("graphql")),
        Phrase(<<LongWith("jq", None), Word("repos")>>, "jq", Val("repos")),
        Phrase(<<ShortWith(<<"f">>, Field("a", None, FALSE))>>, "raw-field", Field("a", None, FALSE)),
        Phrase(<<LongWith("raw-field", None), Carries(Body(Change))>>, "raw-field", Body(Change)),
        Phrase(<<LongWith("field", Body(Read))>>, "field", Body(Read)),
        Phrase(<<ShortWith(<<"F">>, None), Carries(Field("query", None, TRUE))>>, "field", Field("query", None, TRUE)),
        Phrase(<<LongWith("input", Val("file"))>>, "input", Val("file"))}

Text(s) == [kind |-> "text", of |-> s]
Null == [kind |-> "null", of |-> None]
Object(of) == [kind |-> "object", of |-> of]
List(of) == [kind |-> "list", of |-> of]
User(name) == Object([login |-> Text(name), name |-> Text("someone")])
GhEntry(id, has, is) == [id |-> Val(id), has |-> has, is |-> is, lines |-> <<"one", "two">>]
Issues ==
  <<GhEntry("1", [state |-> Val("open"), author |-> Val("ann"), assignee |-> Val("bob"), label |-> Val("bug")],
          [number |-> Text("1"), author |-> User("ann"), labels |-> List(<<Object([name |-> Text("bug")]), Object([name |-> Text("p1")])>>)]),
    GhEntry("2", [state |-> Val("open"), author |-> Val("bob")],
          [number |-> Text("2"), author |-> Object([login |-> Null, id |-> Text("7")]), labels |-> List(<<>>)]),
    GhEntry("3", [state |-> Val("open"), author |-> Val("ann"), event |-> Val("push")],
          [number |-> Text("3"), author |-> Null, labels |-> List(<<Object([id |-> Text("9")])>>)])>>
MCHeld == [pr |-> Issues, issue |-> Issues, run |-> Issues, release |-> SubSeq(Issues, 1, 1), workflow |-> <<>>, repo |-> Issues,
           api |-> <<"one", "two">>]

GhAsk(op) == [op |-> op, id |-> None, opts |-> <<>>, fields |-> <<"number", "author", "labels", "body">>, format |-> "tsv",
            limit |-> None, log |-> FALSE, headers |-> <<>>, given |-> <<>>, raws |-> <<>>, flags |-> {}]
Lists == {<<n, "list">> : n \in {"pr", "issue", "run", "release", "workflow"}}
Views == {<<n, "view">> : n \in {"pr", "issue", "run", "release", "repo"}}
Options == {[state |-> Val("open"), author |-> Val("ann")], [author |-> Val("ann"), label |-> Val("bug"), assignee |-> Val("bob")], [repo |-> Val("r")]}
Api(id) == [GhAsk(<<"api", None>>) EXCEPT !.id = id]
MCRequests ==
  {[GhAsk(op) EXCEPT !.format = f, !.limit = n] : op \in Lists, f \in {"tsv", "json"}, n \in {None, 0, 1, 3}}
  \cup {[GhAsk(op) EXCEPT !.opts = o] : op \in {<<"pr", "list">>, <<"issue", "list">>}, o \in Options}
  \cup {[GhAsk(<<"run", "list">>) EXCEPT !.opts = [event |-> Val("push")], !.limit = 2], [GhAsk(<<"pr", "list">>) EXCEPT !.fields = <<>>]}
  \cup {[GhAsk(op) EXCEPT !.id = Val(i), !.format = f, !.limit = n] : op \in Views, i \in {"2", "9"}, f \in {"tsv", "json"}, n \in {None, 1}}
  \cup {[GhAsk(<<"run", "view">>) EXCEPT !.id = Val("1"), !.log = TRUE, !.flags = {"log-failed"}],
        [GhAsk(<<"pr", "diff">>) EXCEPT !.id = Val("1"), !.flags = {"name-only"}, !.limit = 1], GhAsk(<<"release", "view">>)}
  \cup {[Api(Word("repos")) EXCEPT !.given = <<Field("a", None, FALSE)>>, !.headers = <<Val("accept")>>],
        [Api(Word("repos")) EXCEPT !.raws = <<Field("a", None, FALSE)>>, !.limit = 1,
                                        !.opts = [jq |-> Val("q"), cache |-> Val("1h")]],
        [Api(Word("graphql")) EXCEPT !.given = <<Field("query", None, TRUE)>>],
        [Api(Word("graphql")) EXCEPT !.raws = <<Body(Read), Body(Change)>>], Api(LongWith("method", Val("POST")))}
  \cup {[Api(Word("graphql")) EXCEPT !.raws = <<Field("query", d, FALSE)>>] : d \in GraphQL}

-----------------------------------------------------------------------------
(* HookRules: for each tool its verbs, and the flags that list, count, take *)
(* a value or write.                                                        *)
Phrased(words, means) == [words |-> words, means |-> means, serves |-> None]
Serving(words, serves) == [words |-> words, means |-> "opt", serves |-> serves]
F(t, means) == Phrased(<<t>>, means)
Opt(t) == F(t, "opt")
WithValue(t, means) == Phrased(<<t, Word("value")>>, means)
Name == F(Word("x"), "name")
Script == Opt(Word("file"))

(* Verbs that read, that write and that make what they are given a name of.*)
Verb(path, means, serves) == [words |-> [i \in DOMAIN path |-> Word(path[i])], means |-> means, serves |-> serves]
Reading(path, serves) == Verb(path, "reads", serves)
Writing(path) == Verb(path, "write", None)
Making(path, serves) == Verb(path, "makes", serves)
Use(tool, verbs, rest) == [tool |-> tool, globals |-> {}, verbs |-> verbs, rest |-> rest, serves |-> None]
PlainUse(tool, serves, rest) == [tool |-> tool, globals |-> {}, verbs |-> {}, rest |-> rest, serves |-> serves]
Git(verbs, rest) ==
  [tool |-> "git", verbs |-> verbs, rest |-> rest, serves |-> None,
   globals |-> {Phrased(<<Short(<<"C">>), Word("tag")>>, "opt"), WithValue(Long("git-dir"), "opt"), Opt(LongIs("work-tree", "x")), Opt(Long("no-pager"))}]

MCUses ==
  [find |-> PlainUse("find", "fs glob",
     {Script, F(Single("delete"), "write"), Serving(<<Single("size"), Word("n")>>, "fs find"), Phrased(<<Single("name"), Word("n")>>, "opt"),
      Phrased(<<Single("exec"), Word("rm")>>, "write")}),
   fd |-> PlainUse("fd", "fs glob", {Script, WithValue(Short(<<"x">>), "write"), Opt(Long("hidden"))}),
   head |-> PlainUse("head", None, {Serving(<<Word("file")>>, "fs head"), WithValue(Short(<<"n">>), "opt"), Opt(Short(<<"q">>))}),
   base64 |-> PlainUse("base64", "base64 encode",
     {Script, Serving(<<Short(<<"i", "d">>)>>, "base64 decode"), Serving(<<Long("decode")>>, "base64 decode"), WithValue(Long("wrap"), "opt")}),
   branches |-> Git({Making(<<"branch">>, "git branch")},
     {Name, F(Short(<<"r">>), "list"), F(Long("list"), "list"), Opt(Short(<<"v", "v">>)), WithValue(Short(<<"d">>), "write"), WithValue(Short(<<"m">>), "write")}),
   tags |-> Git({Making(<<"tag">>, "git tags")},
     {Name, F(Short(<<"l">>), "list"), Opt(LongIs("sort", "k")), F(Short(<<"n", "3">>), "list"), WithValue(Short(<<"d">>), "write"), Phrased(<<Short(<<"m">>), Word("x"), Word("y")>>, "write")}),
   history |-> Git({Reading(<<"shortlog">>, None), Reading(<<"log">>, None)},
     {Serving(<<Short(<<"s", "n">>)>>, None), Opt(Word("main..b")), Opt(LongIs("since", "x"))}),
   counts |-> Git({Reading(<<"shortlog">>, "git shortlog")}, {Serving(<<Short(<<"s", "n">>)>>, "git contributors"), Serving(<<Long("numbered")>>, "git contributors")}),
   changes |-> Git({Writing(<<v>>) : v \in {"commit", "stash", "push"}} \cup {Writing(<<"stash", "pop">>), Writing(<<"remote", "add">>)},
     {Name, Opt(Short(<<"v">>))}),
   listings |-> Git({Reading(<<"stash", "list">>, "git stash-list"), Reading(<<"status">>, "git status"), Reading(<<"diff">>, "git diff"), Reading(<<"remote">>, "git remote")},
     {Opt(Short(<<"v">>))}),
   revisions |-> Git({Reading(<<"rev-parse", "HEAD">>, "git rev-parse"), Reading(<<"merge-base", "a", "b">>, "git merge-base"), Reading(<<"ls-files">>, "git ls-files")},
     {F(Long("all"), "unserved"), F(Word("c"), "unserved")}),
   worktree |-> Git({Reading(<<"grep", "pattern">>, "fs grep"), Reading(<<"grep", "HEAD">>, "fs grep")},
     {WithValue(Short(<<"A">>), "opt"), Script, F(Long("cached"), "unserved"), F(Word("HEAD"), "unserved"), Phrased(<<T(2, "", <<>>, None), Word("HEAD")>>, "unserved"),
      Opt(Short(<<"i">>))}),
   top |-> Use("kubectl", {Reading(<<"top", "pods">>, "k8s top"), Reading(<<"top", "po">>, "k8s top")},
     {Phrased(<<Short(<<"n">>), Word("pods")>>, "opt"), Opt(LongIs("sort-by", "cpu")), Opt(Short(<<"A">>)), F(Long("containers"), "unserved"), F(Word("pod"), "unserved")}),
   can |-> Use("kubectl", {Reading(<<"auth", "can-i", "get", "pods">>, "k8s can-i")},
     {Phrased(<<Short(<<"n">>), Word("pods")>>, "opt"), Opt(Short(<<"A">>)), F(Long("list"), "unserved"), WithValue(LongIs("as", "me"), "unserved")}),
   cluster |-> Use("kubectl",
     {Reading(<<"get">>, "k8s get"), Reading(<<"logs">>, "k8s logs"), Reading(<<"config", "get-contexts">>, "k8s contexts"), Writing(<<"delete">>),
      Writing(<<"config", "set">>), Writing(<<"exec">>)},
     {Script, Phrased(<<Short(<<"n">>), Word("get")>>, "opt")}),
   verify |-> Use("openssl", {Reading(<<"verify">>, None)},
     {Serving(<<Single("CAfile"), Word("ca")>>, "cert verify-chain"), WithValue(Single("untrusted"), "opt"), F(Single("crl_check"), "unserved"), Script}),
   digest |-> Use("openssl", {Reading(<<"dgst">>, "hash"), Reading(<<"x509">>, "cert inspect"), Writing(<<"genrsa">>)}, {Script, Opt(Single("sha256"))}),
   helm |-> Use("helm",
     {Reading(<<"list">>, "helm list"), Reading(<<"ls">>, "helm list"), Reading(<<"repo", "list">>, "helm repo-list"), Reading(<<"dep", "list">>, "helm dependency-list"),
      Writing(<<"repo", "add">>), Writing(<<"install">>), Writing(<<"dependency", "update">>)},
     {Opt(Short(<<"A">>)), Phrased(<<Long("namespace"), Word("list")>>, "opt"), Script}),
   nix |-> Use("nix",
     {Reading(<<"flake", "info">>, "nix flake-metadata"), Reading(<<"eval">>, "nix eval"), Reading(<<"show-derivation">>, "nix derivation-show"),
      Writing(<<"profile", "remove">>), Writing(<<"registry", "add">>), Writing(<<"flake", "update">>)},
     {Opt(Long("json")), Script}),
   impure |-> Use("nix", {Verb(<<"eval">>, "makes", "nix eval")}, {F(Long("impure"), "name"), Opt(Long("json"))}),
   store |-> PlainUse("nix-store", None,
     {Serving(<<Long("query"), Long("references")>>, "nix references"), Script}),
   garbage |-> PlainUse("nix-store", None, {F(Long("delete"), "write"), Script}),
   sysctl |-> PlainUse("sysctl", None,
     {Serving(<<Word("x")>>, "linux sysctl"), F(Word("k=v"), "write"), F(Short(<<"w">>), "write"), Serving(<<Short(<<"a">>)>>, "linux sysctl"), F(Long("system"), "write")}),
   sqlite |-> PlainUse("sqlite3", None, {Script, Serving(<<Word("select")>>, "sqlite"), Serving(<<Word(".tables")>>, "sqlite")}),
   insert |-> PlainUse("sqlite3", None, {Script, F(Word("insert"), "write")}),
   gh |-> Use("gh", {Reading(<<"pr", "list">>, "gh pr-list"), Reading(<<"issue", "view">>, "gh issue-view"), Writing(<<"pr", "merge">>), Writing(<<"repo", "delete">>)},
     {Script, Phrased(<<Short(<<"R">>), Word("list")>>, "opt")}),
   requests |-> Use("gh", {Reading(<<"api">>, "gh api")},
     {Script, Phrased(<<Short(<<"X">>), Word("POST")>>, "write"), Phrased(<<Short(<<"f">>), Word("a=b")>>, "write"), Opt(Long("paginate"))}),
   lxc |-> Use("lxc", {Reading(<<"image", "list">>, "lxc image-list"), Reading(<<"config", "show">>, "lxc config-show"), Writing(<<"image", "delete">>), Writing(<<"config", "set">>)}, {Script}),
   docker |-> Use("docker", {Reading(<<"ps">>, "docker ps"), Writing(<<"rm">>)}, {Script, Opt(Short(<<"a">>))}),
   talos |-> Use("talosctl", {Reading(<<"get">>, "talos get"), Writing(<<"reset">>)}, {Phrased(<<Short(<<"n">>), Word("get")>>, "opt")}),
   python |-> PlainUse("python", None,
     {WithValue(Short(<<"c">>), "code"), F(Word("f.py"), "script"), Phrased(<<Short(<<"W">>), Word("x")>>, "opt"), Opt(Short(<<"u">>)),
      WithValue(Short(<<"I", "c">>), "code"), Phrased(<<Short(<<"m">>), Word("venv")>>, "script"), F(Short(<<>>), "code")}),
   node |-> PlainUse("node", None,
     {WithValue(Short(<<"p", "e">>), "code"), F(Word("f.js"), "script"), Phrased(<<Long("require"), Word("x")>>, "opt"), F(Long("test"), "script"),
      Opt(LongIs("import", "x")), WithValue(Long("eval"), "code")}),
   ruby |-> PlainUse("ruby", None,
     {WithValue(Short(<<"n", "e">>), "code"), F(Word("f.rb"), "script"), Phrased(<<Short(<<"r">>), Word("x")>>, "opt"), Opt(Short(<<"F", "e">>))}),
   php |-> PlainUse("php", None,
     {WithValue(Short(<<"r">>), "code"), F(Word("f.php"), "script"), Phrased(<<Short(<<"d">>), Word("x")>>, "opt"), WithValue(Short(<<"f">>), "script")}),
   sed |-> PlainUse("sed", None, {F(Word("s/a/b/"), "code"), Opt(Short(<<"n">>))}),
   awk |-> PlainUse("awk", None, {F(Word("{print}"), "code"), WithValue(Short(<<"f">>), "code"), WithValue(Short(<<"F">>), "opt")}),
   perl |-> PlainUse("perl", None, {WithValue(Short(<<"n", "e">>), "code"), Script}),
   deno |-> [Use("deno", {F(Word("eval"), "code"), Phrased(<<Word("run"), Short(<<>>)>>, "code"), F(Short(<<>>), "code"), F(Word("f.ts"), "script"),
                          Phrased(<<Word("run"), Word("f.ts")>>, "script")},
                 {Script, Opt(Long("quiet"))}) EXCEPT !.globals = {Opt(Long("quiet"))}]]

-----------------------------------------------------------------------------
(* Metrics: answers of every shape, texts with quotes, backslashes and     *)
(* lines, instances that spell a bound in two ways or have a bound of      *)
(* their own.                                                              *)
Order ==
  <<"tab", "nl", "cr", " ", "!", "quote", ",", "-", "0", "1", "2", "3", "5", "9", "=", "A", "B", "bs", "__name__", "active", "alertname",
    "annotations", "app", "firing", "inactive", "job", "le", "n", "path", "pending", "suppressed", "unknown", "up", "x", "y", "{", "}", "~">>
MCRank == [c \in {Order[i] : i \in DOMAIN Order} |-> CHOOSE i \in DOMAIN Order : Order[i] = c]
MCBuckets == [a |-> {"1", "inf"}, b |-> {"1", "inf"}, c |-> {"1.0", "2", "inf"}]
MCDeployments == {{"a", "b"}, {"b", "c"}}
MCValue == ("1" :> 1) @@ ("1.0" :> 1) @@ ("2" :> 2) @@ ("inf" :> 99)

Texted(c) == [kind |-> "text", of |-> <<c>>]
Txt(s) == [kind |-> "text", of |-> s]
N(c) == [kind |-> "number", of |-> <<c>>]
NullValue == [kind |-> "null", of |-> None]
B(b) == [kind |-> "bool", of |-> b]
O(of) == [kind |-> "object", of |-> of]
Elements(of) == [kind |-> "list", of |-> of]
WrongShapes == {Texted("x"), Elements(<<Texted("x"), N("1"), O(<<>>)>>), O([alerts |-> Texted("x"), result |-> Elements(<<>>)]), NullValue}

(* Values that hold what a set of labels is written with.                  *)
Tricky == {<<"x">>, <<"bs">>, <<"bs", "quote">>, <<"quote", ",", "app", "=", "quote", "x">>, <<"nl">>, <<>>}
LabelSets == {O([app |-> Txt(v)]) : v \in Tricky} \cup {O([app |-> Txt(v), path |-> Txt(w)]) : v \in {<<"x", "bs">>, <<"y">>}, w \in {<<"quote">>, <<"x">>}} \cup {O(<<>>)}
All == FoldSet(LAMBDA l, s : Append(s, l), <<>>, LabelSets)
Sample(ts, v) == Elements(<<N(ts), Txt(v)>>)
Result(type, of) == O([resultType |-> Texted(type), result |-> of])
Vectors == {Result("vector", Elements([i \in DOMAIN All |-> O([metric |-> All[i], value |-> Sample("1", <<"5">>)])])),
            Result("vector", Elements(<<O([value |-> Sample("1", <<"5">>)])>>)),
            Result("vector", Elements(<<O([metric |-> O(<<>>)])>>)), Result("vector", Elements(<<>>))}
Matrices == {Result("matrix", Elements(<<O([metric |-> All[1], values |-> Elements(<<Sample("2", <<"5">>), Sample("1", <<"9">>)>>)]), O([metric |-> All[2], values |-> Elements(<<>>)])>>)),
             Result("matrix", Elements(<<O([metric |-> All[1]])>>)), Result("matrix", Elements(<<O([metric |-> All[1], values |-> Elements(<<Elements(<<N("1")>>)>>)])>>))}
Streams == {Result("streams", Elements(<<O([stream |-> All[3], values |-> Elements(<<Elements(<<Texted("2"), Txt(<<"x", "cr", "nl", "tab">>)>>), Elements(<<Texted("1"), Txt(<<"y">>)>>)>>)]),
                                  O([stream |-> All[4], values |-> Elements(<<Elements(<<Texted("1"), Txt(<<"tab">>)>>)>>)])>>)),
            Result("streams", Elements(<<O([stream |-> All[1], values |-> Elements(<<Elements(<<N("1"), Texted("x")>>)>>)])>>))}
Scalars == {Result("scalar", Sample("1", <<"5">>)), Result("string", Elements(<<Texted("1"), Txt(<<"x", "nl", "y">>)>>)), Result("scalar", N("1"))}
Answers == Vectors \cup Matrices \cup Streams \cup Scalars \cup WrongShapes

Labelled(name, job) == [alertname |-> Texted(name), job |-> Texted(job), instance |-> Texted(job)]
PromAlerts ==
  <<O([labels |-> O(Labelled("B", "x")), state |-> Texted("firing"), value |-> N("1"), annotations |-> O([summary |-> Txt(<<"x", "cr", "nl", "y">>)])]),
    O([labels |-> O(Labelled("A", "x")), state |-> Texted("pending"), value |-> Texted("2"), activeAt |-> Texted("1")]),
    O([labels |-> O(Labelled("A", "x")), state |-> Texted("firing")]), O([labels |-> O(Labelled("A", "y")), state |-> Texted("firing")]),
    O([state |-> Texted("inactive"), value |-> NullValue]), O(<<>>)>>
AmAlerts ==
  <<O([labels |-> O(Labelled("A", "y")), status |-> O([state |-> Texted("active")])]), O([labels |-> O(Labelled("A", "x")), status |-> O([state |-> Texted("suppressed")])]),
    O([labels |-> O(Labelled("A", "x")), status |-> O([state |-> Texted("active")])]), O([labels |-> O(Labelled("B", "x"))])>>
M(v, flags) == O([name |-> Texted("path"), value |-> Txt(v)] @@ flags)
Silences ==
  <<O([id |-> Texted("2"), status |-> O([state |-> Texted("active")]), matchers |-> Elements(<<M(<<"x", "quote">>, <<>>), M(<<"bs">>, [isRegex |-> B(TRUE)]), M(<<"nl">>, [isEqual |-> B(FALSE)])>>)]),
    O([id |-> Texted("1"), status |-> O([state |-> Texted("active")]), matchers |-> Elements(<<M(<<"bs", "quote", ",">>, [isEqual |-> B(FALSE), isRegex |-> B(TRUE)])>>), comment |-> Txt(<<"nl">>)]),
    O([id |-> Texted("3"), status |-> O([state |-> Texted("pending")])])>>
Targets ==
  <<O([labels |-> O(Labelled("A", "y")), health |-> Texted("up")]), O([labels |-> O(Labelled("A", "x")), health |-> Texted("up"), lastError |-> Txt(<<"nl", "x">>)]),
    O([labels |-> O(Labelled("A", "x")), health |-> Texted("unknown")]), O(<<>>)>>
Rule(name, state) == O([name |-> Texted(name), query |-> Texted("x")] @@ IF state = None THEN <<>> ELSE [state |-> Texted(state)])
Groups == <<O([name |-> Texted("B"), rules |-> Elements(<<Rule("y", "firing"), Rule("x", None)>>)]), O([name |-> Texted("A"), rules |-> Elements(<<Rule("y", "inactive"), Rule("y", "firing")>>)]), O([name |-> Texted("x")])>>
Metadata ==
  {O([up |-> Elements(<<O([type |-> Texted("x"), help |-> Txt(<<"y", "nl">>)]), O([type |-> Texted("x"), help |-> Texted("x"), unit |-> Texted("1")])>>), app |-> Elements(<<O(<<>>)>>)]),
   O([up |-> Texted("x")]), O(<<>>)}
Tsdb == {O([headStats |-> O([numSeries |-> N("2"), maxTime |-> NullValue]), memoryInBytesByLabelName |-> Elements(<<O([name |-> Texted("x"), value |-> N("9")]), O(<<>>)>>),
            seriesCountByMetricName |-> Elements(<<O([name |-> Texted("up"), value |-> N("3")])>>)]), O(<<>>)}
Strings == {Elements(<<Texted("y"), Texted("x"), Texted("x")>>), Elements(<<>>), Elements(<<Texted("x"), N("1")>>)}
Series == {Elements(All), Elements(Reverse(All)), Elements(<<O([__name__ |-> Texted("up"), app |-> Texted("x")]), O([app |-> Texted("x")] @@ ("__name__" :> Texted("up")))>>), Elements(<<>>)}

Told(of) == of \cup WrongShapes
MCData ==
  [prom |-> [alerts |-> Told({O([alerts |-> Elements(PromAlerts)]), O([alerts |-> Elements(Reverse(PromAlerts))]), O([alerts |-> Elements(<<>>)])}),
             rules |-> Told({O([groups |-> Elements(Groups)]), O([groups |-> Elements(Reverse(Groups))])}), targets |-> Told({O([activeTargets |-> Elements(Targets)])}),
             metadata |-> Metadata \cup {Texted("x"), NullValue}, series |-> Told(Series), query |-> Answers, range |-> Answers,
             labels |-> Told(Strings), values |-> Told(Strings), flags |-> {O([x |-> Texted("1"), app |-> Txt(<<"x", "nl">>), y |-> NullValue]), NullValue, Elements(<<>>)},
             tsdb |-> Tsdb \cup {Elements(<<>>)}, config |-> {O([yaml |-> Txt(s)]) : s \in {<<"x", "cr", "nl", "nl", "y", "cr">>, <<"x", "nl">>, <<>>}} \cup WrongShapes,
             histogram |-> {Texted("x"), Result("matrix", Elements(<<>>)), Result("vector", Elements(<<O(<<>>)>>)), Result("vector", Elements(<<>>)),
                           Result("vector", Elements(<<O([metric |-> O([le |-> Texted("1")]), value |-> Sample("1", <<None>>)])>>))}],
   am |-> [alerts |-> {Elements(AmAlerts), Elements(Reverse(AmAlerts)), O(<<>>)}, silences |-> {Elements(Silences), Elements(Reverse(Silences)), O(<<>>)}],
   loki |-> [query |-> Answers, range |-> Answers, series |-> Told(Series), labels |-> Told(Strings), values |-> Told(Strings)]]

(* Durations of up to two parts, with what they mean.                      *)
Part(n, digits, unit, seconds) == [text |-> digits \o <<unit>>, means |-> n * seconds]
Parts ==
  {Part(n.is, n.digits, u.is, u.s) : n \in {[is |-> 0, digits |-> <<"0">>], [is |-> 3, digits |-> <<"3">>], [is |-> 12, digits |-> <<"1", "2">>]},
     u \in {[is |-> "s", s |-> 1], [is |-> "h", s |-> 3600], [is |-> "w", s |-> 604800]}}
Largest == 2000000
Fits(d) == IF d.means > Largest THEN [d EXCEPT !.means = None] ELSE d
Wrongly == {[text |-> t, means |-> None] : t \in {<<>>, <<"1">>, <<"h">>, <<"1", "h", "3">>, <<"1", "x">>, <<"1", " ", "h">>} \cup {[i \in 1..8 |-> "9"]}}
Durations ==
  {Fits(p) : p \in Parts} \cup {Fits([text |-> p.text \o q.text, means |-> p.means + q.means]) : p, q \in Parts} \cup Wrongly
Five == [text |-> <<"5", "m">>, means |-> 300]

MetricAsk(server, op) ==
  [server |-> server, op |-> op, endpoint |-> TRUE, json |-> FALSE, limit |-> None, flags |-> {}, only |-> None,
   times |-> IF op = "range" THEN [since |-> Five, step |-> Five] ELSE IF op = "histogram" THEN [window |-> Five] ELSE <<>>,
   labels |-> None, meant |-> None]
PlainAsk == {MetricAsk(s, op) : s \in {"prom", "loki"}, op \in {"query", "range", "series", "labels", "values"}}
         \cup {MetricAsk("prom", op) : op \in {"alerts", "rules", "targets", "metadata", "flags", "tsdb", "config", "histogram"}}
         \cup {MetricAsk("am", op) : op \in {"alerts", "silences"}}
Pair(k, v) == [key |-> <<k>>, value |-> v]
Spelled(pair) == pair.key \o <<"=">> \o pair.value
Joined(texts) == FlattenSeq([i \in DOMAIN texts |-> IF i = 1 THEN texts[i] ELSE <<",">> \o texts[i]])
Selector(pairs) == [text |-> Joined([i \in DOMAIN pairs |-> Spelled(pairs[i])]), meant |-> pairs]
Selectors ==
  {Selector(<<Pair("app", <<"bs">>), Pair("path", <<"quote", "bs">>), Pair("x", <<"=", "y">>), Pair("y", <<>>)>>), Selector(<<Pair("app", <<"nl">>)>>)}
  \cup {[text |-> t, meant |-> None] : t \in {<<"x">>, <<"=", "x">>, <<"app", "=", "x", ",">>}}
MetricCommands ==
  PlainAsk \cup {[c EXCEPT !.json = TRUE] : c \in PlainAsk \ {MetricAsk("prom", "histogram")}} \cup {[c EXCEPT !.limit = 2] : c \in PlainAsk}
  \cup {[c EXCEPT !.limit = 0] : c \in PlainAsk \ {MetricAsk("prom", "histogram")}}
  \cup {[MetricAsk("prom", "alerts") EXCEPT !.flags = f, !.only = o] : f \in {{"all"}, {"firing"}, {"pending"}}, o \in {None, {<<"A">>}}}
  \cup {[MetricAsk("am", op) EXCEPT !.flags = {"all"}] : op \in {"alerts", "silences"}}
  \cup {[MetricAsk(s, "alerts") EXCEPT !.flags = {"unreadable"}, !.json = j] : s \in {"prom", "am"}, j \in BOOLEAN}
  \cup {[MetricAsk("am", "alerts") EXCEPT !.only = {<<"A">>}], [MetricAsk("prom", "rules") EXCEPT !.flags = {"firing"}]}
  \cup {[MetricAsk("prom", "targets") EXCEPT !.flags = f, !.only = o] : f \in {{}, {"down"}}, o \in {None, {<<"x">>}}}
  \cup {[MetricAsk("prom", "labels") EXCEPT !.endpoint = FALSE, !.json = TRUE]}
  \cup {[MetricAsk(s, "range") EXCEPT !.times[t] = d, !.json = TRUE, !.limit = 0] : s \in {"prom", "loki"}, t \in {"since", "step"}, d \in Durations}
  \cup {[MetricAsk("prom", "histogram") EXCEPT !.times.window = d, !.json = TRUE, !.limit = 0, !.endpoint = FALSE] : d \in Wrongly}
  \cup {[MetricAsk("prom", "histogram") EXCEPT !.labels = l.text, !.meant = l.meant, !.limit = 0, !.json = TRUE] : l \in Selectors}
  \cup {[MetricAsk("prom", "series") EXCEPT !.times = [start |-> Five, end |-> d]] : d \in {Five} \cup Wrongly}
=============================================================================
