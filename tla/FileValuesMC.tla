---------------------------- MODULE FileValuesMC -----------------------------
(* Values for TLC of the constants of FileWalks, FileReads, Tables,        *)
(* LocalTools, Fleet, Containers and Machine.                              *)
EXTENDS Integers, Sequences, FiniteSets, TLC

CONSTANTS None, Torn

(* FileWalks: files that are equal, equal in size only, hidden, in a       *)
(* skipped directory and behind a link.                                    *)
F(data, time) == [type |-> "file", data |-> data, mtime |-> time, to |-> None]
D == [type |-> "dir", data |-> <<0>>, mtime |-> 3, to |-> None]
L(to) == [type |-> "link", data |-> <<0>>, mtime |-> 3, to |-> to]
Small == (<<"a">> :> D) @@ (<<"a", "x">> :> F(<<1, 1>>, 5)) @@ (<<"b">> :> F(<<1, 1>>, 2)) @@ (<<"c">> :> F(<<2>>, -1))
MCTrees ==
  {Small @@ (<<".h">> :> F(<<1, 1>>, 8)) @@ (<<"target">> :> D) @@ (<<"target", "x">> :> F(<<1, 1>>, 1)),
   Small @@ (<<"l">> :> L(<<"b">>)) @@ (<<"a", "l">> :> L(<<"a">>)),
   (<<"b">> :> F(<<1, 2>>, 2)) @@ (<<"c">> :> F(<<1, 2>>, 2)) @@ (<<"x">> :> F(<<2, 1>>, 4)) @@ (<<"a">> :> D)}
MCWrites == {<<<<"b">>, <<2, 1>>>>, <<<<"b">>, <<1, 2, 3>>>>, <<<<"a", "y">>, <<1, 1>>>>, <<<<"c">>, <<2>>>>, <<<<"a">>, <<1, 1>>>>}
MCRank == [n \in {".h", "a", "b", "c", "l", "target", "x", "y"} |->
             CASE n = ".h" -> 1 [] n = "a" -> 2 [] n = "b" -> 3 [] n = "c" -> 4 [] n = "l" -> 5 [] n = "target" -> 6
               [] n = "x" -> 7 [] OTHER -> 8]

Walk(op) == [op |-> op, hidden |-> FALSE, follow |-> FALSE, depth |-> None, type |-> None, match |-> None,
            size |-> None, time |-> None, newer |-> None, min |-> 1, top |-> 2, sort |-> "name", limit |-> None]
Follow(c) == [c EXCEPT !.follow = TRUE]
Hidden(c) == [c EXCEPT !.hidden = TRUE]
Glob(type, match, sort) == [Walk("glob") EXCEPT !.type = type, !.match = match, !.sort = sort]
Largest == [Walk("largest") EXCEPT !.sort = "largest"]
Every == {<<"a", "x">>, <<"b">>, <<"c">>, <<"a", "y">>, <<".h">>}
WalkCommands ==
  {Glob("file", Every, s) : s \in {"name", "modified", "size", "none"}}
  \cup {Glob("dir", {<<>>, <<"a">>, <<"target">>}, "name"), Follow(Glob("file", {<<"l">>, <<"b">>}, "name")),
        [Glob("link", {<<"l">>, <<"a", "l">>}, "name") EXCEPT !.limit = 1],
        [Hidden(Glob("file", Every, "name")) EXCEPT !.depth = 1]}
  \cup {[Walk("find") EXCEPT !.size = s] : s \in {<<"min", 1>>, <<"max", 2>>, <<"range", 2, 1>>, <<"range", 1, 2>>, <<"exact", 2>>}}
  \cup {[Walk("find") EXCEPT !.time = t] : t \in {<<"older", 6>>, <<"newer", 6>>, <<"range", 0, 2>>, <<"range", 3, 2>>}}
  \cup {[Walk("find") EXCEPT !.newer = p, !.type = "file"] : p \in {<<"b">>, <<"y">>}}
  \cup {[Walk("find") EXCEPT !.size = <<"exact", 2>>, !.type = "dir"]}
  \cup {[Walk("find") EXCEPT !.match = {"x", "l", "target"}], Follow(Walk("find"))}
  \cup {Largest, Hidden(Largest), [Largest EXCEPT !.top = 0], [Largest EXCEPT !.limit = 1, !.min = 2]}
  \cup {Walk("duplicates"), Follow(Hidden(Walk("duplicates"))), [Walk("duplicates") EXCEPT !.limit = 1]}
  \cup {Walk("tree"), [Walk("tree") EXCEPT !.depth = 1], [Hidden(Walk("tree")) EXCEPT !.type = "dir"], [Walk("tree") EXCEPT !.limit = 1],
          [Walk("tree") EXCEPT !.limit = 2]}

-----------------------------------------------------------------------------
(* FileReads: tables whose columns stand in a different order, a first     *)
(* line that is blank, a last line without end.                            *)
File(lines, ended) == [kind |-> "file", mtime |-> 1, lines |-> lines, ended |-> ended]
Dir(names) == [kind |-> "dir", mtime |-> 2, lines |-> names, ended |-> FALSE]
One == File(<<<<"n", "v">>, <<"x", "1">>, <<"y", "2">>>>, TRUE)
Two == File(<<<<"v", "n">>, <<"1", "x">>, <<"3">>>>, FALSE)
Blank == File(<<<<"">>, <<"n", "v">>, <<"y", "", "2">>>>, TRUE)
Store(a, b, three) == ("a" :> a) @@ ("b" :> b) @@ ("3" :> three)
MCStores ==
  {Store(One, Two, None), Store(Blank, One, File(<<>>, FALSE)), Store(None, Dir(<<<<"x">>>>), Blank)}
MCDays == {-719469, -719468, -141428, -135081, -135080, -1, 0, 58, 59, 60, 364, 365, 789, 790, 11015, 11016, 11017, 47540, 47541, 47542, 47846}
MCSizes == {0, 1, 1023, 1024, 1075, 1076, 1126, 1127, 10189, 10239, 10240, 1048524, 1048525, 1048575, 1048576, 1100000, 134217728}

Reading(op, args) == [op |-> op, args |-> args, limit |-> None, spec |-> None, exclude |-> None, offset |-> 0,
                  bytes |-> FALSE, fields |-> [kind |-> "at", of |-> <<2, 1>>], header |-> FALSE, skip |-> FALSE,
                  unique |-> FALSE, filter |-> None, max |-> None, cols |-> {}]
Named(c, names) == [c EXCEPT !.header = TRUE, !.fields = [kind |-> "names", of |-> names]]
Ranges == {<<None, 0>>, <<None, 1>>, <<None, 9>>, <<1, None>>, <<3, None>>, <<2, 2>>, <<2, 1>>, <<1, 9>>}
All == <<"a", "b", "3">>
ReadCommands ==
  {[Reading("wc", a) EXCEPT !.limit = n] : a \in {All, <<"b">>, <<"-", "a", "a">>}, n \in {None, 2, 3}}
  \cup {[Reading("wc", All) EXCEPT !.cols = {1, 3}], Reading("stat", All), [Reading("stat", All) EXCEPT !.limit = 1]}
  \cup {[Reading("read", <<"a">>) EXCEPT !.spec = r, !.limit = n] : r \in Ranges, n \in {None, 1}}
  \cup {[Reading("read", <<"b">>) EXCEPT !.exclude = x, !.offset = n] : x \in {<<<<2, 2>>, <<None, 1>>>>, <<<<1, 1>>>>}, n \in {0, 1}}
  \cup {[Reading("head", a) EXCEPT !.limit = n, !.bytes = b] : a \in {<<"b">>, <<"3">>}, n \in {0, 2}, b \in BOOLEAN}
  \cup {Reading("head", a) : a \in {<<"b">>, <<"3">>, <<"-">>}}
  \cup {[Reading("cut", <<"a", "b">>) EXCEPT !.fields = f, !.max = m] :
          f \in {[kind |-> "at", of |-> <<2, 1>>], [kind |-> "from", of |-> <<2>>]}, m \in {None, 1, 2}}
  \cup {[Named(Reading("cut", <<"a", "b">>), <<"v">>) EXCEPT !.unique = u, !.limit = n, !.skip = s] :
          u \in BOOLEAN, n \in {None, 2}, s \in BOOLEAN}
  \cup {[Named(Reading("cut", <<"3", "a">>), <<"v">>) EXCEPT !.skip = s] : s \in BOOLEAN}
  \cup {[Named(Reading("cut", <<"a", "b">>), <<"v", "n">>) EXCEPT !.filter = f] : f \in {<<1, "y">>, <<2, "x">>}}

-----------------------------------------------------------------------------
(* Tables: two tables with the same columns in another order, ragged       *)
(* records, a torn one, an empty file.                                     *)
S(k) == <<"string", k>>
N(k) == <<"integer", k>>
Header == <<S(1), S(2)>>
Upright == <<Header, <<S(8), N(3)>>, <<N(2), N(5)>>, <<S(9)>>>>
Swapped == <<<<S(2), S(1)>>, <<N(3), S(8)>>, <<<<"float", -4>>, <<"bool", 1>>>>, <<<<"empty", 0>>, <<"empty", 0>>, N(7)>>>>
Broken == <<Header, <<S(8), N(3)>>, Torn, <<S(8), N(3)>>>>
Double == <<<<S(1), S(1)>>, <<<<"bool", 0>>, N(1)>>>>
MCTabs ==
  {[a |-> Upright, b |-> Swapped], [a |-> Swapped, b |-> Broken], [a |-> <<>>, b |-> Upright], [a |-> <<Torn>>, b |-> Double], [a |-> None, b |-> Swapped]}

Ask(op, args) == [op |-> op, args |-> args, columns |-> None, filters |-> <<>>, bare |-> FALSE, types |-> FALSE,
                  strict |-> FALSE, quiet |-> FALSE, sample |-> None, limit |-> None]
Both == <<"a", "b">>
Name(k) == <<"name", S(k)>>
At(i) == <<"index", i>>
Where(r, cell) == [ref |-> r, is |-> cell]
TableCommands ==
  {[Ask("headers", Both) EXCEPT !.types = t, !.sample = n] : t \in BOOLEAN, n \in {0, 1, None}}
  \cup {[Ask("headers", Both) EXCEPT !.limit = 1]}
  \cup {[Ask("query", Both) EXCEPT !.columns = c, !.limit = n] : c \in {None, <<Name(2), Name(1)>>, <<At(3), At(1)>>}, n \in {None, 0, 2}}
  \cup {[Ask("query", Both) EXCEPT !.columns = <<Name(2)>>, !.filters = f] :
          f \in {<<Where(Name(1), S(8))>>, <<Where(Name(1), S(8)), Where(At(2), N(3))>>, <<Where(Name(3), S(8))>>}}
  \cup {[Ask("query", Both) EXCEPT !.bare = TRUE, !.columns = c] : c \in {<<At(1)>>, <<Name(1)>>}}
  \cup {[Ask("stats", <<"b">>) EXCEPT !.columns = c, !.sample = n] : c \in {None, <<At(2)>>, <<At(3)>>, <<Name(1)>>}, n \in {None, 1}}
  \cup {[Ask("stats", <<"a">>) EXCEPT !.bare = TRUE], Ask("stats", Both)}
  \cup {[Ask("validate", Both) EXCEPT !.strict = s, !.quiet = q, !.limit = n] : s \in BOOLEAN, q \in BOOLEAN, n \in {None, 0}}
-----------------------------------------------------------------------------
(* LocalTools: answers of every shape, with lines and tabs in their texts. *)
Order ==
  <<"tab", "nl", "cr", " ", "#", ",", "-", ".", "a", "apps", "b", "c", "default", "derivation", "false", "hello", "json", "n1", "n2",
    "oci", "packages", "true", "type", "x", "y">>
ToolRank == [c \in {Order[i] : i \in DOMAIN Order} |-> CHOOSE i \in DOMAIN Order : Order[i] = c]
MCPaths == <<"etcd", "kubelet">>

T(s) == [kind |-> "text", of |-> s]
NumberAs(c) == [kind |-> "number", of |-> <<c>>]
Null == [kind |-> "null", of |-> None]
B(b) == [kind |-> "bool", of |-> b]
O(of) == [kind |-> "object", of |-> of]
ListOf(of) == [kind |-> "list", of |-> of]
X == T(<<"x">>)
Lined == T(<<"x", "cr", "nl", "tab", "y">>)

Release == O([name |-> X, namespace |-> T(<<"a">>), revision |-> NumberAs("1"), updated |-> Null, status |-> X, chart |-> Lined, app_version |-> ListOf(<<>>), description |-> Lined])
Found == O([name |-> X, url |-> T(<<"oci", "y">>), version |-> NumberAs("1"), app_version |-> Lined, description |-> Lined, repository |-> O([name |-> T(<<"y", "nl">>)])])
Lists == {ListOf(<<>>), ListOf(<<Release>>), ListOf(<<Found, Release, O(<<>>)>>), ListOf(<<X, Found, Null>>), ListOf(<<X>>), O(<<>>), O([name |-> X]), X, Torn, None}
Singles ==
  {O(<<>>), O([name |-> Lined, info |-> O([status |-> X, notes |-> T(<<"tab", "nl", " ">>)])]), O([info |-> O([notes |-> Lined]), namespace |-> NumberAs("1")]),
   O([locked |-> O([rev |-> X]), path |-> T(<<"y", "tab">>), url |-> Lined, version |-> NumberAs("1"), trustedPublicKeys |-> ListOf(<<X>>), original |-> X]),
   ListOf(<<>>), X, Null, Torn, None}
Leaf(t) == O([type |-> T(t), description |-> Lined])
Shows ==
  {O(<<>>), O([packages |-> O([a |-> O(<<>>), b |-> O(<<>>)])]),
   O([packages |-> O([a |-> O([hello |-> Leaf(<<"derivation">>), default |-> O([type |-> X])]), b |-> O([hello |-> O(<<>>)])]), apps |-> O([a |-> O([x |-> Leaf(<<"x">>)])])]),
   O([packages |-> O([type |-> O([type |-> X, hello |-> Leaf(<<"x">>)]), a |-> ListOf(<<Leaf(<<"x">>)>>)]), default |-> Leaf(<<"y">>)]),
   Leaf(<<"x">>), ListOf(<<>>), X, Torn, None}
Info == O([narSize |-> NumberAs("1"), deriver |-> Lined, signatures |-> ListOf(<<X, NumberAs("1"), T(<<"y">>)>>)])
Infos == {O(<<>>), O([x |-> Info, a |-> Null]), O([y |-> O([sigs |-> ListOf(<<X>>), closureSize |-> NumberAs("2")]), b |-> Info, a |-> O(<<>>)]),
          ListOf(<<>>), ListOf(<<O([path |-> X, narSize |-> NumberAs("1")]), O(<<>>)>>), ListOf(<<O([path |-> NumberAs("1")])>>), X, Torn, None}
Element == O([storePaths |-> ListOf(<<X, T(<<"y">>)>>), originalUrl |-> X, attrPath |-> T(<<"y">>)])
Profiles == {O(<<>>), O([elements |-> O(<<>>)]), O([elements |-> O([hello |-> Element, a |-> O([attrPath |-> X])])]),
             O([elements |-> ListOf(<<Element, O([originalUrl |-> X, storePaths |-> ListOf(<<>>)]), X>>)]), O([elements |-> X]), ListOf(<<>>), Torn, None}
Texts == {<<>>, <<<<" ">>>>, <<<<"x">>, <<>>, <<"y">>>>, <<<<" ">>, <<"x">>>>}
Word(s) == [kind |-> "word", of |-> s]
Registries == {<<>>, <<<<"a", "x", "y">>, <<"b", "x">>, <<"b", "x", "y", "a">>>>, <<<<"c", "x">>, <<>>>>}
References == {<<>>, <<<<" ">>>>, <<<<"y">>, <<"x">>, <<" ", "tab">>, <<"y", "cr">>, <<" ", "x">>>>}

Warn == [kind |-> "warning", of |-> <<<<"x">>>>]
Row(name) == [kind |-> "row", of |-> <<<<name, " ">>, <<"x", " ", " ">>, <<>>, <<"y">>>>]
Gap == [kind |-> "blank", of |-> <<>>]
Heading == [kind |-> "heading", of |-> <<>>]
Dependencies == {<<>>, <<Warn>>, <<Warn, Gap, Heading, Row("a"), Row("b"), Gap>>, <<Heading, Row("b"), Gap, Warn>>, <<Heading>>}

Finding(m) == [kind |-> "finding", severity |-> <<"a">>, path |-> <<"b">>, message |-> m]
More(m) == [kind |-> "more", message |-> m]
Chart == [kind |-> "other", message |-> <<>>]
Summary(n, failed) == [kind |-> "summary", linted |-> n, failed |-> failed]
Lints ==
  {<<>>, <<Chart, Finding(<<"x">>)>>, <<Chart, More(<<"x">>), Finding(<<"x">>), More(<<"y", "tab", "x">>), More(<<"x">>)>>,
   <<Finding(<<>>), More(<<"y">>), Chart, Finding(<<"x", "tab">>), Chart>>}
Linted ==
  {[ok |-> TRUE, out |-> Append(l, Summary(2, 0)), err |-> <<>>] : l \in Lints}
  \cup {[ok |-> FALSE, out |-> l, err |-> <<Summary(2, n)>>] : l \in Lints, n \in 1..2}
  \cup {[ok |-> FALSE, out |-> <<>>, err |-> <<[kind |-> "unreachable"]>>]}

Ran(outs) ==
  {[ok |-> TRUE, out |-> o, err |-> <<>>] : o \in outs}
  \cup {[ok |-> FALSE, out |-> None, err |-> e] : e \in {<<>>, <<[kind |-> "not found"]>>, <<[kind |-> "unreachable"]>>}}
MCOutcomes ==
  [list |-> Ran(Lists), history |-> Ran(Lists), repo_list |-> Ran(Lists), search_repo |-> Ran(Lists), search_hub |-> Ran(Lists),
   status |-> Ran(Singles), flake_metadata |-> Ran(Singles), store_info |-> Ran(Singles), flake_show |-> Ran(Shows), path_info |-> Ran(Infos),
   profile_list |-> Ran(Profiles), get |-> Ran(Texts), show |-> Ran(Texts), template |-> Ran(Texts), eval |-> Ran(Texts),
   derivation_show |-> Ran({O(<<>>), O([x |-> X]), None}), registry_list |-> Ran(Registries), references |-> Ran(References),
   dependency_list |-> Ran(Dependencies), lint |-> Linted]

Invoke(tool, op) == [tool |-> tool, op |-> op, json |-> FALSE, field |-> None, limit |-> None, path |-> "os"]
Helm == {Invoke("helm", op) : op \in {"list", "history", "repo_list", "search_repo", "search_hub", "status", "dependency_list"}}
Nix == {Invoke("nix", op) : op \in {"flake_show", "flake_metadata", "store_info", "path_info", "profile_list", "registry_list", "eval"}}
Plain == {Invoke("helm", op) : op \in {"get", "show", "template", "lint"}} \cup {Invoke("nix", op) : op \in {"derivation_show", "references"}}
ToolCommands ==
  Helm \cup Nix \cup Plain \cup {[c EXCEPT !.json = TRUE] : c \in Helm \cup Nix}
  \cup {[c EXCEPT !.limit = n] : c \in Helm \cup Nix \cup Plain, n \in 0..1}
  \cup {[Invoke("nix", "flake_metadata") EXCEPT !.field = f] : f \in {<<"path">>, <<"locked", "rev">>, <<"original", "url">>}}
  \cup {[Invoke("nix", "store_info") EXCEPT !.field = <<"url">>], [Invoke("nix", "registry_list") EXCEPT !.field = "b"], [Invoke("nix", "eval") EXCEPT !.path = None]}

-----------------------------------------------------------------------------
(* Fleet: two nodes, up or down, with files of lines, of certificates, and *)
(* of what is no certificate.                                              *)
Files(text, etcd, kubelet) == [os |-> text, etcd |-> etcd, kubelet |-> kubelet]
Up == {Files(<<<<"x">>, <<"y">>>>, <<"c1", "c2">>, <<"c3">>), Files(<<>>, None, <<"c4">>), Files(None, Torn, <<"c5", Torn>>)}
MCFleets == {[n1 |-> f, n2 |-> g] : f, g \in Up \cup {None}}
Config == [context |-> "a", contexts |-> [a |-> <<"n1", "n2">>, b |-> <<>>]]
Configs(flag, env, home) == [flag |-> flag, env |-> env, home |-> home]
Usual == Configs(None, Config, Torn)
Unusual ==
  {Configs(None, None, None), Configs(Torn, Config, Config), Configs(None, None, Config), Configs([Config EXCEPT !.context = None], Torn, None),
   Configs([Config EXCEPT !.context = "b"], None, None), Configs([Config EXCEPT !.context = "c"], None, None), Configs([Config EXCEPT !.contexts = <<>>], None, None)}

Fan ==
  {[op |-> op, field |-> None, limit |-> None, nodes |-> None, path |-> "os", configs |-> Usual] : op \in {"get", "read", "certs"}}
TalosCommands ==
  {[c EXCEPT !.limit = n, !.nodes = s] : c \in Fan, n \in {None, 0, 1, 2, 3}, s \in {None, <<"all">>, <<"n2">>, <<"n2", "">>}}
  \cup {[c EXCEPT !.configs = f] : c \in Fan, f \in Unusual}
  \cup {[c EXCEPT !.field = "unknown"] : c \in {f \in Fan : f.op = "certs"}}

-----------------------------------------------------------------------------
(* Containers: logs of a terminal and of none, lines torn over writes, and *)
(* listings with and without every field.                                  *)
MachineOrder ==
  <<"-", ".", "/", "0", "1", "127", "2", "255", "80", "81", "MemFree", "MemTotal", "a", "b", "c", "i1", "i2", "net", "tcp", "tcp6", "udp", "udp6", "w", "x">>
MachineRank == [c \in {MachineOrder[i] : i \in DOMAIN MachineOrder} |-> CHOOSE i \in DOMAIN MachineOrder : MachineOrder[i] = c]

Letters(s) == [i \in DOMAIN s |-> <<s[i]>>]
Write(stream, s) == [stream |-> stream, text |-> Letters(s)]
Container(tty, log) == [daemon |-> [tty |-> tty, log |-> log]]
Logs == {<<>>, <<Write("stdout", <<"cr", "a", "cr", "nl", "b", "cr">>)>>, <<Write("stdout", <<"a", "nl">>), Write("stderr", <<"nl", "b", "nl">>)>>, <<Write("stdout", <<"a", "nl", "b">>), Write("stdout", <<"a", "nl">>)>>}
Bodies(items) == {[daemon |-> b] : b \in items \cup {None, Torn}}
Port(public, ip, type) == [private |-> "80", public |-> public, ip |-> ip, type |-> type]
NamedBox(id, names, ports) == [id |-> <<id>>, names |-> names, ports |-> ports]
TwoPorts == NamedBox("a", <<<<"/", "x">>, <<"b">>>>, <<Port(None, None, "tcp"), Port("81", <<"0">>, None), Port("81", <<>>, "udp"), Port(None, None, None)>>)
Bare == [id |-> None, names |-> None, ports |-> None]
Image(id, tags) == [id |-> <<"sha256:", id>>, tags |-> tags]
Tagged == Image("b", <<<<"x">>, <<"x", ":", "1", ":", "2">>>>)
Address(family, scope, address) == [family |-> family, scope |-> scope, address |-> address]
Four == Address("inet", "global", <<"1">>)
Six == Address("inet6", "global", <<"2">>)
Near == Address("inet", "link", <<"0">>)
Instance(name, network) == [name |-> <<name>>, network |-> network]
ContainerHosts ==
  [logs |-> {Container(t, l) : t \in BOOLEAN, l \in Logs} \cup {[daemon |-> None], [daemon |-> Torn]},
   containers |-> Bodies({<<>>, <<TwoPorts, Bare>>}), images |-> Bodies({<<>>, <<Tagged, Image("a", None)>>, <<Tagged, Image("a", <<>>), Tagged>>}),
   config |-> Bodies({[Config |-> 1, State |-> 2, HostConfig |-> 3], [State |-> 2]}), info |-> Bodies({1}), lxc_info |-> Bodies({1}),
   lxc_config |-> Bodies({[config |-> 1, profiles |-> 2, state |-> 3]}),
   instances |-> Bodies({<<>>, <<Instance("b", None), Instance("a", <<<<Near, Four, Six>>, <<Six>>>>)>>,
                         <<Instance("c", <<<<Near, Address("inet", None, <<"1">>), Four>>, <<Six>>>>), [name |-> None, network |-> <<<<Four>>, None, <<Six>>>>]>>}),
   lxc_images |-> Bodies({<<>>, <<[id |-> <<"b">>, aliases |-> <<<<"x">>, None, <<"a">>>>], [id |-> None, aliases |-> None]>>})]

Query(op) == [op |-> op, limit |-> None, bad |-> FALSE, json |-> FALSE, all |-> FALSE, grep |-> None, path |-> None, wants |-> {},
              env |-> None, sockets |-> <<"s">>]
Sockets == {[scheme |-> s, path |-> p] : s \in {None, "unix", "tcp"}, p \in {None, "p"}}
ContainerCommands ==
  {[Query("logs") EXCEPT !.all = a, !.wants = w, !.grep = g] : a \in BOOLEAN, w \in {{}, {"stderr"}}, g \in {None, "b"}}
  \cup {[Query("logs") EXCEPT !.limit = 1, !.all = TRUE], [Query("logs") EXCEPT !.bad = TRUE]}
  \cup {[Query(o) EXCEPT !.limit = n] : o \in {"containers", "images", "instances", "lxc_images", "config", "lxc_config", "info", "lxc_info"}, n \in {None, 0, 2}}
  \cup {[Query(o) EXCEPT !.json = TRUE] : o \in {"containers", "images", "instances"}}
  \cup {[Query("config") EXCEPT !.path = p] : p \in {"Config", "State"}} \cup {[Query("lxc_config") EXCEPT !.path = "profiles"]}
  \cup {[Query(o) EXCEPT !.env = e, !.sockets = <<>>] : o \in {"info", "lxc_info"}, e \in Sockets \cup {None}}

-----------------------------------------------------------------------------
(* Machine: what /proc and files hold, and what they may come to hold      *)
(* while a command runs.                                                   *)

Settings == {Torn, <<"1", "tab", "2", "cr", "nl">>, <<"2">>}
Process(ppid, comm, args) == [ppid |-> ppid, comm |-> comm, args |-> args]
P == Process("1", <<"a", "tab">>, <<<<"a">>, <<>>, <<"cr", "b">>, <<"nl">>>>)
Q == Process("2", <<"b">>, <<<<"c">>>>)
(* One that ended and was not waited for has a name and no arguments.      *)
K == Process("2", <<"w", "tab">>, <<<<>>, <<" ">>>>)
V4(a, b) == [address |-> <<a, "0", "0", b>>, port |-> "80"]
V6(a, b) == [address |-> [i \in 1..16 |-> CASE i = 1 -> a [] i = 16 -> b [] OTHER -> "0"], port |-> "81"]
Socket(local, remote, state, inode) == [local |-> local, remote |-> remote, state |-> state, inode |-> inode]
Ones == <<None, Socket(V4("1", "127"), V4("0", "0"), "0A", 1), Socket(V4("1", "127"), V4("2", "1"), "01", 2), Socket(V4("1", "127"), V4("0", "2"), "0F", 3), Socket([V4("1", "127") EXCEPT !.port = None], V4("0", "2"), "01", 6)>>
Sixes == <<Socket(V6("1", "2"), V6("0", "0"), "0A", 4), Socket(V4("1", "0"), V6("0", "0"), "0A", 5)>>
Kv(k, v) == [key |-> k, value |-> v]
Cpu(n, model) == <<Kv("processor", n), Kv("model name", model), Kv("flags", <<"a", "b">>)>>
Procs(texts) == {[proc |-> t] : t \in texts \cup {None, <<>>}}
Six_(l) == <<"1", "2", "a", "b", "c", "x">> \o l
Sum(digest, path) == [digest |-> digest, path |-> path]
Sums == {None, Torn, <<>>, <<None>>, <<Sum(<<1>>, "f"), None, Sum(<<2>>, "g"), Sum(<<1>>, "f")>>, <<Sum(<<1>>, "f"), Torn>>}
DigitsOf(digits) == [i \in DOMAIN digits |-> <<digits[i]>>]
Signs(s) == [i \in DOMAIN s |-> <<"sign", s[i]>>]
Base64Texts ==
  {None, <<>>, DigitsOf(<<19, 22, 5, 46>>), DigitsOf(<<19, 22>>) \o Signs(<<" ">>) \o DigitsOf(<<4>>) \o Signs(<<"=">>), DigitsOf(<<19, 16>>) \o Signs(<<"=">>), DigitsOf(<<19>>), DigitsOf(<<19, 17>>),
   Signs(<<"-", "_", "-", "_">>), Signs(<<"=">>)}
MachineHosts ==
  [process |-> [{2, 10} -> {P, Q, K, None}],
   sysctl |-> [{<<"a">>, <<"net", "b">>} -> Settings \cup {None}],
   network |-> {[tcp |-> s, tcp6 |-> t, udp |-> <<>>, udp6 |-> None] : s \in {Ones, <<Ones[1]>>}, t \in {Sixes, None}},
   cpuinfo |-> Procs({Cpu(<<"1">>, <<"x">>), <<<<>>>> \o Cpu(<<"1">>, <<"x">>) \o <<<<>>, <<>>, Kv(None, None), <<>>, Kv("Features", <<"a">>), Kv("cache size", <<"8", "KB">>), <<>>>> \o Cpu(<<>>, <<"y">>)}),
   meminfo |-> Procs({<<Kv("MemTotal", <<"2", "kB">>), Kv(None, None), Kv("MemFree", <<"1">>), Kv("a", <<>>)>>}),
   mountinfo |-> Procs({<<Six_(<<"-", "ext4", "y", "rw">>), Six_(<<"s", "-", "tmpfs", "-">>), Six_(<<>>), Six_(<<"-", "z">>), <<"-", "a", "b">>>>}),
   mounts |-> Procs({<<<<"d", "m", "ext4", "rw", "0">>, <<"d", "m", "tmpfs">>, <<"e", "m", "tmpfs", "ro">>>>}),
   loadavg |-> Procs({<<<<"1", "2", "3", <<"4", "5">>, "6">>>>, <<<<"1", "2", "3", <<"4">>, "6">>>>, <<<<"1", "2">>>>}),
   uptime |-> Procs({<<<<"1", "2">>>>, <<<<"1">>>>}),
   hash |-> [{"f", "g"} -> {None, Torn, <<1>>, <<2>>}],
   verify |-> {[sums |-> s, f |-> f, g |-> g] : s \in Sums, f \in {None, <<1>>}, g \in {Torn, <<1>>, <<2>>}},
   encode |-> [{"f", "g"} -> {None, <<>>, <<255, 239, 190>>, <<1>>}],
   decode |-> {h \in [{"f", "g"} -> Base64Texts] : h["f"] = DigitsOf(<<19, 22, 5, 46>>) \/ h["g"] \in {None, DigitsOf(<<19>>), DigitsOf(<<19, 17>>)}}]

Do(op) == [op |-> op, names |-> <<>>, limit |-> None, bad |-> FALSE, all |-> FALSE, grep |-> None,
           wrap |-> None, url_safe |-> FALSE, no_pad |-> FALSE, strict |-> FALSE]
Files2 == <<"f", "g">>
MachineCommands ==
  {[Do("process") EXCEPT !.names = <<10>>], [Do("process") EXCEPT !.all = TRUE], [Do("process") EXCEPT !.all = TRUE, !.limit = 1], [Do("process") EXCEPT !.bad = TRUE]}
  \cup {[Do("sysctl") EXCEPT !.grep = g, !.limit = n] : g \in {None, "net"}, n \in {None, 1}}
  \cup {[Do("network") EXCEPT !.names = <<"tcp", "tcp6", "udp", "udp6">>, !.grep = g, !.limit = n] : g \in {None, "LISTEN"}, n \in {None, 1}}
  \cup {[Do(o) EXCEPT !.all = a, !.limit = n] : o \in {"cpuinfo", "meminfo"}, a \in BOOLEAN, n \in {None, 1}}
  \cup {[Do(o) EXCEPT !.grep = g] : o \in {"mountinfo", "mounts"}, g \in {None, "tmpfs"}} \cup {Do("loadavg"), Do("uptime")}
  \cup {[Do("hash") EXCEPT !.names = Files2, !.all = n = 0, !.limit = n] : n \in {None, 0, 1}}
  \cup {[Do("verify") EXCEPT !.limit = n] : n \in {None, 0, 1}}
  \cup {[Do("encode") EXCEPT !.names = Files2, !.wrap = w, !.url_safe = w # 3, !.no_pad = w = 3, !.limit = n] : w \in {None, 0, 3}, n \in {None, 1}}
  \cup {[Do("decode") EXCEPT !.names = Files2, !.strict = s, !.url_safe = ~s, !.limit = n] : s \in BOOLEAN, n \in {None, 2}}
=============================================================================
