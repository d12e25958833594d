----------------------------- MODULE Containers -----------------------------
(***************************************************************************)
(* sak docker and sak lxc (src/docker, src/lxc): requests to a daemon over *)
(* its socket.  Between the two requests of docker's logs the container is *)
(* recreated, or the daemon goes away.                                     *)
(*                                                                         *)
(* A text is a sequence of characters, some of them words; each character  *)
(* of what a container wrote is <<c>>.  Columns that are copied from a     *)
(* field like the ones beside them are left out of rows.                   *)
(***************************************************************************)
EXTENDS Integers, Sequences, FiniteSets, SequencesExt, TLC

CONSTANTS
  None,        \* not there, not given
  Torn,        \* there, and refused or of another shape
  Commands,    \* [op, limit, bad, ...]
  Hosts,       \* what a daemon may answer, for each command: [op -> set of [daemon |-> answer]]
  Rank,        \* the order of characters
  MaxChanges   \* bound: how often what the daemon holds changes

VARIABLES
  cmd,
  host,        \* what the daemon holds
  was,         \* everything it has held since the command began
  part,        \* <<whether there is a terminal>>, once logs has asked
  rows, code,
  changes
vars == <<cmd, host, was, part, rows, code, changes>>

Running == -1
Upto(s, n) == IF n = None \/ n >= Len(s) THEN s ELSE SubSeq(s, 1, n)
Joined(texts, by) == FlattenSeq([i \in DOMAIN texts |-> IF i = 1 THEN texts[i] ELSE by \o texts[i]])
Less(s, t) ==
  \/ IsStrictPrefix(s, t)
  \/ \E i \in DOMAIN s \cap DOMAIN t : Rank[s[i]] < Rank[t[i]] /\ SubSeq(s, 1, i - 1) = SubSeq(t, 1, i - 1)
(* A stable sort.                                                          *)
InOrder(s, Key(_)) ==
  LET Before(j, i) == Less(Key(s[j]), Key(s[i])) \/ (Key(s[j]) = Key(s[i]) /\ j <= i)
  IN [k \in DOMAIN s |-> s[CHOOSE i \in DOMAIN s : Cardinality({j \in DOMAIN s : Before(j, i)}) = k]]
Dash == <<"-">>
Or(text, default) == IF text = None THEN default ELSE text

(* The end of a listing: nothing written is nothing found.                 *)
Told(lines) == rows' = Upto(lines, cmd.limit) /\ code' = IF Upto(lines, cmd.limit) = <<>> THEN 1 ELSE 0
Ends(n) == code' = n /\ UNCHANGED rows
Still == UNCHANGED <<cmd, host, was, changes>>

-----------------------------------------------------------------------------
(* The sockets, and whose command it is.                                   *)

Docker == {"logs", "containers", "images", "config", "info"}
CONFIG_KEYS ==
  [config |-> <<"Config", "HostConfig">>, lxc_config |-> <<"config", "devices", "profiles", "expanded_config", "expanded_devices">>]
parse_docker_host(value) == IF value.scheme \in {"unix", None} /\ value.path # None THEN value.path ELSE None
discover_socket(c) ==
  CASE c.env # None -> IF c.op \in Docker THEN parse_docker_host(c.env) ELSE c.env.path
    [] c.env = None /\ c.sockets # <<>> -> Head(c.sockets)
    [] OTHER -> None
Refused == cmd.bad \/ discover_socket(cmd) = None

refuse ==
  /\ code = Running /\ Refused /\ Ends(2)
  /\ Still /\ UNCHANGED part

(* Rows of one listing.                                                    *)
Behind(mark, text) == IF text # <<>> /\ Head(text) = mark THEN Tail(text) ELSE text
container_name(item) == IF item.names \in {None, <<>>} THEN Dash ELSE Behind("/", item.names[1])
short_id(item) == IF item.id = None THEN Dash ELSE Upto(Behind("sha256:", item.id), 12)
PortText(p) ==
  (CASE p.public # None /\ p.ip \notin {None, <<>>} -> p.ip \o <<":", p.public, "->">>
     [] p.public # None /\ p.ip \in {None, <<>>} -> <<p.public, "->">>
     [] OTHER -> <<>>)
  \o <<p.private, "/", IF p.type = None THEN "tcp" ELSE p.type>>
Distinct(seq, x) == IF x \in ToSet(seq) THEN seq ELSE Append(seq, x)
format_ports(ports) ==
  LET own == IF ports = None THEN <<>> ELSE SelectSeq(ports, LAMBDA p : p.private # None)
      shown == FoldLeft(Distinct, <<>>, [i \in DOMAIN own |-> PortText(own[i])])
  IN IF shown = <<>> THEN Dash ELSE Joined(shown, <<",", " ">>)
container_row(item) == <<IF item.id = None THEN Dash ELSE Upto(item.id, 12), container_name(item), format_ports(item.ports)>>

split_repo_tag(tag) ==
  LET colons == {i \in DOMAIN tag : tag[i] = ":"}
      last == CHOOSE i \in colons : \A j \in colons : j <= i
  IN IF colons = {} THEN <<tag, <<"<none>">>>> ELSE <<SubSeq(tag, 1, last - 1), SubSeq(tag, last + 1, Len(tag))>>
image_rows(item) ==
  IF item.tags \in {None, <<>>} THEN <<<<short_id(item), <<"<none>">>, <<"<none>">>>>>>
  ELSE [i \in DOMAIN item.tags |-> <<short_id(item)>> \o split_repo_tag(item.tags[i])]

(* The first global address: an interface or an address that lacks a field *)
(* ends the search.                                                        *)
Addresses(net) == FlattenSeq([i \in DOMAIN net |-> IF net[i] = None THEN <<None>> ELSE net[i]])
first_global_address(net, family) ==
  LET all == IF net = None THEN <<>> ELSE Addresses(net)
      Lacks(a) == a = None \/ a.family = None \/ a.scope = None
      Fits(a) == ~Lacks(a) /\ a.family = family /\ a.scope = "global" /\ a.address # None
      stop == SelectInSeq(all, LAMBDA a : Lacks(a) \/ Fits(a))
  IN IF stop = 0 \/ Lacks(all[stop]) THEN Dash ELSE all[stop].address
instance_row(item) == <<Or(item.name, Dash), first_global_address(item.network, "inet"), first_global_address(item.network, "inet6")>>
format_aliases(aliases) ==
  LET names == IF aliases = None THEN <<>> ELSE SelectSeq(aliases, LAMBDA a : a # None) IN IF names = <<>> THEN Dash ELSE Joined(names, <<",">>)

SortedBy(op, items) ==
  CASE op = "containers" -> InOrder(items, container_name)
    [] op = "images" -> InOrder(items, short_id)
    [] op = "instances" -> InOrder(items, LAMBDA e : Or(e.name, <<>>))
    [] OTHER -> InOrder(items, LAMBDA e : Or(e.id, <<>>))
RowsOf(op, item) ==
  CASE op = "containers" -> <<container_row(item)>>
    [] op = "images" -> image_rows(item)
    [] op = "instances" -> <<instance_row(item)>>
    [] OTHER -> <<<<Or(item.id, Dash), format_aliases(item.aliases)>>>>
Rows(op, items) ==
  LET sorted == SortedBy(op, items) IN IF cmd.json THEN sorted ELSE FlattenSeq([i \in DOMAIN sorted |-> RowsOf(op, sorted[i])])

(* config: the subset of the inspected container, or one value in it.      *)
config_subset(op, v) == LET keys == SelectSeq(CONFIG_KEYS[op], LAMBDA k : k \in DOMAIN v) IN [i \in DOMAIN keys |-> <<keys[i], v[keys[i]]>>]
ConfigLines(op, v) ==
  CASE cmd.path = None -> IF config_subset(op, v) = <<>> THEN <<"{}">> ELSE <<"{">> \o config_subset(op, v) \o <<"}">>
    [] cmd.path # None /\ cmd.path \in ToSet(CONFIG_KEYS[op]) \cap DOMAIN v -> <<v[cmd.path]>>
    [] OTHER -> <<>>

ask ==
  /\ code = Running /\ ~Refused /\ cmd.op # "logs"
  /\ LET body == host.daemon
     IN CASE body = None -> Ends(1)
          [] body = Torn -> Ends(2)
          [] OTHER ->
               CASE cmd.op \in {"config", "lxc_config"} -> Told(ConfigLines(cmd.op, body))
                 [] cmd.op \in {"info", "lxc_info"} -> rows' = Upto(<<"{", body, "}">>, cmd.limit) /\ code' = 0
                 [] OTHER -> Told(Rows(cmd.op, body))
  /\ Still /\ UNCHANGED part

-----------------------------------------------------------------------------
(* docker logs: whether the container has a terminal, and then its log,    *)
(* which is framed if it has none.  A frame's header of eight bytes is     *)
(* <<"frame", stream, size>>.                                              *)

Streams == <<"stdout", "stderr">>
Wanted(c) == IF c.wants = {} THEN ToSet(Streams) ELSE c.wants
Asked(container) == SelectSeq(container.log, LAMBDA w : container.tty \/ w.stream \in Wanted(cmd))
Served(container) ==
  FlattenSeq([i \in DOMAIN Asked(container) |->
    LET w == Asked(container)[i] IN IF container.tty THEN w.text ELSE <<<<"frame", w.stream, Len(w.text)>>>> \o w.text])

(* Text taken for a header claims more than there is.                      *)
RECURSIVE demux_frames(_)
demux_frames(data) ==
  CASE data = <<>> -> <<>>
    [] data # <<>> /\ (Len(Head(data)) # 3 \/ Len(data) - 1 < Head(data)[3]) -> None
    [] OTHER ->
         LET n == Head(data)[3]
             rest == demux_frames(SubSeq(data, n + 2, Len(data)))
         IN IF rest = None THEN None ELSE <<<<Head(data)[2], SubSeq(data, 2, n + 1)>>>> \o rest
Chomped(line) == IF line # <<>> /\ Last(line) = <<"cr">> THEN Front(line) ELSE line
Cut(lines, c) ==
  IF c = <<"nl">> THEN Append([lines EXCEPT ![Len(lines)] = Chomped(@)], <<>>) ELSE [lines EXCEPT ![Len(lines)] = Append(@, c)]
lines(text) == LET all == FoldLeft(Cut, <<<<>>>>, text) IN IF Last(all) = <<>> THEN Front(all) ELSE all
Labelled(stream, text) == LET ls == lines(text) IN [i \in DOMAIN ls |-> <<stream, ls[i]>>]
(* As it would be with every log taken for that of a terminal.             *)
lines_from_body_Raw(body, tty) == Labelled("stdout", body)
lines_from_body(body, tty) ==
  IF tty THEN Labelled("stdout", body)
  ELSE LET frames == demux_frames(body)
       IN IF frames = None THEN None ELSE FlattenSeq([i \in DOMAIN frames |-> Labelled(frames[i][1], frames[i][2])])
Kept(ls) == SelectSeq(ls, LAMBDA l : cmd.grep = None \/ <<cmd.grep>> \in ToSet(l[2]))
LogRows(ls) == [i \in DOMAIN ls |-> IF cmd.all THEN ls[i] ELSE <<None, ls[i][2]>>]

Logging == code = Running /\ ~Refused /\ cmd.op = "logs"
inspect ==
  /\ Logging /\ part = <<>>
  /\ CASE host.daemon = None -> Ends(1) /\ UNCHANGED part
       [] host.daemon = Torn -> Ends(2) /\ UNCHANGED part
       [] OTHER -> part' = <<host.daemon.tty>> /\ UNCHANGED <<rows, code>>
  /\ Still
read_logs ==
  /\ Logging /\ part # <<>>
  /\ CASE host.daemon = None -> Ends(1)
       [] host.daemon = Torn -> Ends(2)
       [] OTHER ->
            LET ls == lines_from_body(Served(host.daemon), part[1]) IN IF ls = None THEN Ends(2) ELSE Told(LogRows(Kept(ls)))
  /\ Still /\ UNCHANGED part

-----------------------------------------------------------------------------
(* In between, the daemon may come to hold something else.                 *)

Change ==
  /\ code = Running /\ changes < MaxChanges /\ cmd.op = "logs" /\ changes' = changes + 1
  /\ \E h \in Hosts[cmd.op] : h # host /\ host' = h
  /\ was' = was \cup {host'}
  /\ UNCHANGED <<cmd, part, rows, code>>

Init ==
  /\ cmd \in Commands /\ host \in Hosts[cmd.op] /\ was = {host}
  /\ part = <<>> /\ rows = <<>> /\ code = Running /\ changes = 0
Next == refuse \/ ask \/ inspect \/ read_logs \/ Change
Spec == Init /\ [][Next]_vars

-----------------------------------------------------------------------------
(* What the commands promise.                                              *)

Over == code # Running /\ ~Refused
Sorted(s, Before(_, _)) == \A i \in 1..(Len(s) - 1) : Before(s[i], s[i + 1])

(* A log is told byte for byte, in order and under its own streams, no     *)
(* line joined to another, and an answer that cannot be taken apart is an  *)
(* error (docker/logs.rs:148-202).  The exception is a container recreated *)
(* without the terminal it had.                                            *)
Answers == {h.daemon : h \in was}
Containers == Answers \ {None, Torn}
Written(container) ==
  FlattenSeq([i \in DOMAIN Asked(container) |->
    LET w == Asked(container)[i] IN [k \in DOMAIN w.text |-> <<IF container.tty THEN "stdout" ELSE w.stream, w.text[k]>>]])
Printed == FlattenSeq([i \in DOMAIN rows |-> [k \in DOMAIN rows[i][2] |-> <<rows[i][1], rows[i][2][k]>>]])
Newlines(pairs) == Len(SelectSeq(pairs, LAMBDA p : p[2] = <<"nl">>))
ToldOf(container) ==
  LET all == Written(container)
      Break(i) == all[i][2] = <<"nl">> \/ (all[i][2] = <<"cr">> /\ i < Len(all) /\ all[i + 1][2] = <<"nl">>)
      shown == SetToSortSeq({i \in DOMAIN all : ~Break(i)}, <)
      ink == [k \in DOMAIN shown |-> all[shown[k]]]
      all_ended == \A i \in DOMAIN container.log : Last(container.log[i].text) = <<"nl">>
  IN /\ IF cmd.limit = None THEN Printed = ink ELSE IsPrefix(Printed, ink)
     /\ cmd.limit = None => Len(rows) >= Newlines(all)
     /\ cmd.limit = None /\ all_ended => Len(rows) = Newlines(all)
LogsAreTold ==
  Over /\ cmd.op = "logs" /\ Cardinality({c.tty : c \in Containers}) < 2 =>
  /\ code = 0 <=> rows # <<>>
  /\ code = 2 => Torn \in Answers
  /\ \A i \in DOMAIN rows : <<"nl">> \notin ToSet(rows[i][2]) /\ (cmd.grep # None => <<cmd.grep>> \in ToSet(rows[i][2]))
  /\ rows # <<>> /\ cmd.grep = None /\ cmd.all => \E c \in Containers : ToldOf(c)
  /\ code = 1 /\ cmd.grep = None /\ cmd.limit = None => None \in Answers \/ \E c \in Containers : Written(c) = <<>>

(* A listing has a row for everything, in order: an image one for each of  *)
(* its tags, whole, and an address is a global one of that instance        *)
(* (docker/list.rs, docker/images.rs, lxc/list.rs).  Without a complete    *)
(* answer about its addresses an instance may be told to have none.        *)
ImageOf(row, image) ==
  /\ row[1] = short_id(image)
  /\ IF image.tags \in {None, <<>>} THEN row[2] = <<"<none>">> /\ row[3] = row[2]
     ELSE \E t \in ToSet(image.tags) : t = row[2] \o <<":">> \o row[3] \/ (t = row[2] /\ row[3] = <<"<none>">> /\ ":" \notin ToSet(t))
Known(instance) == IF instance.network = None THEN {} ELSE ToSet(Addresses(instance.network))
AddressOf(cell, instance, family) ==
  IF cell # Dash THEN \E a \in Known(instance) \ {None} : a.family = family /\ a.scope = "global" /\ a.address = cell
  ELSE (\A a \in Known(instance) : a # None /\ None \notin {a.family, a.scope}) =>
         \A a \in Known(instance) : a.family # family \/ a.scope # "global" \/ a.address = None
ListsAreTold ==
  Over /\ cmd.op \in {"containers", "images", "instances", "lxc_images"} =>
  /\ code = (CASE host.daemon = None -> 1 [] host.daemon = Torn -> 2 [] OTHER -> IF rows = <<>> THEN 1 ELSE 0)
  /\ ~cmd.json /\ rows # <<>> => Sorted(rows, LAMBDA r, q : IF cmd.op = "containers" THEN ~Less(q[2], r[2]) ELSE r[1] = Dash \/ ~Less(q[1], r[1]))
  /\ rows # <<>> => \A i \in DOMAIN rows : \E item \in ToSet(host.daemon) :
       CASE cmd.json -> rows[i] = item
         [] ~cmd.json /\ cmd.op = "images" -> ImageOf(rows[i], item)
         [] ~cmd.json /\ cmd.op = "instances" ->
              rows[i][1] \in {item.name, Dash} /\ AddressOf(rows[i][2], item, "inet") /\ AddressOf(rows[i][3], item, "inet6")
         [] OTHER -> rows[i][1] \in {item.id, Dash}
  /\ host.daemon \notin {None, Torn} /\ cmd.limit = None =>
       Len(rows) = FoldLeft(LAMBDA n, item : n + (IF ~cmd.json /\ cmd.op = "images" /\ item.tags \notin {None, <<>>} THEN Len(item.tags) ELSE 1), 0, host.daemon)

ContainersAreTrue ==
  /\ LogsAreTold /\ ListsAreTold
  /\ cmd.limit # None => Len(rows) <= cmd.limit
=============================================================================
