------------------------------ MODULE Machine ------------------------------
(***************************************************************************)
(* sak linux, hash and base64: what one machine holds, read piece by piece *)
(* (src/linux, src/hash, src/base64).  A process ends and another gets its *)
(* number between two of its files, a file is replaced between the list of *)
(* digests and its turn.                                                   *)
(*                                                                         *)
(* A text is a sequence of characters, some of them words.  Columns that   *)
(* are copied from a field like the ones beside them are left out of rows. *)
(***************************************************************************)
EXTENDS Integers, Sequences, FiniteSets, SequencesExt, TLC

CONSTANTS
  None,        \* not there, not given
  Torn,        \* there, and refused, unreadable or of another shape
  Commands,    \* [op, names, limit, bad, ...]
  Hosts,       \* what a machine may hold, for each command: [op -> set of [name -> content]]
  Rank,        \* the order of characters
  CMDLINE_MAX, \* the longest command line a process is told with
  MaxChanges   \* bound: how often what a name holds changes

VARIABLES
  cmd,
  host,        \* what the machine holds
  was,         \* everything it has held since the command began
  todo,        \* names still to read
  seen,        \* names the walk of /proc/sys has come to
  part,        \* what is known of the name being read
  got,         \* what was gathered before the first row
  rows, code,
  changes
vars == <<cmd, host, was, todo, seen, part, got, rows, code, changes>>

Running == -1
Upto(s, n) == IF n = None \/ n >= Len(s) THEN s ELSE SubSeq(s, 1, n)
Joined(texts, by) == FlattenSeq([i \in DOMAIN texts |-> IF i = 1 THEN texts[i] ELSE by \o texts[i]])
Less(s, t) ==
  \/ IsStrictPrefix(s, t)
  \/ \E i \in DOMAIN s \cap DOMAIN t : Rank[s[i]] < Rank[t[i]] /\ SubSeq(s, 1, i - 1) = SubSeq(t, 1, i - 1)
(* A stable sort.                                                          *)
InOrder(s, Key(_)) ==
  LET Before(j, i) == Less(Key(s[j]), Key(s[i])) \/ (Key(s[j]) = Key(s[i]) /\ j <= i)
  IN [k \in DOMAIN s |-> s[CHOOSE i \in DOMAIN s : Cardinality({j \in DOMAIN s : Before(j, i)}) = k]]
Dash == <<"-">>
Spaces == {"nl", "cr", "tab", " "}
sanitize(text) == [i \in DOMAIN text |-> IF text[i] \in Spaces THEN " " ELSE text[i]]
trim(text) ==
  LET ink == {i \in DOMAIN text : text[i] \notin Spaces} IN IF ink = {} THEN <<>> ELSE SubSeq(text, Min(ink), Max(ink))

(* The end of a listing: nothing written is nothing found.                 *)
Told(lines) == rows' = Upto(lines, cmd.limit) /\ code' = IF Upto(lines, cmd.limit) = <<>> THEN 1 ELSE 0
Ends(n) == code' = n /\ UNCHANGED rows
Still == UNCHANGED <<cmd, host, was, changes>>

Doing(ops) == code = Running /\ ~cmd.bad /\ cmd.op \in ops
(* What is no command line of the tool.                                    *)
refuse ==
  /\ code = Running /\ cmd.bad /\ Ends(2)
  /\ Still /\ UNCHANGED <<todo, seen, part, got>>

-----------------------------------------------------------------------------
(* linux process: status, stat and cmdline of one process after the other. *)

Listed == part # <<>>
list_pids ==
  /\ Doing({"process"}) /\ ~Listed /\ part' = <<"listed">>
  /\ todo' = IF cmd.all THEN SetToSortSeq({p \in DOMAIN host : host[p] # None}, <) ELSE cmd.names
  /\ Still /\ UNCHANGED <<seen, got, rows, code>>
truncate_ellipsis(text) == IF Len(text) <= CMDLINE_MAX THEN text ELSE Append(SubSeq(text, 1, CMDLINE_MAX), "...")
decode_cmdline(proc, comm) ==
  LET args == IF proc = None THEN <<>> ELSE SelectSeq(proc.args, LAMBDA a : a # <<>>)
      joined == sanitize(trim(Joined(args, <<" ">>)))
  IN IF joined = <<>> THEN <<"[">> \o comm \o <<"]">> ELSE truncate_ellipsis(joined)
At == Head(todo)
Dropped == todo' = Tail(todo) /\ part' = <<"listed">> /\ UNCHANGED got
read_status ==
  /\ Doing({"process"}) /\ Listed /\ todo # <<>> /\ Len(part) = 1
  /\ IF host[At] = None THEN Dropped ELSE part' = Append(part, host[At].ppid) /\ UNCHANGED <<todo, got>>
  /\ Still /\ UNCHANGED <<seen, rows, code>>
read_stat ==
  /\ Doing({"process"}) /\ Listed /\ todo # <<>> /\ Len(part) = 2
  /\ IF host[At] = None THEN Dropped ELSE part' = Append(part, host[At].comm) /\ UNCHANGED <<todo, got>>
  /\ Still /\ UNCHANGED <<seen, rows, code>>
read_cmdline ==
  /\ Doing({"process"}) /\ Listed /\ todo # <<>> /\ Len(part) = 3
  /\ got' = Append(got, <<At, part[2], sanitize(part[3]), decode_cmdline(host[At], part[3])>>)
  /\ todo' = Tail(todo) /\ part' = <<"listed">>
  /\ Still /\ UNCHANGED <<seen, rows, code>>
print_processes ==
  /\ Doing({"process"}) /\ Listed /\ todo = <<>>
  /\ Told(got) /\ Still /\ UNCHANGED <<todo, seen, part, got>>

-----------------------------------------------------------------------------
(* linux sysctl: the walk of /proc/sys comes to what is there all the time *)
(* and perhaps to the rest, in any order.                                  *)

path_to_key(path) == Joined([i \in DOMAIN path |-> <<path[i]>>], <<".">>)
Matches(key) == cmd.grep = None \/ cmd.grep \in ToSet(key)
visit ==
  /\ Doing({"sysctl"})
  /\ \E p \in DOMAIN host \ seen :
       /\ host[p] # None /\ seen' = seen \cup {p}
       /\ got' = IF host[p] = Torn \/ ~Matches(path_to_key(p)) THEN got ELSE Append(got, <<path_to_key(p), sanitize(trim(host[p]))>>)
  /\ Still /\ UNCHANGED <<todo, part, rows, code>>
walk_ends ==
  /\ Doing({"sysctl"}) /\ \A p \in DOMAIN host \ seen : \E h \in was : h[p] = None
  /\ Told(InOrder(got, LAMBDA r : r[1]))
  /\ Still /\ UNCHANGED <<todo, seen, part, got>>

(* linux network: a table of sockets for each family.                      *)
(* As it would be with a whole address turned round.                       *)
Reversed_Whole(bytes, n) == Reverse(bytes)
Reversed(bytes, n) == [i \in DOMAIN bytes |-> bytes[((i - 1) \div n) * n + n - ((i - 1) % n)]]
(* An address and a port, of a table that turns each word round; the order *)
(* of rows is that of their bytes, as it is of their texts in a family of  *)
(* four bytes.                                                             *)
decode_endpoint(end, size) == IF end.port # None /\ Len(end.address) = size THEN Append(Reversed(end.address, 4), end.port) ELSE None
AddressSize(family) == IF family \in {"tcp", "udp"} THEN 4 ELSE 16
StateNames ==
  "01" :> "ESTABLISHED" @@ "02" :> "SYN_SENT" @@ "03" :> "SYN_RECV" @@ "04" :> "FIN_WAIT1" @@ "05" :> "FIN_WAIT2" @@ "06" :> "TIME_WAIT"
  @@ "07" :> "CLOSE" @@ "08" :> "CLOSE_WAIT" @@ "09" :> "LAST_ACK" @@ "0A" :> "LISTEN" @@ "0B" :> "CLOSING" @@ "0C" :> "NEW_SYN_RECV"
state_name(code_) == IF code_ \in DOMAIN StateNames THEN StateNames[code_] ELSE code_
parse_line(family, line) ==
  LET Endpoint(end) == decode_endpoint(end, AddressSize(family))
  IN IF line = None THEN None
     ELSE IF None \in {Endpoint(line.local), Endpoint(line.remote)} THEN None
     ELSE [family |-> family, local |-> Endpoint(line.local), remote |-> Endpoint(line.remote), state |-> state_name(line.state), inode |-> line.inode]
Parsed(family) ==
  LET all == IF host[family] = None THEN <<>> ELSE [i \in DOMAIN host[family] |-> parse_line(family, host[family][i])]
  IN SelectSeq(all, LAMBDA c : c # None /\ (cmd.grep = None \/ c.state = cmd.grep))
read_family ==
  /\ Doing({"network"}) /\ todo # <<>>
  /\ got' = got \o Parsed(At) /\ todo' = Tail(todo)
  /\ Still /\ UNCHANGED <<seen, part, rows, code>>
print_connections ==
  /\ Doing({"network"}) /\ todo = <<>>
  /\ Told(InOrder(got, LAMBDA c : <<c.family>> \o c.local \o c.remote))
  /\ Still /\ UNCHANGED <<todo, seen, part, got>>
-----------------------------------------------------------------------------
(* linux: one file of /proc.  A line is a sequence of tokens, in cpuinfo   *)
(* and meminfo [key, value], the key None if it has no colon.              *)

Proc == {"cpuinfo", "meminfo", "mountinfo", "mounts", "loadavg", "uptime"}
parse_kv_line(line) == line.key # None
First(tokens) == IF tokens = <<>> THEN Dash ELSE <<tokens[1]>>
Field(map, key) == IF key \in DOMAIN map /\ map[key] # <<>> THEN map[key] ELSE Dash
Flags(map) == IF "flags" \in DOMAIN map THEN map["flags"] ELSE IF "Features" \in DOMAIN map THEN map["Features"] ELSE <<>>
record_from(map, ordinal) ==
  <<IF "processor" \in DOMAIN map /\ map["processor"] # <<>> THEN map["processor"] ELSE <<ordinal>>,
    Field(map, "vendor_id"), Field(map, "model name"), Field(map, "cpu MHz"), First(Field(map, "cache size")),
    Field(map, "cpu cores"), Field(map, "siblings"),
    IF cmd.all THEN IF Flags(map) = <<>> THEN Dash ELSE Flags(map) ELSE <<Len(Flags(map))>>>>
(* The records so far and the fields of the one being read.                *)
CpuLine(acc, line) ==
  CASE line = <<>> /\ acc.current # <<>> -> [records |-> Append(acc.records, acc.current), current |-> <<>>]
    [] line # <<>> /\ parse_kv_line(line) -> [acc EXCEPT !.current = (line.key :> line.value) @@ @]
    [] OTHER -> acc
parse_cpuinfo(text) ==
  LET end == FoldLeft(CpuLine, [records |-> <<>>, current |-> <<>>], Append(text, <<>>))
  IN [i \in DOMAIN end.records |-> record_from(end.records[i], i - 1)]

parse_meminfo(text) ==
  LET kept == SelectSeq(text, LAMBDA l : parse_kv_line(l) /\ l.value # <<>>) IN [i \in DOMAIN kept |-> <<kept[i].key, kept[i].value[1]>>]
Separator(l) == SelectInSeq(l, LAMBDA t : t = "-")
parse_mountinfo(text) ==
  LET kept == SelectSeq(text, LAMBDA l : Separator(l) > 6 /\ Len(l) - Separator(l) >= 2)
  IN [i \in DOMAIN kept |-> SubSeq(kept[i], 1, 6) \o SubSeq(kept[i], Separator(kept[i]) + 1, Separator(kept[i]) + 2)]
parse_mounts(text) == LET kept == SelectSeq(text, LAMBDA l : Len(l) >= 4) IN [i \in DOMAIN kept |-> SubSeq(kept[i], 1, 4)]
(* running/total is a token with a slash; the single line ends the file.   *)
parse_loadavg(text) ==
  IF text = <<>> \/ Len(Head(text)) < 5 \/ Len(Head(text)[4]) # 2 THEN <<>>
  ELSE <<SubSeq(Head(text), 1, 3) \o Head(text)[4] \o <<Head(text)[5]>>>>
parse_uptime(text) == IF text = <<>> \/ Len(Head(text)) < 2 THEN <<>> ELSE <<SubSeq(Head(text), 1, 2)>>
OfType(table, column) == SelectSeq(table, LAMBDA r : cmd.grep = None \/ r[column] = cmd.grep)
Table(op, text) ==
  CASE op = "cpuinfo" -> parse_cpuinfo(text)
    [] op = "meminfo" -> IF cmd.all THEN parse_meminfo(text) ELSE InOrder(parse_meminfo(text), LAMBDA r : <<r[1]>>)
    [] op = "mountinfo" -> OfType(parse_mountinfo(text), 7)
    [] op = "mounts" -> OfType(parse_mounts(text), 3)
    [] op = "loadavg" -> parse_loadavg(text)
    [] OTHER -> parse_uptime(text)
read_proc ==
  /\ Doing(Proc)
  /\ IF host.proc = None THEN Ends(2) ELSE Told(Table(cmd.op, host.proc))
  /\ Still /\ UNCHANGED <<todo, seen, part, got>>

-----------------------------------------------------------------------------
(* hash: a digest stands for the content it is of.                         *)

Fits == cmd.limit = None \/ Len(rows) < cmd.limit
hash_next ==
  /\ Doing({"hash"}) /\ todo # <<>> /\ todo' = Tail(todo)
  /\ CASE host[At] \in {None, Torn} -> Ends(2)
       [] host[At] \notin {None, Torn} /\ Fits ->
            rows' = Append(rows, <<host[At], IF cmd.all THEN None ELSE At>>) /\ UNCHANGED code
       [] OTHER -> Ends(0)
  /\ Still /\ UNCHANGED <<seen, part, got>>
hash_ends ==
  /\ Doing({"hash"}) /\ todo = <<>> /\ Ends(0)
  /\ Still /\ UNCHANGED <<todo, seen, part, got>>

(* A line of the list is [digest, path], None if it is no entry, Torn if   *)
(* it is no text.                                                          *)
open_sumfile ==
  /\ Doing({"verify"}) /\ ~Listed
  /\ IF host.sums \in {None, Torn} THEN Ends(2) /\ UNCHANGED <<todo, part>>
     ELSE todo' = host.sums /\ part' = <<"open">> /\ UNCHANGED <<rows, code>>
  /\ Still /\ UNCHANGED <<seen, got>>
Status(entry) ==
  CASE host[entry.path] = None -> "FAILED open or read"
    [] host[entry.path] = Torn -> "FAILED read error"
    [] OTHER -> IF host[entry.path] = entry.digest THEN "OK" ELSE "FAILED"
Verdict(statuses) == IF statuses = <<>> THEN 2 ELSE IF ToSet(statuses) = {"OK"} THEN 0 ELSE 1
check_entry ==
  /\ Doing({"verify"}) /\ Listed /\ todo # <<>> /\ todo' = Tail(todo)
  /\ CASE At = Torn -> Ends(2) /\ UNCHANGED got
       [] At = None -> UNCHANGED <<rows, code, got>>
       [] OTHER ->
            /\ got' = Append(got, Status(At))
            /\ IF Fits THEN rows' = Append(rows, <<At.path, Status(At)>>) /\ UNCHANGED code
               ELSE Ends(Verdict(Append(got, Status(At))))
  /\ Still /\ UNCHANGED <<seen, part>>
verify_ends ==
  /\ Doing({"verify"}) /\ Listed /\ todo = <<>> /\ Ends(Verdict(got))
  /\ Still /\ UNCHANGED <<todo, seen, part, got>>

-----------------------------------------------------------------------------
(* base64: bytes in threes become digits in fours.  A digit below 62 is    *)
(* <<itself>>; the last two are signs, "+" and "/" or "-" and "_".         *)
Sign(c) == <<"sign", c>>
Byte(bytes, i) == IF i \in DOMAIN bytes THEN bytes[i] ELSE 0
Digits(bytes) ==
  [k \in 1..((8 * Len(bytes) + 5) \div 6) |->
    LET from == 3 * ((k - 1) \div 4)
        three == Byte(bytes, from + 1) * 65536 + Byte(bytes, from + 2) * 256 + Byte(bytes, from + 3)
    IN (three \div (64 ^ (3 - ((k - 1) % 4)))) % 64]
Signs(url_safe) == IF url_safe THEN <<Sign("-"), Sign("_")>> ELSE <<Sign("+"), Sign("/")>>
Character(digit, url_safe) == IF digit < 62 THEN <<digit>> ELSE Signs(url_safe)[digit - 61]
Padding(n) == [i \in 1..((4 - (n % 4)) % 4) |-> Sign("=")]
Chunks(text, n) == [k \in 1..((Len(text) + n - 1) \div n) |-> SubSeq(text, (k - 1) * n + 1, IF k * n < Len(text) THEN k * n ELSE Len(text))]
encode_text(bytes, c) ==
  LET digits == Digits(bytes)
      text == [i \in DOMAIN digits |-> Character(digits[i], c.url_safe)] \o (IF c.no_pad THEN <<>> ELSE Padding(Len(digits)))
  IN IF c.wrap = None \/ c.wrap = 0 THEN <<text>> ELSE Chunks(text, c.wrap)
encode_lines(inputs, c) == IF FlattenSeq(inputs) = <<>> THEN <<>> ELSE encode_text(FlattenSeq(inputs), c)

(* What is no multiple of a byte, or holds a foreign character or stray    *)
(* padding, is refused.                                                    *)
Unpadded(text) == LET cut == SelectInSeq(text, LAMBDA x : x = Sign("=")) IN IF cut = 0 THEN text ELSE SubSeq(text, 1, cut - 1)
decode_bytes(text, c) ==
  LET cleaned == IF c.strict THEN text ELSE SelectSeq(text, LAMBDA x : x # Sign(" "))
      body == Unpadded(cleaned)
      pads == SubSeq(cleaned, Len(body) + 1, Len(cleaned))
      Foreign(x) == Len(x) # 1 /\ x \notin ToSet(Signs(c.url_safe))
      digit == [i \in DOMAIN body |-> IF Len(body[i]) = 1 THEN body[i][1] ELSE 61 + SelectInSeq(Signs(c.url_safe), LAMBDA x : x = body[i])]
      size == (6 * Len(body)) \div 8
      Bits(i) == LET from == 4 * ((i - 1) \div 3)
                     four == FoldLeft(LAMBDA a, k : a * 64 + Byte(digit, from + k), 0, <<1, 2, 3, 4>>)
                 IN (four \div (256 ^ (2 - ((i - 1) % 3)))) % 256
      bytes == [i \in 1..size |-> Bits(i)]
  IN IF \/ Len(body) % 4 = 1 \/ ToSet(pads) \notin {{}, {Sign("=")}} \/ Len(pads) > Len(Padding(Len(body)))
        \/ \E i \in DOMAIN body : Foreign(body[i])
     THEN None
     ELSE IF Digits(bytes) = digit THEN bytes ELSE None

read_input ==
  /\ Doing({"encode", "decode"}) /\ todo # <<>> /\ todo' = Tail(todo)
  /\ IF host[At] \in {None, Torn} THEN Ends(2) /\ UNCHANGED got ELSE got' = Append(got, host[At]) /\ UNCHANGED <<rows, code>>
  /\ Still /\ UNCHANGED <<seen, part>>
encode ==
  /\ Doing({"encode"}) /\ todo = <<>>
  /\ rows' = Upto(encode_lines(got, cmd), cmd.limit) /\ code' = 0
  /\ Still /\ UNCHANGED <<todo, seen, part, got>>
(* Bytes go out file by file, up to the limit or the first file that is    *)
(* refused; files behind the limit are not looked at.                      *)
DecodeFile(acc, text) ==
  LET bytes == decode_bytes(text, cmd)
  IN CASE acc.done -> acc
       [] ~acc.done /\ bytes = None -> [acc EXCEPT !.done = TRUE, !.code = 2]
       [] OTHER -> LET out == Upto(acc.out \o bytes, cmd.limit) IN [acc EXCEPT !.out = out, !.done = (Len(out) = cmd.limit)]
decode ==
  /\ Doing({"decode"}) /\ todo = <<>>
  /\ LET end == FoldLeft(DecodeFile, [out |-> <<>>, done |-> FALSE, code |-> 0], got) IN rows' = end.out /\ code' = end.code
  /\ Still /\ UNCHANGED <<todo, seen, part, got>>

-----------------------------------------------------------------------------
(* In between, one name may come to hold something else.                   *)

Stepwise == {"process", "sysctl", "network", "hash", "verify", "encode", "decode"}
Change ==
  /\ code = Running /\ changes < MaxChanges /\ cmd.op \in Stepwise /\ changes' = changes + 1
  /\ \E h \in Hosts[cmd.op], n \in DOMAIN host : h[n] # host[n] /\ host' = [host EXCEPT ![n] = h[n]]
  /\ was' = was \cup {host'}
  /\ UNCHANGED <<cmd, todo, seen, part, got, rows, code>>

Init ==
  /\ cmd \in Commands /\ host \in Hosts[cmd.op] /\ was = {host}
  /\ todo = cmd.names /\ seen = {} /\ part = <<>> /\ got = <<>>
  /\ rows = <<>> /\ code = Running /\ changes = 0
Next ==
  \/ refuse
  \/ list_pids \/ read_status \/ read_stat \/ read_cmdline \/ print_processes
  \/ visit \/ walk_ends \/ read_family \/ print_connections \/ read_proc
  \/ hash_next \/ hash_ends \/ open_sumfile \/ check_entry \/ verify_ends
  \/ read_input \/ encode \/ decode
  \/ Change
Spec == Init /\ [][Next]_vars

-----------------------------------------------------------------------------
(* What the commands promise.                                              *)

Over == code # Running /\ ~cmd.bad
Steady == was = {host}
Sorted(s, Before(_, _)) == \A i \in 1..(Len(s) - 1) : Before(s[i], s[i + 1])

(* A process that is there all the time has its row, and so has no other   *)
(* number; a row is of the one process its number belonged to, but a       *)
(* number that two processes had may show some of each (process.rs:157).   *)
(* A process that ended before its arguments were read looks like a thread *)
(* of the kernel.  A row is one line, but for one that shows a name in     *)
(* brackets (RowsStayOnOneLine).                                           *)
OneLine(text) == {"nl", "cr", "tab"} \cap ToSet(text) = {}
Bracketed(comm) == <<"[">> \o comm \o <<"]">>
Held(n) == {h[n] : h \in was}
ProcessesAreTold ==
  Over /\ cmd.op = "process" =>
  /\ code = (IF rows = <<>> THEN 1 ELSE 0)
  /\ Sorted(rows, LAMBDA r, q : r[1] < q[1])
  /\ \A i \in DOMAIN rows : LET held == Held(rows[i][1]) \ {None} IN
       /\ \E p \in held : rows[i][2] = p.ppid
       /\ \E p \in held : rows[i][3] = sanitize(p.comm)
       /\ Cardinality(held) = 1 => \A p \in held :
            \/ rows[i] = <<rows[i][1], p.ppid, sanitize(p.comm), decode_cmdline(p, p.comm)>>
            \/ None \in Held(rows[i][1]) /\ rows[i][4] = Bracketed(p.comm)
       /\ OneLine(rows[i][3])
       /\ OneLine(rows[i][4]) \/ \E p \in held : rows[i][4] = Bracketed(p.comm) /\ ~OneLine(p.comm)
  /\ cmd.limit = None => \A n \in DOMAIN host :
       None \notin Held(n) /\ (cmd.all \/ n \in ToSet(cmd.names)) => \E i \in DOMAIN rows : rows[i][1] = n

(* What src/linux/process.rs says of its rows: the command line, a name in *)
(* brackets where there is none, is "collapsed to one line" (lines 9-11),  *)
(* and sanitize replaces line ends and tabs "so a value never breaks" a    *)
(* row (src/linux/mod.rs:114-116).                                         *)
RowsStayOnOneLine ==
  Over /\ cmd.op = "process" => \A i \in DOMAIN rows : OneLine(rows[i][3]) /\ OneLine(rows[i][4])

(* A setting that is there all the time is told once, on one line, with a  *)
(* value it had; one that cannot be read is passed over (sysctl.rs:92).    *)
SettingsAreTold ==
  Over /\ cmd.op = "sysctl" =>
  /\ code = (IF rows = <<>> THEN 1 ELSE 0)
  /\ Sorted(rows, LAMBDA r, q : Less(r[1], q[1]))
  /\ \A i \in DOMAIN rows : \E n \in DOMAIN host :
       rows[i][1] = path_to_key(n) /\ \E v \in Held(n) \ {None, Torn} : rows[i][2] = sanitize(trim(v))
  /\ cmd.limit = None => \A n \in DOMAIN host :
       {None, Torn} \cap Held(n) = {} /\ Matches(path_to_key(n)) => \E i \in DOMAIN rows : rows[i][1] = path_to_key(n)

(* The sockets of a family that does not change are all told, and an       *)
(* address is the bytes of the table, each word of four turned round       *)
(* (network.rs:103-224).                                                   *)
Sockets(family) == {line \in UNION {ToSet(h[family]) : h \in {g \in was : g[family] # None}} : line # None}
SocketsAreTold ==
  Over /\ cmd.op = "network" =>
  /\ code = (IF rows = <<>> THEN 1 ELSE 0)
  /\ \A i \in DOMAIN rows : \E line \in Sockets(rows[i].family) :
       /\ line.inode = rows[i].inode /\ state_name(line.state) = rows[i].state
       /\ Last(rows[i].local) = line.local.port
       /\ \A k \in DOMAIN line.local.address : LET word == 4 * ((k - 1) \div 4) IN rows[i].local[k] = line.local.address[2 * word + 5 - k]
  /\ cmd.limit = None => \A f \in ToSet(cmd.names) : Cardinality(Held(f)) = 1 =>
       \A line \in Sockets(f) :
         None \notin {decode_endpoint(line.local, AddressSize(f)), decode_endpoint(line.remote, AddressSize(f))} /\ (cmd.grep = None \/ state_name(line.state) = cmd.grep) =>
         \E i \in DOMAIN rows : rows[i].family = f /\ rows[i].inode = line.inode

(* The r-th row tells of the r-th processor and has nothing of another's:  *)
(* what that one lacks is not told (cpuinfo.rs:123-187).                   *)
Starts(text) ==
  {i \in DOMAIN text : /\ text[i] # <<>> /\ parse_kv_line(text[i])
                       /\ \A j \in 1..(i - 1) : text[j] # <<>> /\ parse_kv_line(text[j]) => \E k \in j..i : text[k] = <<>>}
LinesOf(text, key, r) ==
  {i \in DOMAIN text : text[i] # <<>> /\ Cardinality({b \in Starts(text) : b <= i}) = r /\ text[i].key = key /\ text[i].value # <<>>}
ProcessorsAreTold ==
  Over /\ cmd.op = "cpuinfo" /\ host.proc # None =>
  /\ cmd.limit = None => Len(rows) = Cardinality(Starts(host.proc))
  /\ \A r \in DOMAIN rows :
       /\ IF LinesOf(host.proc, "processor", r) = {} THEN rows[r][1] = <<r - 1>>
          ELSE \E i \in LinesOf(host.proc, "processor", r) : rows[r][1] = host.proc[i].value
       /\ IF LinesOf(host.proc, "model name", r) = {} THEN rows[r][3] = Dash
          ELSE \E i \in LinesOf(host.proc, "model name", r) : rows[r][3] = host.proc[i].value

(* hash tells the digests of what the files held, in the order given, and  *)
(* an unreadable one is an error, up to the file behind the last line.     *)
(* verify answers 0 only if every entry it came to held, and 1 only if one *)
(* did not; without a limit it comes to all (hash/mod.rs:140-190).         *)
Reached(names) == IF cmd.limit = None \/ cmd.limit >= Len(names) THEN names ELSE SubSeq(names, 1, cmd.limit + 1)
DigestsAreTold ==
  Over /\ cmd.op = "hash" =>
  /\ \A i \in DOMAIN rows : rows[i][1] \in Held(cmd.names[i]) \ {None, Torn} /\ rows[i][2] \in {None, cmd.names[i]}
  /\ code = 0 => Len(rows) = Len(Upto(cmd.names, cmd.limit))
  /\ code = 2 <=> code # 0
  /\ Steady => (code = 2 <=> \E n \in ToSet(Reached(cmd.names)) : host[n] \in {None, Torn})
Entries(sums) == SelectSeq(sums, LAMBDA l : l # None)
VerdictIsTrue ==
  Over /\ cmd.op = "verify" =>
  /\ \A i \in DOMAIN rows : rows[i][2] = "OK" => \E e \in UNION {ToSet(s) : s \in Held("sums") \ {None, Torn}} :
       e \notin {None, Torn} /\ e.path = rows[i][1] /\ e.digest \in Held(e.path)
  /\ Steady /\ code = 0 => \A e \in ToSet(Reached(Entries(host.sums))) : e # Torn /\ host[e.path] = e.digest
  /\ Steady /\ code = 1 => \E e \in ToSet(Entries(host.sums)) : e # Torn /\ host[e.path] # e.digest
  /\ Steady /\ code = 2 => host.sums \in {None, Torn} \/ Torn \in ToSet(host.sums) \/ Entries(host.sums) = <<>>

(* What encode writes decodes to what it was given, in lines of the length *)
(* asked for; what decode writes is the beginning of what its inputs stand *)
(* for, and all of it unless a limit or an error ended it                  *)
(* (base64/mod.rs:171-265).                                                *)
BytesAreTold ==
  Over /\ cmd.op \in {"encode", "decode"} =>
  /\ Len(got) < Len(cmd.names) => code = 2 /\ rows = <<>>
  /\ cmd.op = "encode" /\ code = 0 /\ cmd.limit = None =>
       /\ decode_bytes(FlattenSeq(rows), cmd) = FlattenSeq(got)
       /\ cmd.wrap # None /\ cmd.wrap > 0 => \A i \in DOMAIN rows : Len(rows[i]) <= cmd.wrap /\ (i < Len(rows) => Len(rows[i]) = cmd.wrap)
  /\ cmd.op = "decode" /\ Len(got) = Len(cmd.names) =>
       LET parts == [i \in DOMAIN got |-> decode_bytes(got[i], cmd)]
           bad == SelectInSeq(parts, LAMBDA p : p = None)
           good == FlattenSeq(IF bad = 0 THEN parts ELSE SubSeq(parts, 1, bad - 1))
       IN /\ rows = Upto(good, cmd.limit)
          /\ bad = 0 => code = 0
          /\ code = 0 /\ bad # 0 => cmd.limit # None /\ Len(rows) = cmd.limit
          /\ \A i \in DOMAIN parts : parts[i] # None =>
               Head(encode_text(parts[i], [cmd EXCEPT !.wrap = None, !.no_pad = TRUE])) = SelectSeq(got[i], LAMBDA x : x \notin {Sign(" "), Sign("=")})

HostsAreTrue ==
  /\ ProcessesAreTold /\ SettingsAreTold /\ SocketsAreTold
  /\ cmd.limit # None => Len(rows) <= cmd.limit
  /\ ProcessorsAreTold /\ DigestsAreTold /\ VerdictIsTrue /\ BytesAreTold
=============================================================================
