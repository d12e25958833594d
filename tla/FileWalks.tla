------------------------------ MODULE FileWalks ------------------------------
(***************************************************************************)
(* The commands of `sak fs` that walk a directory tree (src/fs: glob,      *)
(* find, largest, duplicates, tree over the walk of mod.rs), while other   *)
(* programs write, delete and create files in it.  The walk lists one      *)
(* directory after the other and asks for an entry's size and time when it *)
(* comes to it; duplicates reads contents after the walk has ended.        *)
(*                                                                         *)
(* A path is a sequence of names, a content a sequence of bytes.           *)
(***************************************************************************)
EXTENDS Integers, Sequences, FiniteSets, SequencesExt

CONSTANTS
  Trees,       \* initial trees: [path -> [type, data, mtime, to]]
  Writes,      \* what may be written: <<path, data>>
  Dotted,      \* the names that begin with a dot
  Junk,        \* SKIP_DIRS
  Rank,        \* the order of the names
  Now,         \* the time of the commands, and of what is written meanwhile
  Commands,    \* [op, hidden, follow, depth, type, match, size, time, newer, min, top, sort, human, limit]
  None,        \* no bound, no predicate, no time
  MaxChanges   \* bound: what other programs do while a command runs

VARIABLES tree, was, cmd, ref, pending, found, hashed, rows, code
vars == <<tree, was, cmd, ref, pending, found, hashed, rows, code>>

Root == <<>>
Name(p) == p[Len(p)]
Parent(p) == SubSeq(p, 1, Len(p) - 1)
Within(p, d) == Len(d) < Len(p) /\ SubSeq(p, 1, Len(d)) = d
IsDir(t, p) == p = Root \/ (p \in DOMAIN t /\ t[p].type = "dir")
Listing(d) == {p \in DOMAIN tree : Len(p) = Len(d) + 1 /\ Parent(p) = d}
Size(node) == Len(node.data)

-----------------------------------------------------------------------------
(* What the constants are: the bytes of a file and the names of its path   *)
(* are sequences, everything lies in directories, names differ in the      *)
(* order, and only find has predicates (FindArgs, find.rs).                *)
Paths == Seq(DOMAIN Rank)
Nodes == [type : {"file", "dir", "link"}, data : Seq(Int), mtime : Int, to : Paths \cup {None}]
TreeOK(t) ==
  /\ IsFiniteSet(DOMAIN t) /\ DOMAIN t \subseteq Paths \ {Root} /\ t \in [DOMAIN t -> Nodes]
  /\ \A p \in DOMAIN t : \A k \in 1..(Len(p) - 1) :
       SubSeq(p, 1, k) \in DOMAIN t /\ t[SubSeq(p, 1, k)].type = "dir"
CommandOK(c) ==
  /\ c.op \in {"glob", "find", "largest", "duplicates", "tree"} /\ {c.hidden, c.follow} \subseteq BOOLEAN
  /\ c.top \in Nat /\ {c.depth, c.limit} \subseteq Nat \cup {None}
  /\ c.op = "largest" <=> c.sort = "largest"
  /\ c.op = "tree" => c.sort \notin {"modified", "size", "none"}
  /\ c.op # "find" => c.size = None /\ c.time = None /\ c.newer = None
WalkAssumptions ==
  /\ \A t \in Trees : TreeOK(t)
  /\ Writes \subseteq (Paths \ {Root}) \X Seq(Int)
  /\ Rank \in [DOMAIN Rank -> Int] /\ \A m, n \in DOMAIN Rank : Rank[m] = Rank[n] => m = n
  /\ Now \in Int /\ \A c \in Commands : CommandOK(c)
  /\ None \notin Commands \cup Int \cup Seq(Int)

-----------------------------------------------------------------------------
(* Other programs.  was keeps every state of the tree since the command    *)
(* began.                                                                  *)
Change(new) ==
  /\ cmd # None /\ code = -1 /\ Cardinality(was) <= MaxChanges
  /\ tree' = new /\ was' = was \cup {new}
  /\ UNCHANGED <<cmd, ref, pending, found, hashed, rows, code>>

Write ==
  \E w \in Writes :
    /\ IsDir(tree, Parent(w[1]))
    /\ w[1] \in DOMAIN tree => tree[w[1]].type = "file"
    /\ LET written == [type |-> "file", data |-> w[2], mtime |-> Now, to |-> None]
       IN Change([p \in DOMAIN tree \cup {w[1]} |-> IF p = w[1] THEN written ELSE tree[p]])
Delete ==
  \E p \in DOMAIN tree : Change([q \in {q \in DOMAIN tree : q # p /\ ~Within(q, p)} |-> tree[q]])

-----------------------------------------------------------------------------
(* mod.rs: the walk and what it leaves out.                                *)

should_skip(name, hidden) == (~hidden /\ name \in Dotted) \/ name \in Junk
Pruned(p, type, c) == p # Root /\ type = "dir" /\ should_skip(Name(p), c.hidden)
is_hidden_file(p, type, c) == ~c.hidden /\ type # "dir" /\ p # Root /\ Name(p) \in Dotted
Deeper(p, c) == c.depth = None \/ Len(p) < c.depth
Entry(p, type) == [path |-> p, type |-> type]

(* What an entry is: its kind is that its directory gave, what it holds is *)
(* looked up now.  A link is looked through at --follow-links, and is an   *)
(* error when it leads nowhere or back to a directory above it.            *)
Through(e, c) == e.type = "link" /\ c.follow
IsLink(t, p) == t[p].type = "link"
Reaches(e) ==
  /\ e.path \in DOMAIN tree
  /\ IsLink(tree, e.path) => tree[e.path].to \in DOMAIN tree /\ ~Within(e.path, tree[e.path].to)
Stat(e, c) == IF Through(e, c) /\ IsLink(tree, e.path) THEN tree[tree[e.path].to] ELSE tree[e.path]
TypeOf(e, c) == IF Through(e, c) THEN Stat(e, c).type ELSE e.type

-----------------------------------------------------------------------------
(* The predicates of find.                                                 *)

SizeMatches(pred, n) ==
  CASE pred[1] = "min" -> n > pred[2] [] pred[1] = "max" -> n < pred[2]
    [] pred[1] = "range" -> n \in pred[2]..pred[3] [] OTHER -> n = pred[2]
(* A duration is counted back from now, a date range is half open.         *)
Cutoff(pred) == Now - pred[2]
TimeMatches(pred, t) ==
  CASE pred[1] = "older" -> t < Cutoff(pred) [] pred[1] = "newer" -> t > Cutoff(pred)
    [] OTHER -> t \in pred[2]..(pred[3] - 1)
NeedsStat(c) == c.op # "find" \/ c.size # None \/ c.time # None \/ c.newer # None
mtime_secs(node) == IF node.mtime < 0 THEN 0 ELSE node.mtime
Passes(node, c, reference) ==
  /\ c.size # None => SizeMatches(c.size, Size(node))
  /\ c.time # None => TimeMatches(c.time, mtime_secs(node))
  /\ c.newer # None => node.mtime > reference
  /\ c.op \in {"largest", "duplicates"} => Size(node) >= c.min

(* What decides before an entry's metadata are asked for.                  *)
Wanted(p, type, c) ==
  /\ ~is_hidden_file(p, type, c)
  /\ CASE c.op = "glob" -> type = c.type /\ p \in c.match
       [] c.op = "find" -> p # Root /\ c.type \in {None, type} /\ (c.match = None \/ Name(p) \in c.match)
       [] OTHER -> type = "file"

-----------------------------------------------------------------------------
(* The walk, an entry at a time, in whatever order the directories give.   *)

(* A bad size or date range, a reference file that is not there.           *)
Refused(c) ==
  \/ c.size # None /\ c.size[1] = "range" /\ c.size[2] > c.size[3]
  \/ c.time # None /\ c.time[1] = "range" /\ c.time[2] > c.time[3]
  \/ c.newer # None /\ c.newer \notin DOMAIN tree

Start(c) ==
  /\ cmd = None /\ cmd' = c /\ was' = {tree}
  /\ ref' = IF c.newer # None /\ ~Refused(c) THEN tree[c.newer].mtime ELSE None
  /\ pending' = IF Refused(c) THEN {} ELSE {Entry(Root, "dir")}
  /\ code' = IF Refused(c) THEN 2 ELSE -1
  /\ UNCHANGED <<tree, found, hashed, rows>>

Row(p, node) == [path |-> p, size |-> Size(node), mtime |-> node.mtime]
Bare(p) == [path |-> p, size |-> 0, mtime |-> 0]

(* An entry that cannot be looked at is reported and passed over: only     *)
(* glob gives up (glob.rs, run).                                           *)
GoOn(e, more, new) ==
  /\ pending' = (pending \ {e}) \cup more /\ found' = found \cup new
  /\ UNCHANGED <<tree, was, cmd, ref, hashed, rows, code>>

Visit(e) ==
  /\ code = -1 /\ cmd.op # "tree"
  /\ LET broken == Through(e, cmd) /\ ~Reaches(e)
         type == TypeOf(e, cmd)
         more == IF ~broken /\ type = "dir" /\ Deeper(e.path, cmd)
                 THEN {Entry(p, tree[p].type) : p \in Listing(e.path)} ELSE {}
         gone == e.path # Root /\ e.path \notin DOMAIN tree
     IN CASE broken \/ Pruned(e.path, type, cmd) -> GoOn(e, {}, {})
          [] OTHER ->
               IF ~Wanted(e.path, type, cmd) THEN GoOn(e, more, {})
               ELSE IF ~NeedsStat(cmd) THEN GoOn(e, more, {Bare(e.path)})
               ELSE IF gone /\ cmd.op = "glob" THEN
                      /\ code' = 2 /\ pending' = {}
                      /\ UNCHANGED <<tree, was, cmd, ref, found, hashed, rows>>
               ELSE IF gone \/ (e.path # Root /\ ~Passes(Stat(e, cmd), cmd, ref)) THEN GoOn(e, more, {})
               ELSE GoOn(e, more, {IF e.path = Root THEN Bare(Root) ELSE Row(e.path, Stat(e, cmd))})

(* tree.rs, walk: a directory's entries are rows before it is known        *)
(* whether their own directories can be read.                              *)
Shown(d) ==
  {p \in Listing(d) : /\ IF tree[p].type = "dir" THEN ~should_skip(Name(p), cmd.hidden)
                         ELSE cmd.hidden \/ Name(p) \notin Dotted
                      /\ cmd.type = "dir" => tree[p].type = "dir"}
ListDirectory(e) ==
  /\ code = -1 /\ cmd.op = "tree"
  /\ LET shown == IF Deeper(e.path, cmd) THEN Shown(e.path) ELSE {}
     IN GoOn(e, {Entry(p, "dir") : p \in {p \in shown : tree[p].type = "dir"}},
             {Row(p, tree[p]) : p \in shown})

(* duplicates.rs: only files that share their size are read.               *)
SameSize == {r \in found : \E q \in found : q # r /\ q.size = r.size}
ToHash == SameSize \ {h.row : h \in hashed}
Hash(r) ==
  /\ code = -1 /\ pending = {} /\ cmd.op = "duplicates"
  /\ LET path == r.path
         node == tree[IF tree[path].type = "link" THEN tree[path].to ELSE path]
         there == path \in DOMAIN tree /\ (tree[path].type = "link" => tree[path].to \in DOMAIN tree)
     IN hashed' = hashed \cup {[row |-> r, hash |-> IF there THEN node.data ELSE None]}
  /\ UNCHANGED <<tree, was, cmd, ref, pending, found, rows, code>>

Read(h) == h.hash # None
Members_BySize(h) == {g \in hashed : Read(g) /\ g.row.size = h.row.size}
Members(h) == {g \in hashed : Read(g) /\ g.row.size = h.row.size /\ g.hash = h.hash}
Grouped == {h \in hashed : Read(h) /\ Cardinality(Members(h)) >= 2}

-----------------------------------------------------------------------------
(* What is printed, in the order of its keys; where the keys say nothing   *)
(* the walk's order, which may be any.                                     *)

PathKey(p) == [i \in DOMAIN p |-> Rank[p[i]]]
Less(a, b) ==
  \E k \in 0..Len(a) :
    /\ \A l \in 1..k : l <= Len(b) /\ a[l] = b[l]
    /\ IF k = Len(a) THEN k < Len(b) ELSE k < Len(b) /\ a[k + 1] < b[k + 1]
Key(r) ==
  CASE cmd.sort = "modified" -> <<r.mtime>> [] cmd.sort = "size" -> <<r.size>> [] cmd.sort = "none" -> <<>>
    [] cmd.sort = "largest" -> <<-r.size>> \o PathKey(r.path)
    [] OTHER -> PathKey(r.path)
GroupKey(h) == <<-h.row.size>> \o h.hash \o PathKey(h.row.path)
SortedBy(S, key(_)) ==
  IF \A x, y \in S : x = y \/ Less(key(x), key(y)) \/ Less(key(y), key(x))
  THEN {[i \in 1..Cardinality(S) |-> CHOOSE x \in S : Cardinality({y \in S : Less(key(y), key(x))}) = i - 1]}
  ELSE {s \in SetToSeqs(S) : \A i, j \in DOMAIN s : i < j => ~Less(key(s[j]), key(s[i]))}
First(s, n) == IF n = None \/ n >= Len(s) THEN s ELSE SubSeq(s, 1, n)

Results == IF cmd.op = "duplicates" THEN Grouped ELSE found
(* largest keeps the top rows before --limit counts them.                  *)
Kept(s) == IF cmd.op = "largest" THEN First(s, cmd.top) ELSE s
(* The rows there is room for: tree's root has a line of its own, which    *)
(* counts toward --limit and is no row here.                               *)
Room == IF cmd.op = "tree" /\ cmd.limit \notin {None, 0} THEN cmd.limit - 1 ELSE cmd.limit

Answer ==
  /\ cmd # None /\ code = -1 /\ pending = {} /\ (cmd.op = "duplicates" => ToHash = {})
  /\ \E s \in IF cmd.op = "duplicates" THEN SortedBy(Grouped, GroupKey) ELSE SortedBy(found, Key) :
       /\ rows' = First(Kept(s), Room)
       /\ code' = IF Kept(s) = <<>> /\ cmd.op # "tree" THEN 1 ELSE 0
  /\ UNCHANGED <<tree, was, cmd, ref, pending, found, hashed>>

Init ==
  /\ tree \in Trees /\ was = {tree} /\ cmd = None /\ ref = None /\ pending = {}
  /\ found = {} /\ hashed = {} /\ rows = <<>> /\ code = -1

Next ==
  \/ Write \/ Delete \/ Answer
  \/ \E c \in Commands : Start(c)
  \/ \E e \in pending : Visit(e) \/ ListDirectory(e)
  \/ \E r \in ToHash : Hash(r)

Spec == Init /\ [][Next]_vars
-----------------------------------------------------------------------------
(* Properties.                                                             *)

Ended == cmd # None /\ code # -1
Printed == {rows[i].path : i \in DOMAIN rows}
IsCut == Room # None /\ Len(rows) = Room
Always(P(_)) == \A t \in was : P(t)
Sometime(P(_)) == \E t \in was : P(t)

(* In a tree that stands still, the path is one the command asks for.      *)
Reached(t, p) ==
  /\ cmd.depth = None \/ Len(p) <= cmd.depth
  /\ \A i \in 1..(Len(p) - 1) : ~should_skip(p[i], cmd.hidden)
Resolves(t, p) ==
  /\ p \in DOMAIN t
  /\ cmd.follow /\ t[p].type = "link" => t[p].to \in DOMAIN t /\ ~Within(p, t[p].to)
Looked(t, p) == IF cmd.follow /\ t[p].type = "link" THEN t[t[p].to] ELSE t[p]
Named(t, p) ==
  /\ Resolves(t, p) /\ Reached(t, p)
  /\ Looked(t, p).type = "dir" => ~should_skip(Name(p), cmd.hidden)
  /\ Wanted(p, Looked(t, p).type, cmd)
Passed(t, p) == Resolves(t, p) /\ Passes(Looked(t, p), cmd, ref)
Matches(t, p) == Named(t, p) /\ Passed(t, p)
Stable(p) == Always(LAMBDA t : Matches(t, p))
Known == UNION {DOMAIN t : t \in was}

(* A listing names nothing that was not of the kind asked for at the       *)
(* moment its directory was listed and as asked for when it was looked at  *)
(* (two moments: `find --type dir --size` may name a directory that is     *)
(* a file by then), and leaves out nothing that was both all the time:     *)
(* neither what another program does beside it nor an entry that cannot be *)
(* read makes the walk lose the rest (glob.rs, find.rs, largest.rs).       *)
ListingIsTrue ==
  Ended /\ code # 2 /\ cmd.op \in {"glob", "find", "largest"} =>
    /\ \A p \in Printed : p = Root \/ \E t, u \in was : Named(t, p) /\ Passed(u, p)
    /\ \A p \in Known : Stable(p) => p \in Printed \/ IsCut \/ (cmd.op = "largest" /\ Len(rows) = cmd.top)

(* No file that stayed larger than one printed is left out (largest.rs).   *)
LargestAreShown ==
  Ended /\ cmd.op = "largest" =>
    \A p \in Known, i \in DOMAIN rows :
      Stable(p) /\ Always(LAMBDA t : Size(Looked(t, p)) > rows[i].size) =>
        \E j \in 1..(i - 1) : rows[j].path = p

(* Files that are reported as one another's duplicates each had that       *)
(* content, and two that had the same content all the time are reported    *)
(* together, whatever was rewritten between the sizes and the contents     *)
(* (duplicates.rs, run).                                                   *)
DuplicatesAreReal ==
  Ended /\ cmd.op = "duplicates" =>
    /\ \A i \in DOMAIN rows :
         /\ Sometime(LAMBDA t : Resolves(t, rows[i].row.path) /\ Looked(t, rows[i].row.path).data = rows[i].hash)
         /\ IsCut \/ \E j \in DOMAIN rows : j # i /\ rows[j].hash = rows[i].hash /\ rows[j].row.path # rows[i].row.path
    /\ \A p, q \in Known :
         p # q /\ Stable(p) /\ Stable(q) /\ (\A t, u \in was : Looked(t, p).data = Looked(u, q).data) =>
           IsCut \/ \E i, j \in DOMAIN rows : rows[i].row.path = p /\ rows[j].row.path = q /\ rows[i].hash = rows[j].hash

(* In a tree that stands still, the path is one a drawn tree has.          *)
Drawn(t, p) ==
  /\ p \in DOMAIN t /\ Reached(t, p) /\ ~(t[p].type = "dir" /\ Name(p) \in Junk)
  /\ cmd.hidden \/ Name(p) \notin Dotted
  /\ cmd.type = "dir" => t[p].type = "dir"

(* A drawn tree has every entry under its own directory, behind those that *)
(* sort before it, and none that stayed is missing (tree.rs).              *)
TreeIsDrawn ==
  Ended /\ cmd.op = "tree" =>
    /\ \A i \in DOMAIN rows :
         /\ Len(rows[i].path) = 1 \/ \E j \in 1..(i - 1) : rows[j].path = Parent(rows[i].path)
         /\ \A j \in 1..(i - 1) : Less(PathKey(rows[j].path), PathKey(rows[i].path))
    /\ \A p \in Known :
         Always(LAMBDA t : Drawn(t, p)) => p \in Printed \/ IsCut

(* Exit 1 means that nothing was there all the time, exit 2 a question     *)
(* refused or, for glob alone, an entry that vanished (glob.rs, run).      *)
ExitsAreTrue ==
  Ended => /\ code = 1 => cmd.top = 0 \/ cmd.op = "duplicates" \/ \A p \in Known : ~Stable(p)
           /\ code = 0 /\ cmd.op # "tree" /\ cmd.limit # 0 => rows # <<>>
           /\ code = 2 => Refused(cmd) \/ (cmd.op = "glob" /\ \E t, u \in was : DOMAIN t \ DOMAIN u # {})

(* What a walk says of a tree that others change while it goes on.         *)
WalksAreTrue == ListingIsTrue /\ LargestAreShown /\ DuplicatesAreReal /\ TreeIsDrawn /\ ExitsAreTrue
=============================================================================
