------------------------------ MODULE GitHistory ------------------------------
(***************************************************************************)
(* sak git (src/git): the walks over the history (log, contributors,       *)
(* shortlog, churn, age), one commit at a time while HEAD may move, and    *)
(* the commands that compare trees or look refs up.                        *)
(*                                                                         *)
(* A repository is a record: commits with parents, a clock's time, an      *)
(* author and a tree; refs, the index, the working tree.  A tree is a      *)
(* function from paths to blobs.  The walk of the library goes from HEAD   *)
(* and takes, of the commits it knows, one whose time is the latest: that  *)
(* is its order by time, and a clock that went wrong shows in it.          *)
(***************************************************************************)
EXTENDS Integers, Sequences, FiniteSets, SequencesExt

CONSTANTS
  Repos,     \* repositories
  Commands,  \* command lines: [op, ...]
  None,
  Day,       \* seconds of a day, few
  Rank,      \* the order of names
  Place,     \* the order of paths
  MaxMoves   \* bound: how often HEAD moves during a command

VARIABLES
  repo, cmd,
  head,       \* where HEAD points now
  start,      \* where it did when the walk began
  frontier,   \* commits found and not yet visited
  seen,       \* commits found
  remaining,  \* age: files whose newest touch is not found yet
  acc,        \* what the walk has gathered, in its order
  phase,      \* "open", "walk", "done"
  printed, code, moves

vars == <<repo, cmd, head, start, frontier, seen, remaining, acc, phase, printed, code, moves>>

-----------------------------------------------------------------------------
(* The library: ancestors, differences of trees, names of objects.         *)

Parents(c) == repo.commits[c].parents
Time(c) == repo.commits[c].time
Tree(c) == repo.commits[c].tree
Author(c) == repo.commits[c].author
Commits == DOMAIN repo.commits

Ancestors(c) ==
  LET up[n \in 0 .. Cardinality(Commits)] ==
        IF n = 0 THEN {c} ELSE up[n - 1] \cup UNION {Range(Parents(d)) : d \in up[n - 1]}
  IN  up[Cardinality(Commits)]

merge_bases(a, b) ==
  LET common == Ancestors(a) \cap Ancestors(b)
  IN  {c \in common : \A d \in common \ {c} : c \notin Ancestors(d)}

Touched(old, new) ==
  {p \in DOMAIN old \cup DOMAIN new :
     p \notin DOMAIN old \/ p \notin DOMAIN new \/ old[p] # new[p]}
NoTree == [p \in {} |-> None]
parent_tree(c) == IF Parents(c) = <<>> THEN NoTree ELSE Tree(Parents(c)[1])
Deltas(c) == Touched(parent_tree(c), Tree(c))

(* A deleted path and an added one with the same blob are a rename.        *)
Renames(old, new) ==
  {p \in DOMAIN new \ DOMAIN old : \E q \in DOMAIN old \ DOMAIN new : old[q] = new[p]}
MovedAway(old, new) == {q \in DOMAIN old \ DOMAIN new : \E p \in Renames(old, new) : old[q] = new[p]}

-----------------------------------------------------------------------------
(* Filters.                                                                *)

Within(path, filters) == filters = {} \/ \E f \in filters : SubSeq(path, 1, Len(f)) = f
TooOld(c) == cmd.since # None /\ Time(c) < cmd.since
TooNew(c) == cmd.until # None /\ Time(c) > cmd.until
IsMerge(c) == Len(Parents(c)) > 1

(* Both paths of a difference are looked at: one set, as it is not paired. *)
commit_touches_paths(c) == cmd.paths = {} \/ \E p \in Deltas(c) : Within(p, cmd.paths)
LogShows(c) ==
  /\ cmd.author \in {None} \cup Range(Author(c))
  /\ cmd.grep \in {None, repo.commits[c].message}
  /\ commit_touches_paths(c)

(* Division towards zero: before 1970 the day after is printed.            *)
format_date(secs) == IF secs >= 0 THEN secs \div Day ELSE -((-secs) \div Day)

-----------------------------------------------------------------------------
(* The walk.                                                               *)

Walks == {"log", "contributors", "shortlog", "churn", "age"}
head_files(h) == IF h = None THEN {} ELSE {p \in DOMAIN Tree(h) : Within(p, cmd.paths)}

Finish(rows, c) ==
  /\ phase' = "done" /\ printed' = rows /\ code' = c
  /\ UNCHANGED <<repo, cmd, head, start, frontier, seen, remaining, acc, moves>>
Show(rows) == Finish(rows, IF rows = <<>> THEN "1" ELSE "0")

(* age reads the files of HEAD before the walk looks at HEAD again.        *)
Prepare ==
  /\ phase = "open" /\ cmd.op = "age"
  /\ remaining' = head_files(head)
  /\ phase' = "prepared"
  /\ UNCHANGED <<repo, cmd, head, start, frontier, seen, acc, printed, code, moves>>

push_head ==
  /\ phase = (IF cmd.op = "age" THEN "prepared" ELSE "open")
  /\ cmd.op \in Walks
  /\ start' = head
  /\ frontier' = IF head = None \/ (cmd.op = "age" /\ remaining = {}) THEN {} ELSE {head}
  /\ seen' = frontier'
  /\ phase' = "walk"
  /\ UNCHANGED <<repo, cmd, head, remaining, acc, printed, code, moves>>

(* mistake: oldest first                                                   *)
Due_Oldest(c) == c \in frontier /\ \A d \in frontier : Time(d) >= Time(c)
Due(c) == c \in frontier /\ \A d \in frontier : Time(d) <= Time(c)

Advance(c) ==
  /\ frontier' = (frontier \ {c}) \cup (Range(Parents(c)) \ seen)
  /\ seen' = seen \cup Range(Parents(c))
Break == frontier' = {} /\ UNCHANGED seen
Unseen == <<repo, cmd, head, start, phase, printed, code, moves>>

(* log: the filters, then the count, then the row.                         *)
log(c) ==
  /\ cmd.op = "log"
  /\ UNCHANGED remaining
  /\ CASE TooOld(c) -> Break /\ UNCHANGED acc
       [] ~TooOld(c) /\ (TooNew(c) \/ ~LogShows(c)) -> Advance(c) /\ UNCHANGED acc
       [] OTHER -> IF cmd.count # None /\ Len(acc) >= cmd.count THEN Break /\ UNCHANGED acc
                   ELSE Advance(c) /\ acc' = Append(acc, c)

contributors(c) ==
  /\ cmd.op \in {"contributors", "shortlog"}
  /\ UNCHANGED remaining
  /\ IF cmd.op = "contributors" /\ TooOld(c) THEN Break /\ UNCHANGED acc
     ELSE /\ Advance(c)
          /\ acc' = IF cmd.op = "contributors" /\ TooNew(c) THEN acc ELSE Append(acc, c)

(* churn and age share for_each_file_delta: merges are passed over, the    *)
(* others are compared with their first parent.                            *)
for_each_file_delta(c) ==
  /\ cmd.op \in {"churn", "age"}
  /\ IF TooOld(c) THEN Break /\ UNCHANGED <<acc, remaining>>
     ELSE IF IsMerge(c) /\ ~cmd.merges THEN Advance(c) /\ UNCHANGED <<acc, remaining>>
     ELSE LET hit == {p \in Deltas(c) : IF cmd.op = "age" THEN p \in remaining ELSE Within(p, cmd.paths)}
          IN  /\ acc' = acc \o SetToSeq({<<p, Time(c)>> : p \in hit})
              /\ remaining' = remaining \ hit
              /\ IF cmd.op = "age" /\ remaining' = {} THEN Break ELSE Advance(c)

Visit ==
  /\ phase = "walk"
  /\ \E c \in Commits : Due(c) /\ (log(c) \/ contributors(c) \/ for_each_file_delta(c))
  /\ UNCHANGED Unseen

(* Somebody commits, or checks something else out.                         *)
Move ==
  /\ phase \in {"open", "prepared", "walk"} /\ moves < MaxMoves
  /\ \E c \in Commits \ {head} : head' = c
  /\ moves' = moves + 1
  /\ UNCHANGED <<repo, cmd, start, frontier, seen, remaining, acc, phase, printed, code>>

-----------------------------------------------------------------------------
(* What a walk prints.                                                     *)

Keep(rows, n) == IF n = None \/ n > Len(rows) THEN rows ELSE SubSeq(rows, 1, n)
InOrder(rows, less(_, _)) == \A i, k \in DOMAIN rows : i < k => ~less(rows[k], rows[i])
Arranged(S, less(_, _)) == CHOOSE rows \in SetToSeqs(S) : InOrder(rows, less)

By(author) == SelectSeq(acc, LAMBDA c : Author(c) = author)
Authors == {<<Author(acc[i]), Len(By(Author(acc[i])))>> : i \in DOMAIN acc}
MoreCommits(a, b) == a[2] > b[2] \/ (a[2] = b[2] /\ Rank[a[1][1]] < Rank[b[1][1]])
ByName(a, b) == Rank[a[1][1]] < Rank[b[1][1]]
MoreOrMail(a, b) == MoreCommits(a, b) \/ (a[2] = b[2] /\ a[1][1] = b[1][1] /\ Rank[a[1][2]] < Rank[b[1][2]])
ByCount(a, b) == a[2] > b[2] \/ (a[2] = b[2] /\ Place[a[1]] < Place[b[1]])
ByAge(a, b) == a[2] < b[2] \/ (a[2] = b[2] /\ Place[a[1]] < Place[b[1]])

churn_counts ==
  {<<p, Cardinality({i \in DOMAIN acc : acc[i][1] = p})>> : p \in {acc[i][1] : i \in DOMAIN acc}}
file_ages == {<<e[1], e[2], IF cmd.now > e[2] THEN (cmd.now - e[2]) \div Day ELSE 0>> : e \in Range(acc)}

(* Authors of one name and count have no order of their own: any may come  *)
(* first, and --count may cut between them.                                *)
Report ==
  /\ phase = "walk" /\ frontier = {}
  /\ CASE cmd.op = "log" -> Show([i \in DOMAIN acc |-> <<acc[i], format_date(Time(acc[i]))>>])
       [] cmd.op = "contributors" ->
            \E rows \in SetToSeqs(Authors) :
              /\ IF cmd.sort = "name" THEN InOrder(rows, ByName) ELSE InOrder(rows, MoreCommits)
              /\ Finish(Keep(rows, cmd.count), IF rows = <<>> THEN "1" ELSE "0")
       [] cmd.op = "shortlog" ->
            LET rows == Keep(Arranged(Authors, MoreOrMail), cmd.count)
            IN  Finish([i \in DOMAIN rows |-> <<rows[i][1], By(rows[i][1])>>],
                       IF acc = <<>> THEN "1" ELSE "0")
       [] cmd.op = "churn" -> Show(Arranged(churn_counts, ByCount))
       [] OTHER -> Show(Arranged(file_ages, ByAge))

-----------------------------------------------------------------------------
(* Comparisons of trees.                                                   *)

Object(name) == IF name \in DOMAIN repo.refs THEN repo.refs[name] ELSE [kind |-> "missing"]
Peels(name) == Object(name).kind \in {"commit", "tag"}
Peeled(name) == Object(name).commit
(* A tree has no commit, but two trees compare as well as two commits do.  *)
HasTree(name) == Peels(name) \/ Object(name).kind = "tree"
resolve_tree(name) == IF Peels(name) THEN Tree(Peeled(name)) ELSE Object(name).tree

Letters(old, new) ==
  {<<IF p \in Renames(old, new) THEN "R" ELSE IF p \notin DOMAIN old THEN "A"
     ELSE IF p \notin DOMAIN new THEN "D" ELSE "M", p>> : p \in Touched(old, new) \ MovedAway(old, new)}
ByPath(a, b) == Place[a[2]] < Place[b[2]]

Idle == phase = "open" /\ cmd.op \notin Walks
changed_files ==
  /\ Idle /\ cmd.op = "changed-files"
  /\ IF ~(HasTree(cmd.from) /\ HasTree(cmd.to)) THEN Finish(<<>>, "2")
     ELSE Show(Arranged(Letters(resolve_tree(cmd.from), resolve_tree(cmd.to)), ByPath))

(* Of the working tree the library compares the paths the other side has.  *)
Workdir(old) == [p \in DOMAIN repo.workdir \cap DOMAIN old |-> repo.workdir[p]]

(* A range's empty side is HEAD; a range and a second ref are too much;    *)
(* one ref alone is compared with the working tree.  Only the sides of a   *)
(* "..." have to be commits.                                               *)
Sides ==
  [old |-> IF cmd.range = "..."
           THEN Tree(CHOOSE c \in merge_bases(Peeled(cmd.from), Peeled(cmd.to)) : TRUE)
           ELSE resolve_tree(cmd.from),
   new |-> IF cmd.range = "" /\ cmd.to = None THEN Workdir(resolve_tree(cmd.from)) ELSE resolve_tree(cmd.to)]
Unresolved ==
  \/ ~HasTree(cmd.from) \/ (cmd.to # None /\ ~HasTree(cmd.to))
  \/ cmd.range # "" /\ cmd.second # None
  \/ cmd.range = "..." /\ ~(Peels(cmd.from) /\ Peels(cmd.to))
  \/ cmd.range = "..." /\ merge_bases(Peeled(cmd.from), Peeled(cmd.to)) = {}
(* Without a ref: HEAD and the index, or the index and the working tree.   *)
build_diff ==
  IF cmd.from # None THEN Sides
  ELSE IF cmd.staged THEN [old |-> Tree(head), new |-> repo.index]
  ELSE [old |-> repo.index, new |-> Workdir(repo.index)]
Paths(old, new) == {p \in Touched(old, new) : Within(p, cmd.paths)}
diff ==
  /\ Idle /\ cmd.op = "diff"
  /\ IF (cmd.from # None /\ Unresolved) \/ (cmd.from = None /\ cmd.staged /\ head = None)
     THEN Finish(<<>>, "2")
     ELSE Show(SetToSeq(Paths(build_diff.old, build_diff.new)))

status ==
  /\ Idle /\ cmd.op = "status"
  /\ LET headtree == IF head = None THEN NoTree ELSE Tree(head)
         paths == {p \in Touched(headtree, repo.index) \cup Touched(repo.index, repo.workdir) : Within(p, cmd.paths)}
         letter(old, new, p) == CASE p \notin Touched(old, new) -> "."
                                  [] p \in Touched(old, new) /\ p \notin DOMAIN old -> "new"
                                  [] p \in Touched(old, new) /\ p \notin DOMAIN new -> "D"
                                  [] OTHER -> "M"
     IN  Show(Arranged({<<<<letter(headtree, repo.index, p), letter(repo.index, repo.workdir, p)>>, p>> : p \in paths}, ByPath))

(* The index holds a path once for every side of a conflict.               *)
ls_files ==
  /\ Idle /\ cmd.op = "ls-files"
  /\ Show(Arranged({<<"", p>> : p \in DOMAIN repo.index}, ByPath))

show ==
  /\ Idle /\ cmd.op = "show"
  /\ IF Object(cmd.from).kind = "missing" THEN Finish(<<>>, "1")
     ELSE IF ~Peels(cmd.from) THEN Finish(<<>>, "2")
     ELSE Finish(<<Peeled(cmd.from), format_date(Time(Peeled(cmd.from))), Deltas(Peeled(cmd.from))>>, "0")

(* The lines come from the working tree, who wrote them from HEAD; a line  *)
(* HEAD does not have is left out.                                         *)
BlameRow(i) == IF i \notin DOMAIN repo.lines.head THEN <<>>
               ELSE <<repo.lines.head[i].commit, i, repo.lines.workdir[i]>>
blame ==
  /\ Idle /\ cmd.op = "blame"
  /\ LET lines == repo.lines.workdir
         last == IF cmd.last < Len(lines) THEN cmd.last ELSE Len(lines)
     IN  IF head = None THEN Finish(<<>>, "2")
         ELSE IF cmd.first > Len(lines) THEN Finish(<<>>, "1")
         ELSE Finish(SelectSeq([i \in 1 .. last - cmd.first + 1 |-> BlameRow(cmd.first + i - 1)],
                               LAMBDA row : row # <<>>), "0")

-----------------------------------------------------------------------------
(* Refs.                                                                   *)

(* A branch, or a tag, that has a commit among its ancestors.              *)
descendant_of(tip, c) == c \in Ancestors(tip)
Listed(names) ==
  {n \in names : cmd.from = None \/ (Peels(n) /\ descendant_of(Peeled(n), Peeled(cmd.from)))}
TagTime(n) == IF Peels(n) THEN Time(Peeled(n)) ELSE 0
Newest(a, b) == TagTime(a) > TagTime(b)
branches_and_tags ==
  /\ Idle /\ cmd.op \in {"branch", "tags"}
  /\ IF cmd.from # None /\ ~Peels(cmd.from) THEN Finish(<<>>, "2")
     ELSE LET names == Listed(repo.names[cmd.op])
              byname(a, b) == Rank[a] < Rank[b]
          IN  IF cmd.op = "tags" /\ cmd.sort = "date" THEN Show(SortSeq(Arranged(names, byname), Newest))
              ELSE Show(Arranged(names, byname))

ahead_behind ==
  /\ Idle /\ cmd.op \in {"ahead-behind", "merge-base"}
  /\ IF ~(Peels(cmd.from) /\ Peels(cmd.to)) THEN Finish(<<>>, "2")
     ELSE LET a == Ancestors(Peeled(cmd.from))
              b == Ancestors(Peeled(cmd.to))
          IN  IF cmd.op = "ahead-behind" THEN Finish(<<Cardinality(a \ b), Cardinality(b \ a)>>, "0")
              ELSE IF a \cap b = {} THEN Finish(<<>>, "2")
              ELSE \E c \in merge_bases(Peeled(cmd.from), Peeled(cmd.to)) : Finish(<<c>>, "0")

(* ref-resolve tells what an object is, cat-file dumps all but commits; an *)
(* empty blob or tree is nothing found.                                    *)
Empty(object) == \/ object.kind = "blob" /\ object.size = 0
                 \/ object.kind = "tree" /\ DOMAIN object.tree = {}
ref_resolve ==
  /\ Idle /\ cmd.op \in {"ref-resolve", "cat-file"}
  /\ LET object == Object(cmd.from)
     IN  CASE object.kind = "missing" -> Finish(<<>>, "1")
           [] cmd.op = "ref-resolve" /\ object.kind # "missing" ->
                Finish(<<object.kind, IF Peels(cmd.from) THEN Peeled(cmd.from) ELSE None>>, "0")
           [] cmd.op = "cat-file" /\ object.kind = "commit" -> Finish(<<>>, "2")
           [] OTHER -> Show(IF Empty(object) THEN <<>> ELSE <<object.kind>>)

Init ==
  /\ repo \in Repos /\ cmd \in Commands
  /\ head = repo.head /\ start = None
  /\ frontier = {} /\ seen = {} /\ remaining = {} /\ acc = <<>>
  /\ phase = "open" /\ printed = <<>> /\ code = "running" /\ moves = 0
Looks == \/ changed_files \/ diff \/ status \/ ls_files \/ show \/ blame
         \/ branches_and_tags \/ ahead_behind \/ ref_resolve
Next == Prepare \/ push_head \/ Visit \/ Move \/ Report \/ Looks
Spec == Init /\ [][Next]_vars

-----------------------------------------------------------------------------
(* What is promised.                                                       *)

Reach == IF start = None THEN {} ELSE Ancestors(start)
ClocksAgree == \A c \in Reach : \A p \in Range(Parents(c)) : Time(p) <= Time(c)
InTime(c) == ~TooOld(c) /\ (cmd.op \in {"log", "contributors"} => ~TooNew(c))
Counted(c) == InTime(c) /\ (cmd.merges \/ ~IsMerge(c))
Touches(p) == {c \in Reach : Counted(c) /\ p \in Deltas(c)}
Latest(S) == CHOOSE t \in S : \A u \in S : u <= t
Told == phase = "done" /\ code \in {"0", "1"}

(* log, contributors and churn tell of commits that are in the history and *)
(* match, and of no others; where no commit is younger than its child they *)
(* tell of all of them, log up to --count and the newest first             *)
(* (src/git/log.rs, src/git/contributors.rs, src/git/walk.rs).             *)
HistoryIsWhole ==
  LET right == {c \in Reach : InTime(c) /\ (cmd.op = "log" => LogShows(c))}
      shown == {printed[i][1] : i \in DOMAIN printed}
      few == cmd.count # None /\ cmd.count < Cardinality(right)
  IN /\ Told /\ cmd.op = "log" =>
          /\ shown \subseteq right /\ Len(printed) = Cardinality(shown)
          /\ ClocksAgree =>
               /\ Len(printed) = IF few THEN cmd.count ELSE Cardinality(right)
               /\ \A c \in shown : \A d \in right \ shown : Time(d) <= Time(c)
     /\ Told /\ cmd.op = "contributors" /\ cmd.count = None =>
          \A a \in {Author(c) : c \in Commits} :
            LET told == {printed[i][2] : i \in {k \in DOMAIN printed : printed[k][1] = a}}
                all == Cardinality({c \in right : Author(c) = a})
            IN  IF ClocksAgree THEN told = {all} \ {0} ELSE \A n \in told : n <= all
     /\ Told /\ cmd.op = "churn" /\ ClocksAgree =>
          Range(printed) = {<<p, Cardinality(Touches(p))>> :
            p \in {q \in UNION {Deltas(c) : c \in Reach} : Touches(q) # {} /\ Within(q, cmd.paths)}}

(* age gives every file the time of its newest change, though the walk     *)
(* stops as soon as each file has one, where no commit is younger than its *)
(* child and HEAD stays (src/git/age.rs, file_ages); a file that HEAD does *)
(* not have any more is never told of.                                     *)
AgesAreNewest ==
  Told /\ cmd.op = "age" =>
    /\ moves = 0 => \A i \in DOMAIN printed : printed[i][1] \in head_files(head)
    /\ moves = 0 /\ ClocksAgree =>
         {<<row[1], row[2]>> : row \in Range(printed)} =
           {<<p, Latest({Time(c) : c \in Touches(p)})>> : p \in {q \in head_files(head) : Touches(q) # {}}}
HistoryIsTrue == HistoryIsWhole /\ AgesAreNewest

(* The rows of changed-files turn one tree into the other: what is gone    *)
(* without a row has its blob under a path that is marked as renamed       *)
(* (src/git/changed_files.rs).                                             *)
RowsReplay ==
  LET old == resolve_tree(cmd.from)
      new == resolve_tree(cmd.to)
      marked(letters) == {row[2] : row \in {r \in Range(printed) : r[1] \in letters}}
      silent == DOMAIN old \ (DOMAIN new \cup marked({"D"}))
  IN  Told /\ cmd.op = "changed-files" =>
        /\ marked({"A", "R"}) = DOMAIN new \ DOMAIN old
        /\ marked({"D"}) \cap DOMAIN new = {}
        /\ \A p \in DOMAIN old \cap DOMAIN new : p \in marked({"M"}) <=> old[p] # new[p]
        /\ \A q \in silent : \E p \in marked({"R"}) : new[p] = old[q]

(* `diff A...B` is the work of B's side alone: every path it shows was     *)
(* changed by a commit that B has and A has not (src/git/diff.rs).         *)
BranchIsSized ==
  LET ours == Ancestors(Peeled(cmd.to)) \ Ancestors(Peeled(cmd.from))
  IN  Told /\ cmd.op = "diff" /\ cmd.from # None /\ cmd.range = "..." /\ (\A c \in ours : ~IsMerge(c)) =>
          \A i \in DOMAIN printed : \E c \in ours : printed[i] \in Deltas(c)
ComparisonsAreTrue == RowsReplay /\ BranchIsSized
=============================================================================
