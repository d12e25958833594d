--------------------------------- MODULE Grep ---------------------------------
(***************************************************************************)
(* `sak fs grep` (src/fs/grep.rs), line mode: collect the files of the     *)
(* tree, search them one by one, and print each one's rows through a       *)
(* BoundedWriter before the next is opened.  Other programs may rewrite or *)
(* remove a file after the walk found it, and the reader of standard       *)
(* output may leave.                                                       *)
(*                                                                         *)
(* A line is a Boolean: whether the pattern (with -v: its absence) selects *)
(* it.  Paths are numbers, in the order files.sort() puts them; Stdin      *)
(* stands for piped standard input.                                        *)
(***************************************************************************)
EXTENDS BoundedWriter, FiniteSets, Numbers

CONSTANTS
  Trees,       \* the trees searched: functions from paths to [place, content]
  Contents,    \* what another program may leave in a file
  Options,     \* the command lines tried
  MaxChanges,  \* bound: how often a file changes under the search
  MaxNumber    \* bound: the lines of a file, and what --total adds up to

Stdin == 0
Places == {"named", "walked", "hidden", "skipped"}
Text(lines) == [kind |-> "text", lines |-> lines]
Opaque(kind) == [kind |-> kind, lines |-> <<>>]   \* "binary", "invalid", "gone"

OptionType ==
  [mode : {"rows", "count", "files", "total"}, before : Nat, after : Nat,
   capped : BOOLEAN, max : Nat, heading : BOOLEAN, hidden : BOOLEAN, stdin : BOOLEAN, limit : Limits]

ContentType ==
  [kind : {"text"}, lines : Seq(BOOLEAN)]
    \cup [kind : {"binary", "invalid", "gone"}, lines : {<<>>}]
FileType == [place : Places, content : ContentType]

RowOf(kind, src, num) == [kind |-> kind, src |-> src, num |-> num]
RowItem(kind, src, num) == [what |-> "row", row |-> RowOf(kind, src, num)]
DecoItem(kind, src) == [what |-> "deco", row |-> RowOf(kind, src, 0)]

NoLimit == [kind |-> "none", n |-> 0]

ASSUME GrepAssumption ==
  /\ Options \subseteq OptionType /\ NoLimit \in Limits
  /\ MaxChanges \in Nat /\ MaxNumber \in Nat
  /\ \A c \in Contents : c \in ContentType /\ Len(c.lines) <= MaxNumber
  /\ \A t \in Trees :
       /\ t \in [DOMAIN t -> FileType] /\ IsFiniteSet(DOMAIN t)
       /\ DOMAIN t \subseteq Nat /\ Stdin \in DOMAIN t
       /\ \A p \in DOMAIN t : Len(t[p].content.lines) <= MaxNumber

(* The writer takes what a search prints.                                  *)
ASSUME PrintedAssumption ==
  \A t \in Trees : \A p \in DOMAIN t :
    /\ \A kind \in {"match", "context", "path", "count", "total"}, n \in 0 .. MaxNumber :
         RowOf(kind, p, n) \in Row
    /\ \A kind \in {"blank", "heading", "sep"} : RowOf(kind, p, 0) \in Deco

VARIABLES
  tree,       \* the files as they are now
  changes,    \* how often one changed
  opts,       \* the command line
  pc,         \* "collect", "search", "show", "emit", "done"
  files,      \* what the walk found, in path order; Stdin last
  at,         \* the index in files of the one being searched
  left,       \* its selected lines whose windows are still to be laid out
  shown, last_shown,
  todo,       \* what is left to print of it
  any_match, first_file, total,
  outcome,    \* "running", "Found", "NotFound", "error", "brokenpipe"
  searched    \* history: the content each file had when it was searched

worldVars == <<tree, changes, opts>>
windowVars == <<left, shown, last_shown>>
runVars == <<pc, files, at, windowVars, todo, any_match, first_file, total, outcome, searched>>
grepVars == <<worldVars, runVars, writerAll>>

GrepInit ==
  /\ tree \in Trees /\ changes = 0
  /\ opts \in Options
  /\ pc = "collect" /\ files = <<>> /\ at = 1 /\ todo = <<>>
  /\ left = <<>> /\ shown = {} /\ last_shown = 0
  /\ any_match = FALSE /\ first_file = TRUE /\ total = 0
  /\ outcome = "running"
  /\ searched = <<>>
  /\ WriterInit
  /\ limit = IF opts.mode = "total" THEN NoLimit ELSE opts.limit

-----------------------------------------------------------------------------
(* collect_files: a named file always, a walked one unless it is hidden,   *)
(* below a skipped directory or filtered out by --type or --glob.  A file  *)
(* named twice is searched twice, and is two paths of the tree.            *)
Found(p) ==
  /\ tree[p].content.kind # "gone"
  /\ \/ tree[p].place \in {"named", "walked"}
     \/ tree[p].place = "hidden" /\ opts.hidden

Collect ==
  /\ pc = "collect"
  /\ files' = Ascending({p \in DOMAIN tree \ {Stdin} : Found(p)})
                \o (IF opts.stdin THEN <<Stdin>> ELSE <<>>)
  /\ pc' = "search"
  /\ UNCHANGED <<worldVars, at, windowVars, todo, any_match, first_file, total, outcome,
                 searched, writerAll>>

multi_file == Len(files) > 1

(* The selected lines.  --max-count stops the loop after a line was taken, *)
(* so --max-count 0 takes one.                                             *)
Selected(lines) ==
  LET all  == {i \in DOMAIN lines : lines[i]}
      most == IF opts.max = 0 THEN 1 ELSE opts.max
  IN {i \in all : ~opts.capped \/ Cardinality({j \in all : j <= i}) <= most}

ctx_start(m) == IF m > opts.before THEN m - opts.before ELSE 1
ctx_end(lines, m) == IF m + opts.after < Len(lines) THEN m + opts.after ELSE Len(lines)

(* mistake: after the first window the lines before a match are skipped    *)
Fresh_NoneBefore(lines, m) ==
  ((IF shown = {} THEN ctx_start(m) ELSE m) .. ctx_end(lines, m)) \ shown

Fresh(lines, m) == (ctx_start(m) .. ctx_end(lines, m)) \ shown

(* A separator between context blocks; without headings it is dropped.     *)
Gap(m) ==
  /\ opts.heading /\ opts.before + opts.after > 0
  /\ last_shown # 0 /\ ctx_start(m) > last_shown + 1

(* emit_result's heading of one source, with a blank line before it.       *)
(* mistake: the blank line stands for the heading                          *)
Headings_BlankOnly(src) ==
  IF opts.heading /\ multi_file /\ ~first_file THEN <<DecoItem("blank", src)>> ELSE <<>>

Headings(src) ==
  IF opts.heading /\ multi_file
  THEN (IF first_file THEN <<>> ELSE <<DecoItem("blank", src)>>) \o <<DecoItem("heading", src)>>
  ELSE <<>>

-----------------------------------------------------------------------------
Return(result) ==
  /\ pc' = "done" /\ outcome' = result
  /\ UNCHANGED <<worldVars, files, at, windowVars, todo, any_match, first_file, total, searched>>

(* The next source is opened and read whole.                               *)
Searching == pc = "search" /\ at <= Len(files)
Content == tree[files[at]].content
Hits == Content.kind = "text" /\ Selected(Content.lines) # {}

(* Binary files are skipped.                                               *)
SkipFile ==
  /\ Searching
  /\ Content.kind \in {"text", "binary"} /\ ~Hits
  /\ at' = at + 1
  /\ searched' = Append(searched, Content)
  /\ UNCHANGED <<worldVars, pc, files, windowVars, todo, any_match, first_file, total,
                 outcome, writerAll>>

(* A file that is gone by now, or is not UTF-8, ends the command.          *)
SearchFails ==
  /\ Searching
  /\ Content.kind \in {"gone", "invalid"}
  /\ Return("error")
  /\ UNCHANGED writerAll

Total_FirstFileOnly(found) == IF any_match THEN total ELSE found

Total(found) == total + found

(* What is found is counted and, unless only the total is asked for, laid  *)
(* out: as a path, as a count, or window by window.                        *)
SearchHits ==
  /\ Searching /\ Hits
  /\ LET src   == files[at]
         lines == Content.lines
         found == Cardinality(Selected(lines))
     IN /\ total + found <= MaxNumber
        /\ total' = Total(found)
        /\ \/ /\ opts.mode = "total" /\ at' = at + 1
              /\ UNCHANGED <<pc, todo, windowVars>>
           \/ /\ opts.mode \in {"files", "count"} /\ pc' = "emit"
              /\ todo' = <<IF opts.mode = "files" THEN RowItem("path", src, 0)
                                                 ELSE RowItem("count", src, found)>>
              /\ UNCHANGED <<at, windowVars>>
           \/ /\ opts.mode = "rows" /\ pc' = "show"
              /\ todo' = Headings(src)
              /\ left' = Ascending(Selected(lines)) /\ shown' = {} /\ last_shown' = 0
              /\ UNCHANGED at
  /\ any_match' = TRUE
  /\ searched' = Append(searched, Content)
  /\ UNCHANGED <<worldVars, files, first_file, outcome, writerAll>>

(* search_reader_lines's loop over the windows shows the next line of the  *)
(* window that is not shown yet.  A separator goes before its first line:  *)
(* from then on last_shown is in the window.                               *)
FreshNow == Fresh(searched[at].lines, Head(left))

ShowLine ==
  /\ pc = "show"
  /\ \E i \in FreshNow :
       /\ \A k \in FreshNow : i <= k
       /\ todo' = todo \o (IF Gap(Head(left)) THEN <<DecoItem("sep", files[at])>> ELSE <<>>)
                       \o <<RowItem(IF i = Head(left) THEN "match" ELSE "context", files[at], i)>>
       /\ shown' = shown \cup {i} /\ last_shown' = i
  /\ UNCHANGED <<worldVars, pc, files, at, left, any_match, first_file, total, outcome, searched,
                 writerAll>>

NextMatch ==
  /\ pc = "show" /\ FreshNow = {}
  /\ left' = Tail(left)
  /\ pc' = IF left' = <<>> THEN "emit" ELSE "show"
  /\ UNCHANGED <<worldVars, files, at, shown, last_shown, todo, any_match, first_file, total,
                 outcome, searched, writerAll>>

Emitting == pc = "emit" /\ todo # <<>>

(* mistake: headings and separators use up the limit                       *)
EmitDecoration_Counted ==
  /\ Emitting /\ Head(todo).what = "deco" /\ reader
  /\ stdout' = Append(stdout, [row |-> 0, text |-> Head(todo).row])
  /\ lines_written' = lines_written + 1
  /\ todo' = Tail(todo)
  /\ UNCHANGED <<worldVars, pc, files, at, windowVars, any_match, first_file, total, outcome,
                 searched, limit, truncated, notices, offered, reader>>

EmitDecoration ==
  /\ Emitting /\ Head(todo).what = "deco"
  /\ WriteDecoration(Head(todo).row)
  /\ todo' = Tail(todo)
  /\ UNCHANGED <<worldVars, pc, files, at, windowVars, any_match, first_file, total, outcome,
                 searched>>

EmitRow ==
  /\ Emitting /\ Head(todo).what = "row" /\ ~AtLimit
  /\ WriteLine(Head(todo).row)
  /\ todo' = Tail(todo)
  /\ UNCHANGED <<worldVars, pc, files, at, windowVars, any_match, first_file, total, outcome,
                 searched>>

(* A refused row ends the search, or what is printed of standard input.    *)
RowRefused ==
  /\ Emitting /\ Head(todo).what = "row" /\ AtLimit
  /\ WriteLine(Head(todo).row)
  /\ IF files[at] = Stdin
     THEN /\ at' = at + 1 /\ todo' = <<>> /\ pc' = "search"
          /\ UNCHANGED <<worldVars, files, windowVars, any_match, first_file, total, outcome,
                         searched>>
     ELSE Return("Found")

SourceEmitted ==
  /\ pc = "emit" /\ todo = <<>>
  /\ first_file' = (first_file /\ opts.mode # "rows")
  /\ at' = at + 1
  /\ pc' = "search"
  /\ UNCHANGED <<worldVars, files, windowVars, todo, any_match, total, outcome, searched,
                 writerAll>>

Verdict == IF any_match THEN "Found" ELSE "NotFound"

Finish ==
  /\ pc = "search" /\ at > Len(files)
  /\ IF opts.mode = "total" THEN reader /\ WriteLine(RowOf("total", Stdin, total))
                            ELSE UNCHANGED writerAll
  /\ Return(Verdict)

BrokenPipe ==
  /\ \/ Emitting /\ (IF Head(todo).what = "row" THEN LineFails ELSE DecorationFails)
     \/ pc = "search" /\ at > Len(files) /\ opts.mode = "total" /\ ~reader
  /\ Return("brokenpipe")
  /\ UNCHANGED writerAll

Done == pc = "done" /\ UNCHANGED grepVars

(* Another program rewrites a file, or removes it.                         *)
Change(p, content) ==
  /\ changes < MaxChanges /\ pc \in {"search", "show", "emit"}
  /\ tree' = [tree EXCEPT ![p].content = content]
  /\ changes' = changes + 1
  /\ UNCHANGED <<opts, runVars, writerAll>>

Leave == pc # "done" /\ CloseReader /\ UNCHANGED <<worldVars, runVars>>

GrepNext ==
  \/ Collect
  \/ SkipFile \/ SearchFails \/ SearchHits \/ ShowLine \/ NextMatch
  \/ EmitDecoration \/ EmitRow \/ RowRefused \/ SourceEmitted
  \/ Finish \/ BrokenPipe \/ Done
  \/ \E p \in DOMAIN tree \ {Stdin}, content \in Contents : Change(p, content)
  \/ Leave

GrepSpec == GrepInit /\ [][GrepNext]_grepVars

-----------------------------------------------------------------------------
(* Properties.                                                             *)

ItemType == [what : {"row", "deco"}, row : Row \cup Deco]

GrepTypeOK ==
  /\ pc \in {"collect", "search", "show", "emit", "done"}
  /\ files \in Seq(DOMAIN tree) /\ at \in 1 .. Len(files) + 1
  /\ todo \in Seq(ItemType)
  /\ left \in Seq(Nat) /\ shown \subseteq Nat /\ last_shown \in Nat
  /\ any_match \in BOOLEAN /\ first_file \in BOOLEAN /\ total \in Nat
  /\ outcome \in {"running", "Found", "NotFound", "error", "brokenpipe"}
  /\ pc = "done" <=> outcome # "running"
  /\ WriterTypeOK

(* Grep is a client of the writer: every theorem about WriterSpec holds of *)
(* what it prints.                                                         *)
UsesWriter == WriterInit /\ [][WriterNext]_writerAll

IndexOf(src) == CHOOSE k \in DOMAIN files : files[k] = src
OfferedOf(src) == {offered[i].num : i \in {j \in DOMAIN offered : offered[j].src = src}}

(* The lines within reach of a match.                                      *)
Windows(lines) ==
  {j \in DOMAIN lines :
     \E m \in Selected(lines) : m <= j + opts.before /\ j <= m + opts.after}

(* Every searched source has exactly the lines near its matches as rows,   *)
(* each once, in file order, sources in path order -- whatever changed in  *)
(* the tree since the walk, and however windows overlap (the shown set and *)
(* last_shown of search_reader_lines).                                     *)
RowsComplete ==
  opts.mode = "rows" =>
    /\ \A k \in 1 .. Len(searched) :
         /\ OfferedOf(files[k]) \subseteq Windows(searched[k].lines)
         /\ k < at /\ ~truncated => OfferedOf(files[k]) = Windows(searched[k].lines)
    /\ \A i \in 1 .. Len(offered) - 1 :
         \/ IndexOf(offered[i].src) < IndexOf(offered[i + 1].src)
         \/ /\ offered[i].src = offered[i + 1].src
            /\ offered[i].num < offered[i + 1].num

IsDeco(i, kind) == stdout[i].row = 0 /\ stdout[i].text.kind = kind

(* With headings on, a "--" stands between two rows of a file exactly when *)
(* context was asked for and lines between them are missing ("a separator  *)
(* marks a gap between two context blocks", src/fs/grep.rs).               *)
GapsAreMarked ==
  opts.mode = "rows" /\ opts.heading =>
    \A i, j \in DOMAIN stdout :
      (/\ i < j /\ IsRow(i) /\ IsRow(j)
       /\ stdout[i].text.src = stdout[j].text.src
       /\ \A m \in i + 1 .. j - 1 : ~IsRow(m))
      => ((\E m \in i + 1 .. j - 1 : IsDeco(m, "sep"))
          <=> /\ opts.before + opts.after > 0
              /\ stdout[j].text.num > stdout[i].text.num + 1)

(* With headings on and several sources, a row stands below the heading of *)
(* its own file, even after sources without matches, refused rows and      *)
(* suppressed decorations.                                                 *)
RowsUnderHeading ==
  opts.mode = "rows" /\ opts.heading /\ multi_file =>
    \A i \in DOMAIN stdout : IsRow(i) =>
      \E h \in 1 .. i - 1 :
        /\ IsDeco(h, "heading") /\ stdout[h].text.src = stdout[i].text.src
        /\ \A m \in h + 1 .. i - 1 : ~IsDeco(m, "heading")

(* The rows of a search stand where they belong.                           *)
RowsAreMarked == GrepTypeOK /\ GapsAreMarked /\ RowsUnderHeading

Matching(k) == Selected(searched[k].lines)

(* The exit code and the --total say what was found in the contents that   *)
(* were searched, under any --limit.  Without an error every file was read *)
(* that the limit did not cut off, and an error is given of the file whose *)
(* turn it is, gone or not UTF-8 by then, or of a reader that has left.    *)
AnswerIsRight ==
  /\ outcome = "Found" => \E k \in DOMAIN searched : Matching(k) # {}
  /\ outcome = "NotFound" => /\ \A k \in DOMAIN searched : Matching(k) = {}
                             /\ Len(searched) = Len(files)
  /\ opts.mode = "total" /\ outcome \in {"Found", "NotFound"} =>
       /\ Len(offered) = 1 /\ lines_written = 1
       /\ offered[1].num
            = Cardinality(UNION {{k} \X Matching(k) : k \in DOMAIN searched})
  /\ outcome \in {"Found", "NotFound"} =>
       /\ Len(searched) = Len(files) \/ truncated
       /\ \A k \in DOMAIN searched : searched[k].kind \in {"text", "binary"}
  /\ outcome = "error" => /\ at \in DOMAIN files /\ Len(searched) = at - 1
                          /\ Content.kind \in {"gone", "invalid"}
  /\ outcome = "brokenpipe" => ~reader

(* What src/fs/grep.rs says of its rows: "context rows use grep's          *)
(* path-line-text form so they stay distinguishable from matches".         *)
MatchesLookLikeMatches ==
  \A i \in DOMAIN offered :
    offered[i].kind = "context" =>
      offered[i].num \notin Matching(IndexOf(offered[i].src))
=============================================================================
