------------------------------ MODULE GrepProofs ------------------------------
(***************************************************************************)
(* Proofs about `fs grep`: what it answers and prints, of every tree,      *)
(* every change to it and every command line.                              *)
(***************************************************************************)
EXTENDS Grep, BoundedWriterProofs, NumbersProofs

(* The items a search prints, told apart as the writer tells them apart.   *)
Item == [what : {"row"}, row : Row] \cup [what : {"deco"}, row : Deco]

Printable(p) ==
  /\ \A kind \in {"match", "context", "path", "count", "total"}, n \in 0 .. MaxNumber :
       RowOf(kind, p, n) \in Row
  /\ \A kind \in {"blank", "heading", "sep"} : RowOf(kind, p, 0) \in Deco

Short(c) == c \in ContentType /\ Len(c.lines) <= MaxNumber

TreeOK ==
  /\ tree \in [DOMAIN tree -> FileType] /\ IsFiniteSet(DOMAIN tree)
  /\ DOMAIN tree \subseteq Nat /\ Stdin \in DOMAIN tree
  /\ \A p \in DOMAIN tree : Short(tree[p].content) /\ Printable(p)

(* Where the search is: what was searched are the files before the one it  *)
(* is at, and that one too once it was read.                               *)
Placed ==
  /\ pc = "collect" => files = <<>> /\ at = 1
  /\ pc \in {"collect", "search"} => Len(searched) = at - 1 /\ todo = <<>>
  /\ pc \in {"show", "emit"} => Len(searched) = at /\ at <= Len(files) /\ opts.mode # "total"
  /\ pc = "show" => left # <<>> /\ left \in Seq(1 .. Len(searched[at].lines)) /\ opts.mode = "rows"
  /\ pc = "done" => Len(searched) <= Len(files)

Typed ==
  /\ TreeOK /\ opts \in Options /\ changes \in Nat
  /\ pc \in {"collect", "search", "show", "emit", "done"}
  /\ files \in Seq(DOMAIN tree) /\ at \in 1 .. Len(files) + 1
  /\ searched \in Seq(ContentType) /\ \A k \in DOMAIN searched : Short(searched[k])
  /\ todo \in Seq(Item)
  /\ left \in Seq(Nat) /\ shown \subseteq Nat /\ last_shown \in Nat
  /\ any_match \in BOOLEAN /\ first_file \in BOOLEAN /\ total \in 0 .. MaxNumber
  /\ outcome \in {"running", "Found", "NotFound", "error", "brokenpipe"}
  /\ pc = "done" <=> outcome # "running"
  /\ WriterTypeOK
  /\ Placed

-----------------------------------------------------------------------------
(* Lines, matches and windows.                                             *)

LEMMA SelectedLines ==
  ASSUME NEW lines \in Seq(BOOLEAN)
  PROVE  /\ Selected(lines) \subseteq 1 .. Len(lines) /\ Selected(lines) \subseteq Nat
         /\ IsFiniteSet(Selected(lines))
         /\ Cardinality(Selected(lines)) \in 0 .. Len(lines)
  <1>1. Len(lines) \in Nat /\ DOMAIN lines = 1 .. Len(lines)
    OBVIOUS
  <1>2. Selected(lines) \subseteq 1 .. Len(lines)
    BY <1>1 DEF Selected
  <1>3. IsFiniteSet(1 .. Len(lines)) /\ Cardinality(1 .. Len(lines)) = Len(lines)
    BY <1>1, FS_Interval, SMTT(30)
  <1>4. IsFiniteSet(Selected(lines)) /\ Cardinality(Selected(lines)) <= Len(lines)
    BY <1>2, <1>3, FS_Subset
  <1>5. Cardinality(Selected(lines)) \in Nat
    BY <1>4, FS_CardinalityType
  <1>6. \A i \in 1 .. Len(lines) : i \in Nat
    BY <1>1
  <1> QED BY <1>1, <1>2, <1>4, <1>5, <1>6

LEMMA OptionsTyped ==
  ASSUME NEW o \in Options
  PROVE  /\ o.mode \in {"rows", "count", "files", "total"} /\ o.before \in Nat /\ o.after \in Nat
         /\ o.limit \in Limits /\ o.stdin \in BOOLEAN /\ o.heading \in BOOLEAN
  BY GrepAssumption DEF OptionType

LEMMA ContentTyped ==
  ASSUME NEW c \in ContentType
  PROVE  /\ c.kind \in {"text", "binary", "invalid", "gone"} /\ c.lines \in Seq(BOOLEAN)
         /\ Len(c.lines) \in Nat /\ (c.kind # "text" => c.lines = <<>>)
  <1>1. c.kind \in {"text", "binary", "invalid", "gone"} /\ c.lines \in Seq(BOOLEAN)
        /\ (c.kind # "text" => c.lines = <<>>)
    <2>1. CASE c \in [kind : {"text"}, lines : Seq(BOOLEAN)]
      BY <2>1
    <2>2. CASE c \in [kind : {"binary", "invalid", "gone"}, lines : {<<>>}]
      <3>1. c.kind \in {"binary", "invalid", "gone"} /\ c.lines = <<>>
        BY <2>2
      <3>2. <<>> \in Seq(BOOLEAN)
        OBVIOUS
      <3> QED BY <3>1, <3>2
    <2> QED BY <2>1, <2>2 DEF ContentType
  <1> QED BY <1>1

(* A window is the lines of the file within reach of its match.            *)
LEMMA WindowIsReach ==
  ASSUME NEW lines \in Seq(BOOLEAN), NEW m \in 1 .. Len(lines), opts \in Options
  PROVE  /\ ctx_start(m) \in 1 .. m /\ ctx_end(lines, m) \in m .. Len(lines)
         /\ \A j \in 1 .. Len(lines) : j \in ctx_start(m) .. ctx_end(lines, m)
                                         <=> m <= j + opts.before /\ j <= m + opts.after
  BY OptionsTyped DEF ctx_start, ctx_end

-----------------------------------------------------------------------------
(* Every step keeps the types.                                             *)

LEMMA TreesTyped ==
  ASSUME NEW t \in Trees
  PROVE  /\ t \in [DOMAIN t -> FileType] /\ IsFiniteSet(DOMAIN t)
         /\ DOMAIN t \subseteq Nat /\ Stdin \in DOMAIN t
         /\ \A p \in DOMAIN t : Short(t[p].content) /\ Printable(p)
  <1>1. t \in [DOMAIN t -> FileType] /\ \A p \in DOMAIN t : Len(t[p].content.lines) <= MaxNumber
    BY GrepAssumption
  <1>2. \A p \in DOMAIN t : t[p].content \in ContentType
    BY <1>1 DEF FileType
  <1>3. \A p \in DOMAIN t : Printable(p)
    BY PrintedAssumption DEF Printable
  <1> QED BY <1>1, <1>2, <1>3, GrepAssumption DEF Short

LEMMA GrepStarts == GrepInit => Typed
  <1> SUFFICES ASSUME GrepInit PROVE Typed
    OBVIOUS
  <1>1. TreeOK
    BY TreesTyped DEF GrepInit, TreeOK
  <1>2. WriterTypeOK
    BY WriterInitial DEF GrepInit
  <1>3. Placed
    BY DEF GrepInit, Placed
  <1>4. searched = <<>> /\ todo = <<>> /\ left = <<>> /\ files = <<>> /\ at = 1 /\ total = 0
    BY DEF GrepInit
  <1>5. at \in 1 .. Len(files) + 1 /\ total \in 0 .. MaxNumber
    BY <1>4, GrepAssumption
  <1>6. \A k \in DOMAIN searched : Short(searched[k])
    BY <1>4
  <1>7. /\ searched \in Seq(ContentType) /\ todo \in Seq(Item) /\ left \in Seq(Nat)
        /\ files \in Seq(DOMAIN tree)
    BY <1>4
  <1>8. /\ opts \in Options /\ changes \in Nat /\ pc = "collect" /\ outcome = "running"
        /\ any_match = FALSE /\ first_file = TRUE /\ shown = {} /\ last_shown = 0
    BY DEF GrepInit
  <1> HIDE DEF GrepInit
  <1> QED BY <1>1, <1>2, <1>3, <1>5, <1>6, <1>7, <1>8 DEF Typed

(* What the walk finds, each path once, in order, standard input last.     *)
LEMMA FilesOfWalk ==
  ASSUME TreeOK, opts \in Options, Collect
  PROVE  /\ files' \in Seq(DOMAIN tree)
         /\ \A i, k \in DOMAIN files' : files'[i] = files'[k] => i = k
         /\ \A i \in DOMAIN files' : files'[i] = Stdin => i = Len(files')
  <1> DEFINE walked == {p \in DOMAIN tree \ {Stdin} : Found(p)}
             s == Ascending(walked)
             rest == IF opts.stdin THEN <<Stdin>> ELSE <<>>
  <1>1. walked \subseteq DOMAIN tree /\ IsFiniteSet(walked) /\ Stdin \notin walked
    BY FS_Subset DEF TreeOK
  <1>2. walked \subseteq Nat /\ Stdin \in DOMAIN tree
    BY <1>1 DEF TreeOK
  <1> HIDE DEF walked
  <1>3. /\ s \in Seq(walked) /\ Len(s) = Cardinality(walked) /\ Cardinality(walked) \in Nat
        /\ \A k, l \in 1 .. Cardinality(walked) : k < l => s[k] < s[l]
    BY <1>1, <1>2, AscendingIsSorted
  <1> HIDE DEF s
  <1>4. \A k \in 1 .. Len(s) : s[k] \in walked /\ s[k] \in Nat
    <2>1. \A x \in walked : x \in Nat
      BY <1>2
    <2>2. \A k \in 1 .. Len(s) : s[k] \in walked
      BY <1>3
    <2> QED BY <2>1, <2>2
  <1>5. rest \in Seq(DOMAIN tree) /\ Len(rest) \in {0, 1} /\ (Len(rest) = 1 => rest[1] = Stdin)
    <2>1. CASE opts.stdin
      BY <1>2, <2>1
    <2>2. CASE ~opts.stdin
      BY <2>2
    <2> QED BY <2>1, <2>2
  <1>6. s \in Seq(DOMAIN tree)
    BY <1>1, <1>3
  <1> HIDE DEF rest
  <1>7. files' = s \o rest
    BY DEF Collect, s, rest, walked
  <1>8. /\ s \o rest \in Seq(DOMAIN tree) /\ DOMAIN (s \o rest) = 1 .. Len(s) + Len(rest)
        /\ Len(s \o rest) = Len(s) + Len(rest) /\ Len(s) \in Nat
        /\ \A i \in 1 .. Len(s) : (s \o rest)[i] = s[i]
        /\ Len(rest) = 1 => (s \o rest)[Len(s) + 1] = rest[1]
    BY <1>5, <1>6
  <1>9. \A i \in DOMAIN files' : \/ i \in 1 .. Len(s) /\ files'[i] = s[i] /\ s[i] # Stdin
                                 \/ i = Len(files') /\ i = Len(s) + 1 /\ files'[i] = Stdin
    BY <1>1, <1>4, <1>5, <1>7, <1>8, SMTT(30)
  <1>10. \A i, k \in 1 .. Len(s) : s[i] = s[k] => i = k
    <2> SUFFICES ASSUME NEW i \in 1 .. Len(s), NEW k \in 1 .. Len(s), s[i] = s[k] PROVE i = k
      OBVIOUS
    <2>1. ~(i < k) /\ ~(k < i)
      BY <1>3, <1>4
    <2> QED BY <1>8, <2>1
  <1>11. \A i, k \in DOMAIN files' : files'[i] = files'[k] => i = k
    BY <1>9, <1>10
  <1> QED BY <1>7, <1>8, <1>9, <1>11

(* The steps that leave the tree and the options alone.                    *)
LEMMA CollectTypes ==
  ASSUME Typed, Collect
  PROVE  Typed'
  <1>1. files' \in Seq(DOMAIN tree)
    BY FilesOfWalk DEF Typed
  <1>2. files = <<>> /\ at = 1 /\ searched = <<>> /\ todo = <<>>
    BY DEF Typed, Placed, Collect
  <1>3. at \in 1 .. Len(files') + 1
    BY <1>1, <1>2
  <1>4. Len(searched) = 0
    BY <1>2
  <1>5. TreeOK' /\ WriterTypeOK'
    <2>1. tree' = tree /\ UNCHANGED writerAll
      BY DEF Collect, worldVars
    <2>2. TreeOK'
      BY <2>1 DEF Typed, TreeOK
    <2>3. WriterTypeOK'
      BY <2>1 DEF Typed, WriterTypeOK, writerAll, writerVars
    <2> QED BY <2>2, <2>3
  <1>6. Placed'
    BY <1>2, <1>4 DEF Collect, Placed
  <1> QED BY <1>1, <1>3, <1>5, <1>6 DEF Typed, Collect, worldVars, windowVars

LEMMA WorldKept ==
  ASSUME Typed, UNCHANGED worldVars
  PROVE  TreeOK' /\ opts' \in Options /\ changes' \in Nat /\ DOMAIN tree' = DOMAIN tree
  BY DEF Typed, TreeOK, worldVars

LEMMA HeadOfTodo ==
  ASSUME Typed, todo # <<>>
  PROVE  /\ Head(todo).what \in {"row", "deco"} /\ Tail(todo) \in Seq(Item)
         /\ Head(todo).what = "row" => Head(todo).row \in Row
         /\ Head(todo).what = "deco" => Head(todo).row \in Deco
  <1>1. todo \in Seq(Item)
    BY DEF Typed
  <1>2. Head(todo) \in Item /\ Tail(todo) \in Seq(Item)
    BY <1>1
  <1> QED BY <1>2 DEF Item

(* Grep is a client of the writer.                                         *)
LEMMA GrepIsClient ==
  ASSUME Typed, [GrepNext]_grepVars
  PROVE  [WriterNext]_writerAll
  <1>1. CASE \/ Collect \/ SkipFile \/ SearchFails \/ SearchHits \/ ShowLine \/ NextMatch
             \/ SourceEmitted \/ BrokenPipe \/ Done
    BY <1>1 DEF Collect, SkipFile, SearchFails, SearchHits, ShowLine, NextMatch, SourceEmitted,
                BrokenPipe, Done, grepVars
  <1>2. ASSUME NEW p, NEW content, Change(p, content) PROVE UNCHANGED writerAll
    BY <1>2 DEF Change
  <1>3. CASE EmitDecoration
    BY <1>3, HeadOfTodo DEF EmitDecoration, Emitting, WriterNext
  <1>4. CASE EmitRow \/ RowRefused
    BY <1>4, HeadOfTodo DEF EmitRow, RowRefused, Emitting, WriterNext
  <1>5. CASE Finish
    <2>1. RowOf("total", Stdin, total) \in Row
      BY DEF Typed, TreeOK, Printable
    <2> QED BY <1>5, <2>1 DEF Finish, WriterNext
  <1>6. CASE Leave
    BY <1>6 DEF Leave, WriterNext
  <1>7. CASE UNCHANGED grepVars
    BY <1>7 DEF grepVars
  <1> QED BY <1>1, <1>2, <1>3, <1>4, <1>5, <1>6, <1>7 DEF GrepNext

LEMMA WriterKept ==
  ASSUME Typed, [GrepNext]_grepVars
  PROVE  WriterTypeOK'
  BY GrepIsClient, WriterTypeStep DEF Typed

(* The file the search is at, and what it holds.                           *)
LEMMA ContentHere ==
  ASSUME Typed, Searching
  PROVE  /\ files[at] \in DOMAIN tree /\ at \in Nat \ {0} /\ at + 1 \in 1 .. Len(files) + 1
         /\ Short(Content) /\ Printable(files[at]) /\ Content.lines \in Seq(BOOLEAN)
         /\ Len(searched) = at - 1 /\ todo = <<>>
  <1>1. files \in Seq(DOMAIN tree) /\ at \in 1 .. Len(files) /\ Len(files) \in Nat
    BY DEF Typed, Searching
  <1>2. files[at] \in DOMAIN tree
    BY <1>1
  <1>3. Short(Content) /\ Printable(files[at])
    BY <1>2 DEF Typed, TreeOK, Content
  <1>4. Len(searched) = at - 1 /\ todo = <<>>
    BY DEF Typed, Placed, Searching
  <1> QED BY <1>1, <1>2, <1>3, <1>4, ContentTyped DEF Short

LEMMA SearchedGrows ==
  ASSUME Typed, Searching, searched' = Append(searched, Content)
  PROVE  /\ searched' \in Seq(ContentType) /\ Len(searched') = at
         /\ DOMAIN searched = 1 .. at - 1 /\ DOMAIN searched' = 1 .. at
         /\ \A k \in 1 .. at - 1 : searched'[k] = searched[k]
         /\ searched'[at] = Content
         /\ \A k \in DOMAIN searched' : Short(searched'[k])
  <1>1. searched \in Seq(ContentType) /\ Content \in ContentType /\ Len(searched) = at - 1
        /\ at \in Nat \ {0} /\ \A k \in DOMAIN searched : Short(searched[k])
    BY ContentHere DEF Typed, Short
  <1>2. /\ searched' \in Seq(ContentType) /\ Len(searched') = at
        /\ DOMAIN searched = 1 .. at - 1 /\ DOMAIN searched' = 1 .. at
        /\ \A k \in 1 .. at - 1 : searched'[k] = searched[k]
        /\ searched'[at] = Content
    BY <1>1
  <1>3. \A k \in 1 .. at : k \in 1 .. at - 1 \/ k = at
    BY <1>1
  <1> QED BY <1>1, <1>2, <1>3, ContentHere

LEMMA SkipTypes ==
  ASSUME Typed, SkipFile, WriterTypeOK'
  PROVE  Typed'
  <1>1. /\ pc = "search" /\ at' = at + 1 /\ UNCHANGED worldVars
        /\ pc' = pc /\ files' = files /\ todo' = todo /\ outcome' = outcome
        /\ left' = left /\ shown' = shown /\ last_shown' = last_shown
        /\ any_match' = any_match /\ first_file' = first_file /\ total' = total
        /\ searched' = Append(searched, Content) /\ Searching
    BY DEF SkipFile, Searching, windowVars
  <1>2. at' \in 1 .. Len(files') + 1 /\ at' - 1 = at /\ todo' = <<>>
    BY <1>1, ContentHere
  <1>3. Placed'
    BY <1>1, <1>2, SearchedGrows DEF Placed
  <1> QED BY <1>1, <1>2, <1>3, WorldKept, SearchedGrows DEF Typed

LEMMA ReturnTypes ==
  ASSUME Typed, NEW result \in {"Found", "NotFound", "error", "brokenpipe"}, Return(result), WriterTypeOK'
  PROVE  Typed'
  <1>1. /\ pc' = "done" /\ outcome' = result /\ UNCHANGED worldVars
        /\ files' = files /\ todo' = todo /\ searched' = searched /\ at' = at
        /\ left' = left /\ shown' = shown /\ last_shown' = last_shown
        /\ any_match' = any_match /\ first_file' = first_file /\ total' = total
    BY DEF Return, windowVars
  <1>2. Len(searched) <= Len(files)
    <2>1. at \in 1 .. Len(files) + 1 /\ Len(files) \in Nat
      BY DEF Typed
    <2> QED BY <2>1 DEF Typed, Placed
  <1>3. Placed'
    BY <1>1, <1>2 DEF Placed
  <1> QED BY <1>1, <1>3, WorldKept DEF Typed

LEMMA ItemsTyped ==
  ASSUME NEW p, Printable(p)
  PROVE  /\ \A kind \in {"match", "context", "path", "count", "total"}, n \in 0 .. MaxNumber :
              RowItem(kind, p, n) \in Item
         /\ \A kind \in {"blank", "heading", "sep"} : DecoItem(kind, p) \in Item
  BY DEF Printable, RowItem, DecoItem, Item

LEMMA HeadingsTyped ==
  ASSUME NEW p, Printable(p)
  PROVE  Headings(p) \in Seq(Item)
  <1>1. DecoItem("blank", p) \in Item /\ DecoItem("heading", p) \in Item
    BY ItemsTyped
  <1>2. <<>> \in Seq(Item) /\ <<DecoItem("blank", p)>> \in Seq(Item) /\ <<DecoItem("heading", p)>> \in Seq(Item)
    BY <1>1
  <1> QED BY <1>2 DEF Headings

LEMMA HitsTypes ==
  ASSUME Typed, SearchHits, WriterTypeOK'
  PROVE  Typed'
  <1> DEFINE src == files[at]
             found == Cardinality(Selected(Content.lines))
  <1>1. /\ pc = "search" /\ Searching /\ UNCHANGED worldVars
        /\ files' = files /\ outcome' = outcome /\ any_match' = TRUE /\ first_file' = first_file
        /\ total + found <= MaxNumber /\ total' = total + found
        /\ searched' = Append(searched, Content)
    BY DEF SearchHits, Searching, Total
  <1>2. /\ Selected(Content.lines) \subseteq 1 .. Len(Content.lines) /\ IsFiniteSet(Selected(Content.lines))
        /\ Selected(Content.lines) \subseteq Nat
        /\ found \in 0 .. Len(Content.lines) /\ Selected(Content.lines) # {}
    BY <1>1, ContentHere, SelectedLines DEF SearchHits, Hits
  <1>3. Len(Content.lines) \in Nat /\ Len(Content.lines) <= MaxNumber /\ MaxNumber \in Nat
    BY <1>1, ContentHere, GrepAssumption DEF Short
  <1>4. found \in 0 .. MaxNumber
    BY <1>2, <1>3
  <1> HIDE DEF found
  <1>5. total' \in 0 .. MaxNumber
    BY <1>1, <1>3, <1>4 DEF Typed
  <1>6. /\ at \in 1 .. Len(files) /\ Len(files) \in Nat
    BY <1>1, ContentHere DEF Searching
  <1>7. CASE opts.mode = "total"
    <2>1. at' = at + 1 /\ pc' = pc /\ todo' = todo /\ UNCHANGED windowVars
      BY <1>7 DEF SearchHits
    <2>2. at' \in 1 .. Len(files') + 1 /\ at' - 1 = at /\ todo' = <<>>
      BY <1>1, <2>1, ContentHere
    <2>3. Placed'
      BY <1>1, <2>1, <2>2, SearchedGrows DEF Placed
    <2> QED BY <1>1, <1>5, <2>1, <2>2, <2>3, WorldKept, SearchedGrows DEF Typed, windowVars
  <1>8. CASE opts.mode \in {"files", "count"}
    <2>1. /\ pc' = "emit" /\ at' = at /\ UNCHANGED windowVars
          /\ todo' = <<IF opts.mode = "files" THEN RowItem("path", src, 0) ELSE RowItem("count", src, found)>>
      BY <1>8 DEF SearchHits, found
    <2>2. todo' \in Seq(Item)
      <3>1. RowItem("path", src, 0) \in Item /\ RowItem("count", src, found) \in Item
        BY <1>1, <1>3, <1>4, ContentHere, ItemsTyped
      <3> QED BY <2>1, <3>1
    <2>3. Placed'
      BY <1>1, <1>6, <1>8, <2>1, SearchedGrows DEF Placed, worldVars
    <2> QED BY <1>1, <1>5, <1>6, <2>1, <2>2, <2>3, WorldKept, SearchedGrows DEF Typed, windowVars
  <1>9. CASE opts.mode = "rows"
    <2>1. /\ pc' = "show" /\ at' = at /\ todo' = Headings(src)
          /\ left' = Ascending(Selected(Content.lines)) /\ shown' = {} /\ last_shown' = 0
      BY <1>9 DEF SearchHits
    <2>2. todo' \in Seq(Item)
      BY <1>1, <2>1, ContentHere, HeadingsTyped
    <2>3. left' \in Seq(Selected(Content.lines)) /\ Len(left') = found /\ found # 0
      BY <1>2, <2>1, AscendingIsSorted, FS_EmptySet DEF found
    <2>4. left' \in Seq(1 .. Len(Content.lines)) /\ left' \in Seq(Nat) /\ left' # <<>>
      BY <1>2, <1>4, <2>3
    <2>5. searched'[at'].lines = Content.lines
      BY <1>1, <2>1, SearchedGrows
    <2>6. Placed'
      BY <1>1, <1>6, <1>9, <2>1, <2>4, <2>5, SearchedGrows DEF Placed, worldVars
    <2> QED BY <1>1, <1>5, <1>6, <2>1, <2>2, <2>4, <2>6, WorldKept, SearchedGrows DEF Typed
  <1> QED BY <1>7, <1>8, <1>9, OptionsTyped DEF Typed

(* The line the windows are at.                                            *)
LEMMA LinesHere ==
  ASSUME Typed, pc \in {"show", "emit"}
  PROVE  /\ at \in DOMAIN searched /\ files[at] \in DOMAIN tree /\ Printable(files[at]) /\ at \in Nat \ {0}
         /\ searched[at].lines \in Seq(BOOLEAN) /\ Len(searched[at].lines) \in Nat
         /\ \A n \in 1 .. Len(searched[at].lines) : n \in 0 .. MaxNumber
  <1>1. at \in 1 .. Len(searched) /\ at \in 1 .. Len(files) /\ files \in Seq(DOMAIN tree)
        /\ searched \in Seq(ContentType)
    BY DEF Typed, Placed
  <1>2. Short(searched[at]) /\ files[at] \in DOMAIN tree /\ at \in DOMAIN searched /\ at \in Nat \ {0}
    BY <1>1 DEF Typed
  <1>3. Printable(files[at])
    BY <1>2 DEF Typed, TreeOK
  <1> QED BY <1>2, <1>3, ContentTyped, GrepAssumption DEF Short

LEMMA HeadOfLeft ==
  ASSUME Typed, pc = "show"
  PROVE  /\ Head(left) \in 1 .. Len(searched[at].lines) /\ left # <<>>
         /\ Tail(left) \in Seq(1 .. Len(searched[at].lines)) /\ Tail(left) \in Seq(Nat)
  <1>1. left # <<>> /\ left \in Seq(1 .. Len(searched[at].lines))
    BY DEF Typed, Placed
  <1>2. \A n \in 1 .. Len(searched[at].lines) : n \in Nat
    BY LinesHere
  <1>3. Tail(left) \in Seq(1 .. Len(searched[at].lines)) /\ Head(left) \in 1 .. Len(searched[at].lines)
    BY <1>1
  <1> QED BY <1>1, <1>2, <1>3

LEMMA FreshLines ==
  ASSUME Typed, pc = "show"
  PROVE  FreshNow = (ctx_start(Head(left)) .. ctx_end(searched[at].lines, Head(left))) \ shown
         /\ FreshNow \subseteq 1 .. Len(searched[at].lines)
  <1>1. /\ ctx_start(Head(left)) \in 1 .. Head(left) /\ Head(left) \in 1 .. Len(searched[at].lines)
        /\ ctx_end(searched[at].lines, Head(left)) \in Head(left) .. Len(searched[at].lines)
        /\ Len(searched[at].lines) \in Nat
    BY LinesHere, HeadOfLeft, WindowIsReach DEF Typed
  <1> QED BY <1>1 DEF FreshNow, Fresh

LEMMA ShowTypes ==
  ASSUME Typed, ShowLine, WriterTypeOK'
  PROVE  Typed'
  <1>1. /\ pc = "show" /\ UNCHANGED worldVars /\ pc' = pc /\ files' = files /\ at' = at /\ left' = left
        /\ any_match' = any_match /\ first_file' = first_file /\ total' = total
        /\ outcome' = outcome /\ searched' = searched
    BY DEF ShowLine
  <1> DEFINE sep == IF Gap(Head(left)) THEN <<DecoItem("sep", files[at])>> ELSE <<>>
             row(i) == RowItem(IF i = Head(left) THEN "match" ELSE "context", files[at], i)
  <1>2. PICK i \in FreshNow : todo' = todo \o sep \o <<row(i)>> /\ shown' = shown \cup {i} /\ last_shown' = i
    BY DEF ShowLine
  <1>3. i \in 0 .. MaxNumber /\ i \in Nat
    BY <1>1, FreshLines, LinesHere
  <1>4. sep \in Seq(Item) /\ row(i) \in Item
    <2>1. DecoItem("sep", files[at]) \in Item
      BY <1>1, LinesHere, ItemsTyped
    <2>2. row(i) \in Item
      BY <1>1, <1>3, LinesHere, ItemsTyped
    <2> QED BY <2>1, <2>2
  <1> HIDE DEF sep, row
  <1>5. todo' \in Seq(Item)
    <2>1. todo \in Seq(Item)
      BY DEF Typed
    <2> QED BY <1>2, <1>4, <2>1
  <1>6. Placed'
    BY <1>1 DEF Placed, Typed, worldVars
  <1> QED BY <1>1, <1>2, <1>3, <1>5, <1>6, WorldKept DEF Typed

LEMMA NextTypes ==
  ASSUME Typed, NextMatch, WriterTypeOK'
  PROVE  Typed'
  <1>1. /\ pc = "show" /\ UNCHANGED worldVars /\ pc' = (IF left' = <<>> THEN "emit" ELSE "show")
        /\ files' = files /\ at' = at /\ left' = Tail(left) /\ shown' = shown /\ last_shown' = last_shown
        /\ todo' = todo
        /\ any_match' = any_match /\ first_file' = first_file /\ total' = total
        /\ outcome' = outcome /\ searched' = searched
    BY DEF NextMatch
  <1>2. Placed'
    BY <1>1, HeadOfLeft DEF Placed, Typed, worldVars
  <1> QED BY <1>1, <1>2, WorldKept, HeadOfLeft DEF Typed

LEMMA EmitTypes ==
  ASSUME Typed, EmitDecoration \/ EmitRow, WriterTypeOK'
  PROVE  Typed'
  <1>1. /\ pc = "emit" /\ todo # <<>> /\ todo' = Tail(todo) /\ UNCHANGED worldVars /\ UNCHANGED windowVars
        /\ pc' = pc /\ files' = files /\ at' = at /\ any_match' = any_match /\ first_file' = first_file
        /\ total' = total /\ outcome' = outcome /\ searched' = searched
    BY DEF EmitDecoration, EmitRow, Emitting
  <1>2. Placed'
    BY <1>1 DEF Placed, Typed, worldVars
  <1> QED BY <1>1, <1>2, WorldKept, HeadOfTodo DEF Typed, windowVars

LEMMA PassTypes ==
  ASSUME Typed, pc = "emit", at' = at + 1, todo' = <<>>, pc' = "search", first_file' \in BOOLEAN,
         UNCHANGED <<worldVars, files, windowVars, any_match, total, outcome, searched>>, WriterTypeOK'
  PROVE  Typed'
  <1>1. at \in 1 .. Len(files) /\ Len(files) \in Nat /\ Len(searched) = at
    BY DEF Typed, Placed
  <1>2. at' \in 1 .. Len(files) + 1 /\ at' - 1 = at /\ todo' \in Seq(Item)
    BY <1>1
  <1>3. Placed'
    BY <1>1, <1>2 DEF Placed
  <1> QED BY <1>2, <1>3, WorldKept DEF Typed, windowVars

LEMMA RefusedTypes ==
  ASSUME Typed, RowRefused, WriterTypeOK'
  PROVE  Typed'
  <1>1. CASE files[at] = Stdin
    BY <1>1, PassTypes DEF RowRefused, Emitting, Typed
  <1>2. CASE files[at] # Stdin
    BY <1>2, ReturnTypes DEF RowRefused
  <1> QED BY <1>1, <1>2

LEMMA ChangeTypes ==
  ASSUME Typed, NEW p \in DOMAIN tree \ {Stdin}, NEW content \in Contents, Change(p, content), WriterTypeOK'
  PROVE  Typed'
  <1>1. /\ tree' = [tree EXCEPT ![p].content = content] /\ changes' = changes + 1 /\ opts' = opts
        /\ UNCHANGED runVars
    BY DEF Change
  <1>2. content \in ContentType /\ Short(content)
    BY GrepAssumption DEF Short
  <1>3. tree \in [DOMAIN tree -> FileType] /\ tree[p] \in FileType
    BY DEF Typed, TreeOK
  <1>4. [tree[p] EXCEPT !.content = content] \in FileType
        /\ [tree[p] EXCEPT !.content = content].content = content
    BY <1>2, <1>3 DEF FileType
  <1>5. tree' \in [DOMAIN tree -> FileType] /\ DOMAIN tree' = DOMAIN tree
        /\ \A q \in DOMAIN tree : tree'[q] = IF q = p THEN [tree[p] EXCEPT !.content = content] ELSE tree[q]
    BY <1>1, <1>3, <1>4
  <1>6. TreeOK'
    BY <1>2, <1>4, <1>5 DEF Typed, TreeOK
  <1>7. Placed'
    BY <1>1 DEF Typed, Placed, runVars, windowVars
  <1> QED BY <1>1, <1>5, <1>6, <1>7 DEF Typed, runVars, windowVars

LEMMA StaysTypes ==
  ASSUME Typed, UNCHANGED <<worldVars, runVars>>, WriterTypeOK'
  PROVE  Typed'
  <1>1. Placed'
    BY DEF Typed, Placed, runVars, windowVars, worldVars
  <1> QED BY <1>1, WorldKept DEF Typed, runVars, windowVars

LEMMA TypesKept ==
  ASSUME Typed, [GrepNext]_grepVars
  PROVE  Typed'
  <1>1. WriterTypeOK'
    BY WriterKept
  <1>2. CASE SearchFails \/ Finish \/ BrokenPipe
    <2>1. Verdict \in {"Found", "NotFound"}
      BY DEF Verdict
    <2> QED BY <1>1, <1>2, <2>1, ReturnTypes DEF SearchFails, Finish, BrokenPipe
  <1>3. CASE SourceEmitted
    BY <1>1, <1>3, PassTypes DEF SourceEmitted, Typed
  <1>4. CASE Leave \/ Done \/ UNCHANGED grepVars
    BY <1>1, <1>4, StaysTypes DEF Leave, Done, grepVars
  <1> QED BY <1>1, <1>2, <1>3, <1>4, CollectTypes, SkipTypes, HitsTypes, ShowTypes, NextTypes, EmitTypes,
             RefusedTypes, ChangeTypes DEF GrepNext

(* The search is always where its state says: the files read are those     *)
(* before the one it is at, all it has left to print is something the      *)
(* writer takes, and it ends exactly when it has an outcome                *)
(* (src/fs/grep.rs, run and search_reader_lines).                          *)
THEOREM GrepTyped == GrepSpec => []Typed
  BY GrepStarts, TypesKept, PTL DEF GrepSpec

(* Whatever grep searches, it is a client of the writer: every row and     *)
(* decoration of it is one the writer takes, so all that is proved of      *)
(* WriterSpec holds of what grep prints (src/fs/grep.rs, emit_result).     *)
THEOREM GrepIsWriterClient == GrepSpec => UsesWriter
  <1>1. GrepInit => WriterInit
    BY DEF GrepInit
  <1> QED BY <1>1, GrepTyped, GrepIsClient, PTL DEF GrepSpec, UsesWriter

(* So grep prints the first of its rows, each once and in order, and says  *)
(* so when a default limit withholds some.                                 *)
THEOREM GrepPrintsAPrefix == GrepSpec => [](RowsArePrefix /\ CutIsAnnounced)
  <1>1. UsesWriter => WriterSpec
    BY DEF UsesWriter, WriterSpec
  <1> QED BY <1>1, GrepIsWriterClient, PrintsAPrefix, CutsAreAnnounced, PTL

-----------------------------------------------------------------------------
(* What the search answers.                                                *)

(* The matches of what was searched, each with the place of its file.      *)
Pairs == UNION {{k} \X Matching(k) : k \in DOMAIN searched}

Readable == \A k \in DOMAIN searched : searched[k].kind \in {"text", "binary"}

AnswerInv ==
  /\ any_match <=> \E k \in DOMAIN searched : Matching(k) # {}
  /\ IsFiniteSet(Pairs) /\ total = Cardinality(Pairs)
  /\ pc \in {"show", "emit"} => any_match
  /\ opts.mode = "total" => limit = NoLimit /\ (pc # "done" => offered = <<>> /\ lines_written = 0)
  /\ Readable
  /\ AnswerIsRight

LEMMA MatchingKept ==
  ASSUME UNCHANGED <<opts, searched>>
  PROVE  Pairs' = Pairs /\ DOMAIN searched' = DOMAIN searched /\ \A k : Matching(k)' = Matching(k)
  BY DEF Pairs, Matching, Selected

LEMMA PairsGrow ==
  ASSUME Typed, AnswerInv, Searching, opts' = opts, searched' = Append(searched, Content)
  PROVE  /\ IsFiniteSet(Pairs') /\ Cardinality(Pairs') = total + Cardinality(Selected(Content.lines))
         /\ (\E k \in DOMAIN searched' : Matching(k)' # {})
              <=> any_match \/ Selected(Content.lines) # {}
  <1> DEFINE new == Selected(Content.lines)
  <1>1. /\ DOMAIN searched = 1 .. at - 1 /\ DOMAIN searched' = 1 .. at /\ at \in Nat \ {0}
        /\ \A k \in 1 .. at - 1 : searched'[k] = searched[k]
        /\ searched'[at] = Content
    BY SearchedGrows, ContentHere
  <1>2. /\ \A k \in 1 .. at - 1 : Matching(k)' = Matching(k)
        /\ \A k : k = at => Matching(k)' = new
    <2>1. \A s : Selected(s)' = Selected(s)
      BY DEF Selected
    <2>2. \A k \in 1 .. at - 1 : Matching(k)' = Matching(k)
      BY <1>1, <2>1 DEF Matching
    <2>3. \A k : k = at => Matching(k)' = Selected(searched'[k].lines)
      BY <2>1 DEF Matching
    <2> QED BY <1>1, <2>2, <2>3
  <1>3. IsFiniteSet(new) /\ Cardinality(new) \in Nat
    BY ContentHere, SelectedLines
  <1> HIDE DEF new
  <1>4. \A k \in 1 .. at : k \in 1 .. at - 1 \/ k = at
    BY <1>1
  <1>5. at \in 1 .. at /\ at \notin 1 .. at - 1 /\ \A k \in 1 .. at - 1 : k \in 1 .. at
    BY <1>1
  <1>6. Pairs' = Pairs \cup ({at} \X new)
    <2>1. Pairs' = UNION {{k} \X Matching(k)' : k \in 1 .. at}
      BY <1>1 DEF Pairs
    <2>2. Pairs = UNION {{k} \X Matching(k) : k \in 1 .. at - 1}
      BY <1>1 DEF Pairs
    <2>3. ASSUME NEW x \in Pairs' PROVE x \in Pairs \cup ({at} \X new)
      <3>1. PICK k \in 1 .. at : x \in {k} \X Matching(k)'
        BY <2>1
      <3>2. CASE k \in 1 .. at - 1
        <4>1. x \in {k} \X Matching(k)
          BY <1>2, <3>1, <3>2
        <4> QED BY <2>2, <3>2, <4>1
      <3>3. CASE k = at
        BY <1>2, <3>1, <3>3
      <3> QED BY <1>4, <3>2, <3>3
    <2>4. ASSUME NEW x \in Pairs PROVE x \in Pairs'
      <3>1. PICK k \in 1 .. at - 1 : x \in {k} \X Matching(k)
        BY <2>2
      <3> QED BY <1>2, <1>5, <2>1, <3>1
    <2>5. ASSUME NEW x \in {at} \X new PROVE x \in Pairs'
      <3>1. \A k : k = at => x \in {k} \X Matching(k)'
        BY <1>2
      <3>2. \E k \in 1 .. at : x \in {k} \X Matching(k)'
        BY <1>5, <3>1
      <3> QED BY <2>1, <3>2
    <2> QED BY <2>3, <2>4, <2>5
  <1>7. Pairs \cap ({at} \X new) = {}
    <2>1. \A x \in Pairs : x[1] \in 1 .. at - 1
      BY <1>1 DEF Pairs
    <2>2. \A x \in {at} \X new : x[1] = at
      OBVIOUS
    <2> QED BY <1>5, <2>1, <2>2
  <1>8. IsFiniteSet({at} \X new) /\ Cardinality({at} \X new) = Cardinality(new)
    <2>1. IsFiniteSet({at}) /\ Cardinality({at}) = 1
      BY FS_Singleton
    <2>2. IsFiniteSet({at} \X new) /\ Cardinality({at} \X new) = 1 * Cardinality(new)
      BY <1>3, <2>1, FS_Product
    <2> QED BY <1>3, <2>2
  <1>9. IsFiniteSet(Pairs) /\ Cardinality(Pairs) = total /\ total \in Nat
    BY DEF AnswerInv, Typed
  <1>10. IsFiniteSet(Pairs') /\ Cardinality(Pairs') = total + Cardinality(new)
    <2> DEFINE more == {at} \X new
    <2>1. IsFiniteSet(more) /\ Pairs \cap more = {} /\ Cardinality({}) = 0
      BY <1>7, <1>8, FS_EmptySet
    <2> HIDE DEF more
    <2>2. /\ IsFiniteSet(Pairs \cup more)
          /\ Cardinality(Pairs \cup more) = Cardinality(Pairs) + Cardinality(more) - Cardinality(Pairs \cap more)
      BY <1>9, <2>1, FS_Union
    <2>3. Pairs' = Pairs \cup more /\ Cardinality(more) = Cardinality(new)
      BY <1>6, <1>8 DEF more
    <2>4. Cardinality(Pairs \cap more) = 0
      BY <2>1
    <2> QED BY <1>3, <1>9, <2>2, <2>3, <2>4
  <1>11. (\E k \in 1 .. at - 1 : Matching(k) # {}) <=> any_match
    BY <1>1 DEF AnswerInv
  <1>12. (\E k \in 1 .. at : Matching(k)' # {}) <=> any_match \/ new # {}
    <2>1. ASSUME NEW k \in 1 .. at, Matching(k)' # {} PROVE any_match \/ new # {}
      BY <1>2, <1>4, <1>11, <2>1
    <2>2. ASSUME any_match PROVE \E k \in 1 .. at : Matching(k)' # {}
      BY <1>2, <1>5, <1>11, <2>2
    <2>3. ASSUME new # {} PROVE \E k \in 1 .. at : Matching(k)' # {}
      BY <1>2, <1>5, <2>3
    <2> QED BY <2>1, <2>2, <2>3
  <1> QED BY <1>1, <1>10, <1>12 DEF new

LEMMA AnswerStarts == GrepInit => AnswerInv
  <1> SUFFICES ASSUME GrepInit PROVE AnswerInv
    OBVIOUS
  <1>1. /\ searched = <<>> /\ DOMAIN searched = {} /\ any_match = FALSE /\ total = 0 /\ pc = "collect"
        /\ outcome = "running" /\ offered = <<>> /\ lines_written = 0
        /\ (opts.mode = "total" => limit = NoLimit)
    BY DEF GrepInit, WriterInit
  <1>2. Pairs = {}
    BY <1>1 DEF Pairs
  <1>3. IsFiniteSet(Pairs) /\ Cardinality(Pairs) = 0
    BY <1>2, FS_EmptySet
  <1>4. AnswerIsRight
    BY <1>1 DEF AnswerIsRight
  <1>5. Readable
    BY <1>1 DEF Readable
  <1> QED BY <1>1, <1>3, <1>4, <1>5 DEF AnswerInv

(* A step that searches nothing and does not end the command.              *)
LEMMA AnswerKept ==
  ASSUME Typed, AnswerInv, UNCHANGED <<opts, searched, any_match, total, outcome, limit>>,
         outcome = "running", pc' \in {"show", "emit"} => pc \in {"show", "emit"},
         opts.mode = "total" => offered' = offered /\ lines_written' = lines_written
  PROVE  AnswerInv'
  <1>1. pc # "done"
    BY DEF Typed
  <1>2. Pairs' = Pairs /\ DOMAIN searched' = DOMAIN searched /\ \A k : Matching(k)' = Matching(k)
    BY MatchingKept
  <1>3. AnswerIsRight'
    BY DEF AnswerIsRight
  <1>4. any_match' <=> \E k \in DOMAIN searched' : Matching(k)' # {}
    BY <1>2 DEF AnswerInv
  <1>5. opts'.mode = "total" => limit' = NoLimit /\ (pc' # "done" => offered' = <<>> /\ lines_written' = 0)
    BY <1>1 DEF AnswerInv
  <1>6. IsFiniteSet(Pairs') /\ total' = Cardinality(Pairs') /\ (pc' \in {"show", "emit"} => any_match')
    BY <1>2 DEF AnswerInv
  <1>7. Readable'
    BY DEF AnswerInv, Readable
  <1> HIDE DEF Pairs, Matching
  <1> QED BY <1>3, <1>4, <1>5, <1>6, <1>7 DEF AnswerInv

(* What was read from a skipped file selects nothing.                      *)
LEMMA SkippedIsEmpty ==
  ASSUME Typed, SkipFile
  PROVE  Selected(Content.lines) = {}
  <1>1. Content \in ContentType /\ Content.lines \in Seq(BOOLEAN)
    BY ContentHere DEF SkipFile, Short
  <1>2. CASE Content.kind = "text"
    BY <1>2 DEF SkipFile, Hits
  <1>3. CASE Content.kind # "text"
    <2>1. Len(Content.lines) = 0
      BY <1>1, <1>3, ContentTyped
    <2> QED BY <1>1, <2>1, SelectedLines
  <1> QED BY <1>2, <1>3

LEMMA AnswerSearched ==
  ASSUME Typed, AnswerInv, SkipFile \/ SearchHits
  PROVE  AnswerInv'
  <1>1. /\ Searching /\ pc = "search" /\ opts' = opts /\ outcome' = outcome
        /\ limit' = limit /\ offered' = offered /\ lines_written' = lines_written
        /\ searched' = Append(searched, Content)
    <2>1. CASE SkipFile
      BY <2>1 DEF SkipFile, Searching, worldVars, writerAll, writerVars
    <2>2. CASE SearchHits
      BY <2>2 DEF SearchHits, Searching, worldVars, writerAll, writerVars
    <2> QED BY <2>1, <2>2
  <1> DEFINE new == Selected(Content.lines)
  <1>2. /\ IsFiniteSet(Pairs') /\ Cardinality(Pairs') = total + Cardinality(new)
        /\ (\E k \in DOMAIN searched' : Matching(k)' # {}) <=> any_match \/ new # {}
    BY <1>1, PairsGrow
  <1>3. Readable'
    <2>1. Content.kind \in {"text", "binary"}
      BY DEF SkipFile, SearchHits, Hits
    <2>2. \A k \in 1 .. at : k \in 1 .. at - 1 \/ k = at
      BY <1>1, ContentHere
    <2> QED BY <1>1, <2>1, <2>2, SearchedGrows DEF AnswerInv, Readable
  <1>4. CASE SkipFile
    <2>1. new = {}
      BY <1>4, SkippedIsEmpty
    <2>2. Cardinality(new) = 0 /\ total \in Nat /\ total' = total /\ any_match' = any_match /\ pc' = pc
      BY <1>4, <2>1, FS_EmptySet DEF SkipFile, Typed
    <2> HIDE DEF new
    <2>3. any_match' <=> \E k \in DOMAIN searched' : Matching(k)' # {}
      BY <1>2, <2>1, <2>2
    <2>4. IsFiniteSet(Pairs') /\ total' = Cardinality(Pairs')
      BY <1>2, <2>2
    <2>5. AnswerIsRight'
      BY <1>1 DEF AnswerIsRight, Typed
    <2> HIDE DEF Pairs, Matching
    <2> QED BY <1>1, <1>3, <2>2, <2>3, <2>4, <2>5 DEF AnswerInv
  <1>5. CASE SearchHits
    <2>1. new # {} /\ any_match' = TRUE /\ total' = total + Cardinality(new)
          /\ (pc' = "search" \/ pc' \in {"show", "emit"})
      BY <1>5 DEF SearchHits, Hits, Total, Searching
    <2> HIDE DEF new
    <2>2. any_match' <=> \E k \in DOMAIN searched' : Matching(k)' # {}
      BY <1>2, <2>1
    <2>3. IsFiniteSet(Pairs') /\ total' = Cardinality(Pairs')
      BY <1>2, <2>1
    <2>4. AnswerIsRight'
      BY <1>1 DEF AnswerIsRight, Typed
    <2> HIDE DEF Pairs, Matching
    <2> QED BY <1>1, <1>3, <2>1, <2>2, <2>3, <2>4 DEF AnswerInv
  <1> QED BY <1>4, <1>5

LEMMA AnswerReturned ==
  ASSUME Typed, AnswerInv, NEW result, Return(result), pc # "done", limit' = limit,
         result = "Found" => any_match,
         result = "NotFound" => ~any_match /\ Len(searched) = Len(files),
         opts.mode = "total" /\ result \in {"Found", "NotFound"} =>
           Len(offered') = 1 /\ lines_written' = 1 /\ offered'[1].num = total,
         result = "Found" => Len(searched) = Len(files) \/ truncated',
         result = "error" => Searching /\ Content.kind \in {"gone", "invalid"},
         result = "brokenpipe" => ~reader'
  PROVE  AnswerInv'
  <1>1. /\ opts' = opts /\ searched' = searched /\ any_match' = any_match /\ total' = total
        /\ files' = files /\ pc' = "done" /\ outcome' = result
    BY DEF Return, worldVars
  <1>2. Pairs' = Pairs /\ DOMAIN searched' = DOMAIN searched /\ \A k : Matching(k)' = Matching(k)
    BY <1>1, MatchingKept
  <1>3. any_match' <=> \E k \in DOMAIN searched' : Matching(k)' # {}
    BY <1>1, <1>2 DEF AnswerInv
  <1>4. IsFiniteSet(Pairs') /\ total' = Cardinality(Pairs')
    BY <1>1, <1>2 DEF AnswerInv
  <1>5. Readable'
    BY <1>1 DEF AnswerInv, Readable
  <1>6. at' = at /\ Content' = Content
    BY DEF Return, worldVars, Content
  <1>7. AnswerIsRight'
    <2>1. outcome' = "Found" => \E k \in DOMAIN searched' : Matching(k)' # {}
      BY <1>1, <1>3
    <2>2. outcome' = "NotFound" => /\ \A k \in DOMAIN searched' : Matching(k)' = {}
                                  /\ Len(searched') = Len(files')
      BY <1>1, <1>3
    <2>3. opts'.mode = "total" /\ outcome' \in {"Found", "NotFound"} =>
            /\ Len(offered') = 1 /\ lines_written' = 1 /\ offered'[1].num = Cardinality(Pairs')
      BY <1>1, <1>4
    <2>4. outcome' \in {"Found", "NotFound"} => /\ Len(searched') = Len(files') \/ truncated'
                                               /\ Readable'
      BY <1>1, <1>5
    <2>5. outcome' = "error" => /\ at' \in DOMAIN files' /\ Len(searched') = at' - 1
                                /\ Content'.kind \in {"gone", "invalid"}
      <3> SUFFICES ASSUME result = "error" PROVE /\ at \in DOMAIN files /\ Len(searched) = at - 1
                                                 /\ Content.kind \in {"gone", "invalid"}
        BY <1>1, <1>6
      <3>1. files \in Seq(DOMAIN tree) /\ at \in 1 .. Len(files) + 1 /\ Len(files) \in Nat
        BY DEF Typed
      <3> QED BY <3>1, ContentHere DEF Searching
    <2>6. outcome' = "brokenpipe" => ~reader'
      BY <1>1
    <2> QED BY <2>1, <2>2, <2>3, <2>4, <2>5, <2>6 DEF AnswerIsRight, Pairs, Readable
  <1> HIDE DEF Pairs, Matching
  <1> QED BY <1>1, <1>3, <1>4, <1>5, <1>7 DEF AnswerInv

LEMMA AnswerFinished ==
  ASSUME Typed, AnswerInv, Finish
  PROVE  AnswerInv'
  <1>1. pc = "search" /\ at > Len(files) /\ Return(Verdict)
    BY DEF Finish
  <1>2. limit' = limit
    BY DEF Finish, WriteLine, writerAll, writerVars
  <1>3. Verdict = "Found" => any_match
    BY DEF Verdict
  <1>4. Len(searched) = Len(files) /\ (Verdict = "NotFound" => ~any_match)
    <2>1. Len(files) \in Nat /\ at \in 1 .. Len(files) + 1 /\ Len(searched) = at - 1
      BY <1>1 DEF Typed, Placed
    <2> QED BY <1>1, <2>1 DEF Verdict
  <1>5. opts.mode = "total" => Len(offered') = 1 /\ lines_written' = 1 /\ offered'[1].num = total
    <2> SUFFICES ASSUME opts.mode = "total"
                 PROVE  Len(offered') = 1 /\ lines_written' = 1 /\ offered'[1].num = total
      OBVIOUS
    <2>1. offered = <<>> /\ lines_written = 0 /\ limit.kind = "none"
      BY <1>1 DEF AnswerInv, NoLimit
    <2>2. offered' = Append(offered, RowOf("total", Stdin, total)) /\ lines_written' = lines_written + 1
      BY <2>1 DEF Finish, WriteLine, AtLimit
    <2>3. offered' = <<RowOf("total", Stdin, total)>>
      BY <2>1, <2>2
    <2> QED BY <2>1, <2>2, <2>3 DEF RowOf
  <1>6. Verdict \in {"Found", "NotFound"}
    BY DEF Verdict
  <1> QED BY <1>1, <1>2, <1>3, <1>4, <1>5, <1>6, AnswerReturned

LEMMA AnswerStep ==
  ASSUME Typed, AnswerInv, [GrepNext]_grepVars
  PROVE  AnswerInv'
  <1>1. CASE Collect \/ ShowLine \/ NextMatch \/ SourceEmitted
    <2>1. /\ pc \in {"collect", "show", "emit"} /\ UNCHANGED <<opts, searched, any_match, total, outcome>>
          /\ UNCHANGED writerAll /\ (pc' \in {"show", "emit"} => pc \in {"show", "emit"})
      BY <1>1 DEF Collect, ShowLine, NextMatch, SourceEmitted, worldVars
    <2>2. outcome = "running"
      BY <2>1 DEF Typed
    <2> QED BY <2>1, <2>2, AnswerKept DEF writerAll, writerVars
  <1>2. CASE SearchFails \/ BrokenPipe
    <2>1. PICK result \in {"error", "brokenpipe"} : Return(result) /\ UNCHANGED writerAll /\ pc # "done"
      BY <1>2 DEF SearchFails, BrokenPipe, Searching, Emitting
    <2>2. /\ result = "error" => Searching /\ Content.kind \in {"gone", "invalid"}
          /\ result = "brokenpipe" => ~reader
      BY <1>2, <2>1 DEF SearchFails, BrokenPipe, LineFails, DecorationFails, Return
    <2> QED BY <2>1, <2>2, AnswerReturned DEF writerAll, writerVars
  <1>3. CASE EmitDecoration \/ EmitRow
    <2>1. /\ pc = "emit" /\ pc' = pc /\ UNCHANGED <<opts, searched, any_match, total, outcome>>
          /\ limit' = limit
      BY <1>3 DEF EmitDecoration, EmitRow, Emitting, worldVars, WriteDecoration, WriteLine
    <2>2. outcome = "running" /\ opts.mode # "total"
      BY <2>1 DEF Typed, Placed
    <2> QED BY <2>1, <2>2, AnswerKept
  <1>4. CASE RowRefused
    <2>1. pc = "emit" /\ limit' = limit
      BY <1>4 DEF RowRefused, Emitting, WriteLine
    <2>2. outcome = "running" /\ opts.mode # "total"
      BY <2>1 DEF Typed, Placed
    <2>3. CASE files[at] = Stdin
      <3>1. pc' = "search" /\ UNCHANGED <<opts, searched, any_match, total, outcome>>
        BY <1>4, <2>3 DEF RowRefused, worldVars
      <3> QED BY <2>1, <2>2, <3>1, AnswerKept
    <2>4. CASE files[at] # Stdin
      <3>1. Return("Found") /\ any_match /\ truncated'
        BY <1>4, <2>1, <2>4 DEF RowRefused, AnswerInv, WriteLine
      <3> QED BY <2>1, <2>2, <3>1, AnswerReturned
    <2> QED BY <2>3, <2>4
  <1>5. ASSUME NEW p, NEW content, Change(p, content) PROVE AnswerInv'
    <2>1. /\ pc # "done" /\ UNCHANGED runVars /\ opts' = opts /\ UNCHANGED writerAll
      BY <1>5 DEF Change
    <2>2. outcome = "running"
      BY <2>1 DEF Typed
    <2> QED BY <2>1, <2>2, AnswerKept DEF runVars, writerAll, writerVars
  <1>6. CASE Leave
    <2>1. pc # "done" /\ UNCHANGED runVars /\ opts' = opts /\ UNCHANGED writerVars
      BY <1>6 DEF Leave, CloseReader, worldVars
    <2>2. outcome = "running"
      BY <2>1 DEF Typed
    <2> QED BY <2>1, <2>2, AnswerKept DEF runVars, writerVars
  <1>7. CASE Done \/ UNCHANGED grepVars
    <2>1. UNCHANGED <<opts, searched, any_match, total, outcome, limit, offered, lines_written, pc, files,
                     tree, at, truncated, reader>>
      BY <1>7 DEF Done, grepVars, worldVars, runVars, writerAll, writerVars
    <2>2. Pairs' = Pairs /\ DOMAIN searched' = DOMAIN searched /\ \A k : Matching(k)' = Matching(k)
      BY <2>1, MatchingKept
    <2>3. AnswerIsRight' /\ Readable'
      BY <2>1, <2>2 DEF AnswerInv, AnswerIsRight, Readable, Pairs, Content
    <2>4. any_match' <=> \E k \in DOMAIN searched' : Matching(k)' # {}
      BY <2>1, <2>2 DEF AnswerInv
    <2>5. IsFiniteSet(Pairs') /\ total' = Cardinality(Pairs')
      BY <2>1, <2>2 DEF AnswerInv
    <2> HIDE DEF Pairs, Matching
    <2> QED BY <2>1, <2>3, <2>4, <2>5 DEF AnswerInv
  <1> QED BY <1>1, <1>2, <1>3, <1>4, <1>5, <1>6, <1>7, AnswerSearched, AnswerFinished DEF GrepNext

(* The exit code and --total answer for what was searched: found iff       *)
(* something matched, not found only after every file, and the total is    *)
(* the number of matches, whatever the files were by then and whatever the *)
(* limit.  Either comes only after every file was read or the limit cut    *)
(* the rest off; an error names a file that is gone or not UTF-8 at its    *)
(* turn, with all before it read (src/fs/grep.rs, run).                    *)
THEOREM AnswerHolds == GrepSpec => []AnswerIsRight
  <1>1. GrepInit => Typed /\ AnswerInv
    BY GrepStarts, AnswerStarts
  <1>2. Typed /\ AnswerInv /\ [GrepNext]_grepVars => Typed' /\ AnswerInv'
    BY TypesKept, AnswerStep
  <1>3. AnswerInv => AnswerIsRight
    BY DEF AnswerInv
  <1> QED BY <1>1, <1>2, <1>3, PTL DEF GrepSpec

-----------------------------------------------------------------------------
(* The rows of a search.                                                   *)

RowsLeft == {i \in DOMAIN todo : todo[i].what = "row"}
NumsLeft == {todo[i].row.num : i \in RowsLeft}

(* Every source once, standard input last.                                 *)
SourcesDistinct ==
  /\ \A i, k \in DOMAIN files : files[i] = files[k] => i = k
  /\ \A i \in DOMAIN files : files[i] = Stdin => i = Len(files)

(* While windows are laid out: the matches still to come are in order;     *)
(* every match before has its window shown, and what is shown is near      *)
(* some match; and between the start of a window to come and the line      *)
(* shown last nothing is missing, so that a window never has to go back.   *)
WindowsAt(lines) ==
  /\ \A i, k \in DOMAIN left : i < k => left[i] < left[k]
  /\ \A i \in DOMAIN left : left[i] \in Selected(lines)
  /\ \A m \in Selected(lines) :
       \/ \E i \in DOMAIN left : left[i] = m
       \/ \A j \in ctx_start(m) .. ctx_end(lines, m) : j \in shown
  /\ shown \subseteq Windows(lines)
  /\ \A j \in shown : j <= last_shown
  /\ last_shown # 0 => last_shown \in shown
  /\ \A i \in DOMAIN left, j \in Nat : ctx_start(left[i]) <= j /\ j <= last_shown => j \in shown

(* What is left to print of the file at hand are its rows, in order, that  *)
(* were not offered yet.                                                   *)
RowsAt ==
  /\ ~truncated
  /\ \A i \in RowsLeft : todo[i].row.src = files[at]
  /\ NumsLeft \cup OfferedOf(files[at]) = IF pc = "show" THEN shown ELSE Windows(searched[at].lines)
  /\ \A i, k \in RowsLeft : i < k => todo[i].row.num < todo[k].row.num
  /\ \A n \in OfferedOf(files[at]), i \in RowsLeft : n < todo[i].row.num
  /\ pc = "show" => OfferedOf(files[at]) = {} /\ WindowsAt(searched[at].lines)

Precedes(a, b) ==
  \E k, l \in DOMAIN files :
    a.src = files[k] /\ b.src = files[l] /\ (k < l \/ (k = l /\ a.num < b.num))

(* What was offered comes from the files searched, in path order, and each *)
(* one's lines in order.                                                   *)
OfferedInOrder ==
  /\ \A k \in DOMAIN offered : \E l \in DOMAIN searched : offered[k].src = files[l]
  /\ \A i, k \in DOMAIN offered : i < k => Precedes(offered[i], offered[k])

SourcesComplete ==
  \A k \in DOMAIN searched :
    /\ OfferedOf(files[k]) \subseteq Windows(searched[k].lines)
    /\ k < at /\ ~truncated => OfferedOf(files[k]) = Windows(searched[k].lines)

RowsInv ==
  /\ SourcesDistinct
  /\ pc = "collect" => offered = <<>> /\ ~truncated
  /\ truncated => pc = "done" \/ (pc = "search" /\ at > Len(files))
  /\ OfferedInOrder
  /\ SourcesComplete
  /\ pc \in {"show", "emit"} => RowsAt

RowsHold == opts.mode = "rows" => RowsInv

(* A row offered is one more of its source, and of no other.               *)
LEMMA OfferedGrows ==
  ASSUME Typed, NEW row, offered' = Append(offered, row)
  PROVE  /\ \A s : OfferedOf(s)' = OfferedOf(s) \cup {n \in {row.num} : row.src = s}
         /\ DOMAIN offered' = 1 .. Len(offered) + 1 /\ DOMAIN offered = 1 .. Len(offered)
         /\ Len(offered) \in Nat
         /\ \A k \in DOMAIN offered : offered'[k] = offered[k]
         /\ \A k : k = Len(offered) + 1 => offered'[k] = row
  <1>1. offered \in Seq(Row) /\ Len(offered) \in Nat
    BY DEF Typed, WriterTypeOK
  <1>2. /\ DOMAIN offered' = 1 .. Len(offered) + 1 /\ DOMAIN offered = 1 .. Len(offered)
        /\ \A k \in DOMAIN offered : offered'[k] = offered[k]
        /\ \A k : k = Len(offered) + 1 => offered'[k] = row
    BY <1>1
  <1>3. ASSUME NEW s PROVE OfferedOf(s)' = OfferedOf(s) \cup {n \in {row.num} : row.src = s}
    <2>1. DOMAIN offered' = DOMAIN offered \cup {Len(offered) + 1}
      BY <1>1, <1>2
    <2>2. ASSUME NEW n \in OfferedOf(s)' PROVE n \in OfferedOf(s) \cup {m \in {row.num} : row.src = s}
      <3>1. PICK k \in DOMAIN offered' : offered'[k].src = s /\ n = offered'[k].num
        BY <2>2 DEF OfferedOf
      <3>2. CASE k \in DOMAIN offered
        BY <1>2, <3>1, <3>2 DEF OfferedOf
      <3>3. CASE k = Len(offered) + 1
        BY <1>2, <3>1, <3>3
      <3> QED BY <2>1, <3>2, <3>3
    <2>3. ASSUME NEW n \in OfferedOf(s) PROVE n \in OfferedOf(s)'
      <3>1. PICK k \in DOMAIN offered : offered[k].src = s /\ n = offered[k].num
        BY <2>3 DEF OfferedOf
      <3>2. k \in DOMAIN offered' /\ offered'[k] = offered[k]
        BY <1>2, <2>1
      <3> QED BY <3>1, <3>2 DEF OfferedOf
    <2>4. ASSUME row.src = s PROVE row.num \in OfferedOf(s)'
      <3>1. PICK k : k = Len(offered) + 1
        OBVIOUS
      <3>2. k \in DOMAIN offered' /\ offered'[k].src = s /\ offered'[k].num = row.num
        BY <1>2, <2>1, <2>4, <3>1
      <3> QED BY <3>2 DEF OfferedOf
    <2> HIDE DEF OfferedOf
    <2> QED BY <2>2, <2>3, <2>4
  <1> QED BY <1>1, <1>2, <1>3

LEMMA OfferedKept ==
  ASSUME UNCHANGED offered
  PROVE  \A s : OfferedOf(s)' = OfferedOf(s)
  BY DEF OfferedOf

LEMMA WindowsKept ==
  ASSUME UNCHANGED opts
  PROVE  /\ \A lines : Windows(lines)' = Windows(lines)
         /\ \A lines : Selected(lines)' = Selected(lines)
         /\ \A lines, m : ctx_end(lines, m)' = ctx_end(lines, m)
         /\ \A m : ctx_start(m)' = ctx_start(m)
  BY DEF Windows, Selected, ctx_end, ctx_start

(* What is left to print, once its first item is printed.                  *)
LEMMA TailRows ==
  ASSUME Typed, todo # <<>>, todo' = Tail(todo)
  PROVE  /\ RowsLeft \subseteq Nat /\ RowsLeft' \subseteq Nat
         /\ \A i \in RowsLeft' : i + 1 \in RowsLeft /\ todo'[i] = todo[i + 1] /\ i + 1 # 1 /\ 1 < i + 1
         /\ \A i \in RowsLeft : i = 1 \/ (i - 1 \in RowsLeft' /\ todo'[i - 1] = todo[i])
         /\ Head(todo) = todo[1] /\ (Head(todo).what = "row" <=> 1 \in RowsLeft)
  <1>1. todo \in Seq(Item) /\ Len(todo) \in Nat \ {0}
    BY DEF Typed
  <1>2. /\ DOMAIN todo = 1 .. Len(todo) /\ DOMAIN todo' = 1 .. Len(todo) - 1
        /\ \A i \in 1 .. Len(todo) - 1 : todo'[i] = todo[i + 1]
        /\ Head(todo) = todo[1]
    BY <1>1
  <1>3. \A i \in 2 .. Len(todo) : todo'[i - 1] = todo[i] /\ i - 1 \in 1 .. Len(todo) - 1
    BY <1>1, <1>2
  <1>4. \A i \in 1 .. Len(todo) - 1 : i + 1 \in 1 .. Len(todo) /\ i + 1 # 1 /\ 1 < i + 1
    BY <1>1
  <1>5. \A i \in 1 .. Len(todo) : i = 1 \/ i \in 2 .. Len(todo)
    BY <1>1
  <1>6. 1 \in 1 .. Len(todo)
    BY <1>1
  <1> QED BY <1>1, <1>2, <1>3, <1>4, <1>5, <1>6 DEF RowsLeft

(* Nothing was offered of a source that was not searched.                  *)
LEMMA NothingOfferedYet ==
  ASSUME Typed, RowsInv, Searching
  PROVE  OfferedOf(files[at]) = {} /\ ~truncated /\ \A l \in DOMAIN searched : l < at
  <1>1. /\ Len(searched) = at - 1 /\ at \in Nat /\ at \in 1 .. Len(files) /\ Len(files) \in Nat
        /\ DOMAIN searched = 1 .. at - 1 /\ DOMAIN files = 1 .. Len(files)
    BY ContentHere DEF Typed, Searching
  <1>2. \A l \in DOMAIN searched : l < at /\ l \in DOMAIN files
    BY <1>1
  <1>3. \A k \in DOMAIN offered : offered[k].src # files[at]
    BY <1>1, <1>2 DEF RowsInv, OfferedInOrder, SourcesDistinct
  <1>4. ~truncated
    BY <1>1 DEF RowsInv, Searching
  <1> QED BY <1>2, <1>3, <1>4 DEF OfferedOf

(* The steps that search and print nothing.                                *)
LEMMA RowsKept ==
  ASSUME Typed, RowsInv, UNCHANGED <<opts, files, searched, offered, truncated, at>>, pc # "collect",
         pc' = "done" \/ (pc' = pc /\ UNCHANGED <<windowVars, todo>>)
  PROVE  RowsInv'
  <1>1. /\ \A s : OfferedOf(s)' = OfferedOf(s)
        /\ \A lines : Windows(lines)' = Windows(lines)
    BY OfferedKept, WindowsKept
  <1>2. SourcesDistinct' /\ OfferedInOrder'
    BY DEF RowsInv, SourcesDistinct, OfferedInOrder, Precedes
  <1>3. SourcesComplete'
    BY <1>1 DEF RowsInv, SourcesComplete
  <1>4. pc' \in {"show", "emit"} => RowsAt'
    <2> SUFFICES ASSUME pc' \in {"show", "emit"} PROVE RowsAt'
      OBVIOUS
    <2>1. RowsAt /\ UNCHANGED <<windowVars, todo, pc>>
      BY DEF RowsInv
    <2>2. RowsLeft' = RowsLeft /\ NumsLeft' = NumsLeft
      BY <2>1 DEF RowsLeft, NumsLeft
    <2>3. WindowsAt(searched[at].lines) => WindowsAt(searched[at].lines)'
      BY <2>1, WindowsKept DEF WindowsAt, windowVars
    <2>4. OfferedOf(files[at])' = OfferedOf(files[at]) /\ Windows(searched[at].lines)' = Windows(searched[at].lines)
      BY <1>1
    <2> HIDE DEF OfferedOf, Windows, WindowsAt, RowsLeft, NumsLeft
    <2> QED BY <2>1, <2>2, <2>3, <2>4 DEF RowsAt, windowVars
  <1> QED BY <1>2, <1>3, <1>4 DEF RowsInv

LEMMA RowsStart == GrepInit => RowsHold
  <1> SUFFICES ASSUME GrepInit PROVE RowsInv
    BY DEF RowsHold
  <1>1. files = <<>> /\ offered = <<>> /\ searched = <<>> /\ truncated = FALSE /\ pc = "collect"
    BY DEF GrepInit, WriterInit
  <1> QED BY <1>1 DEF RowsInv, SourcesDistinct, OfferedInOrder, SourcesComplete

LEMMA RowsCollected ==
  ASSUME Typed, RowsInv, Collect
  PROVE  RowsInv'
  <1>1. /\ pc = "collect" /\ pc' = "search" /\ offered' = offered /\ truncated' = truncated
        /\ searched' = searched
    BY DEF Collect, writerAll, writerVars
  <1>2. searched = <<>> /\ offered = <<>> /\ ~truncated
    <2>1. Len(searched) = 0 /\ searched \in Seq(ContentType)
      BY <1>1 DEF Typed, Placed
    <2> QED BY <1>1, <2>1 DEF RowsInv
  <1>3. SourcesDistinct'
    BY FilesOfWalk DEF Typed, SourcesDistinct
  <1> QED BY <1>1, <1>2, <1>3 DEF RowsInv, OfferedInOrder, SourcesComplete

(* A file read, whether its lines are to be printed or not.                *)
LEMMA RowsSearched ==
  ASSUME Typed, RowsInv, Searching, searched' = Append(searched, Content),
         UNCHANGED <<opts, files, offered, truncated>>, at' \in {at, at + 1}, at' = at + 1 => Windows(Content.lines) = {}
  PROVE  SourcesDistinct' /\ OfferedInOrder' /\ SourcesComplete' /\ \A k : k = at => OfferedOf(files[k])' = {}
  <1>1. /\ \A s : OfferedOf(s)' = OfferedOf(s)
        /\ \A lines : Windows(lines)' = Windows(lines)
    BY OfferedKept, WindowsKept
  <1>2. /\ at \in Nat \ {0} /\ DOMAIN searched = 1 .. at - 1 /\ DOMAIN searched' = 1 .. at
        /\ \A k \in 1 .. at - 1 : searched'[k] = searched[k]
        /\ \A k : k = at => searched'[k] = Content
    BY SearchedGrows, ContentHere
  <1>3. OfferedOf(files[at]) = {} /\ ~truncated
    BY NothingOfferedYet
  <1>4. SourcesDistinct'
    BY DEF RowsInv, SourcesDistinct
  <1>5. OfferedInOrder'
    <2>1. \A l \in DOMAIN searched : l \in DOMAIN searched'
      BY <1>2
    <2>2. \A k \in DOMAIN offered : \E l \in DOMAIN searched' : offered[k].src = files[l]
      BY <2>1 DEF RowsInv, OfferedInOrder
    <2>3. \A a, b : Precedes(a, b)' <=> Precedes(a, b)
      BY DEF Precedes
    <2> HIDE DEF Precedes
    <2> QED BY <2>2, <2>3 DEF RowsInv, OfferedInOrder
  <1>6. SourcesComplete'
    <2> SUFFICES ASSUME NEW k \in DOMAIN searched'
                 PROVE  /\ OfferedOf(files[k])' \subseteq Windows(searched[k].lines)'
                        /\ k < at' => OfferedOf(files[k])' = Windows(searched[k].lines)'
      BY DEF SourcesComplete
    <2>1. OfferedOf(files[k])' = OfferedOf(files[k]) /\ Windows(searched[k].lines)' = Windows(searched'[k].lines)
      BY <1>1
    <2>2. CASE k \in 1 .. at - 1
      <3>1. k \in DOMAIN searched /\ k < at /\ searched'[k] = searched[k]
        BY <1>2, <2>2
      <3>2. OfferedOf(files[k]) = Windows(searched[k].lines)
        BY <1>3, <3>1 DEF RowsInv, SourcesComplete
      <3> QED BY <2>1, <3>1, <3>2
    <2>3. CASE k = at
      <3>1. OfferedOf(files[k]) = {} /\ searched'[k] = Content
        BY <1>2, <1>3, <2>3
      <3>2. k < at' => Windows(Content.lines) = {}
        BY <1>2, <2>3
      <3> QED BY <2>1, <3>1, <3>2
    <2> QED BY <1>2, <2>2, <2>3
  <1>7. \A k : k = at => OfferedOf(files[k])' = {}
    BY <1>1, <1>3
  <1> HIDE DEF OfferedOf
  <1> QED BY <1>4, <1>5, <1>6, <1>7

LEMMA RowsSkipped ==
  ASSUME Typed, RowsInv, SkipFile
  PROVE  RowsInv'
  <1>1. /\ Searching /\ pc = "search" /\ pc' = pc /\ at' = at + 1 /\ searched' = Append(searched, Content)
        /\ UNCHANGED <<opts, files, offered, truncated>>
    BY DEF SkipFile, Searching, worldVars, writerAll, writerVars
  <1>2. Windows(Content.lines) = {}
    BY SkippedIsEmpty DEF Windows
  <1>3. ~truncated
    BY <1>1, NothingOfferedYet
  <1>4. SourcesDistinct' /\ OfferedInOrder' /\ SourcesComplete'
    BY <1>1, <1>2, RowsSearched
  <1> QED BY <1>1, <1>3, <1>4 DEF RowsInv

LEMMA HeadingsHaveNoRows ==
  ASSUME NEW p, todo' = Headings(p)
  PROVE  RowsLeft' = {} /\ NumsLeft' = {}
  <1>1. \A i \in DOMAIN Headings(p) : Headings(p)[i].what = "deco"
    BY DEF Headings, DecoItem
  <1>2. RowsLeft' = {}
    BY <1>1 DEF RowsLeft
  <1> QED BY <1>2 DEF NumsLeft

LEMMA RowsLaidOut ==
  ASSUME Typed, RowsInv, SearchHits, opts.mode = "rows"
  PROVE  RowsInv'
  <1> DEFINE found == Selected(Content.lines)
  <1>1. /\ Searching /\ pc = "search" /\ pc' = "show" /\ at' = at /\ searched' = Append(searched, Content)
        /\ UNCHANGED <<opts, files, offered, truncated>>
        /\ left' = Ascending(found) /\ shown' = {} /\ last_shown' = 0 /\ todo' = Headings(files[at])
    BY DEF SearchHits, Searching, worldVars, writerAll, writerVars
  <1>2. ~truncated
    BY <1>1, NothingOfferedYet
  <1>3. SourcesDistinct' /\ OfferedInOrder' /\ SourcesComplete' /\ \A k : k = at => OfferedOf(files[k])' = {}
    <2>1. at' \in {at, at + 1} /\ at' # at + 1
      BY <1>1, ContentHere
    <2> QED BY <1>1, <2>1, RowsSearched
  <1>4. searched'[at'] = Content
    BY <1>1, SearchedGrows
  <1>5. /\ found \subseteq Nat /\ IsFiniteSet(found) /\ found \subseteq 1 .. Len(Content.lines)
        /\ \A lines : Selected(lines)' = Selected(lines)
    BY <1>1, ContentHere, SelectedLines, WindowsKept
  <1> HIDE DEF found
  <1>6. /\ \A k \in DOMAIN left' : left'[k] \in found
        /\ \A m \in found : \E k \in DOMAIN left' : left'[k] = m
        /\ \A k, l \in DOMAIN left' : k < l => left'[k] < left'[l]
    <2> DEFINE s == Ascending(found)
    <2>1. /\ s \in Seq(found) /\ Len(s) = Cardinality(found) /\ Cardinality(found) \in Nat
          /\ \A m \in found : \E k \in 1 .. Cardinality(found) : s[k] = m
          /\ \A k, l \in 1 .. Cardinality(found) : k < l => s[k] < s[l]
      BY <1>5, AscendingIsSorted
    <2> HIDE DEF s
    <2>2. DOMAIN s = 1 .. Cardinality(found) /\ \A k \in DOMAIN s : s[k] \in found
      BY <2>1
    <2>3. left' = s
      BY <1>1 DEF s
    <2> QED BY <2>1, <2>2, <2>3
  <1>7. ASSUME NEW lines, lines = Content.lines PROVE WindowsAt(lines)'
    <2>1. Selected(lines)' = found
      BY <1>5, <1>7 DEF found
    <2>2. \A m \in found : m \in Nat /\ m >= 1
      BY <1>1, <1>5, ContentHere
    <2>3. opts'.before \in Nat
      BY <1>1, OptionsTyped DEF Typed
    <2>4. ASSUME NEW i \in DOMAIN left', NEW j \in Nat PROVE ~(ctx_start(left[i])' <= j /\ j <= 0)
      <3>1. left'[i] \in Nat /\ left'[i] >= 1
        BY <1>6, <2>2
      <3> QED BY <2>3, <3>1 DEF ctx_start
    <2> HIDE DEF found, Selected
    <2>5. \A i \in DOMAIN left', j \in Nat : ctx_start(left[i])' <= j /\ j <= 0 => j \in {}
      BY <2>4
    <2>6. shown' \subseteq Windows(lines)' /\ last_shown' = 0 /\ shown' = {}
      BY <1>1
    <2>7. \A m \in Selected(lines)' : \E k \in DOMAIN left' : left'[k] = m
      BY <1>6, <2>1
    <2>8. \A k \in DOMAIN left' : left'[k] \in Selected(lines)'
      BY <1>6, <2>1
    <2> HIDE DEF Windows, ctx_start, ctx_end
    <2> QED BY <1>6, <2>5, <2>6, <2>7, <2>8 DEF WindowsAt
  <1>8. RowsAt'
    <2>1. RowsLeft' = {} /\ NumsLeft' = {}
      BY <1>1, HeadingsHaveNoRows
    <2>2. WindowsAt(searched[at].lines)'
      <3>1. ASSUME NEW lines, lines = searched'[at'].lines PROVE WindowsAt(lines)'
        BY <1>4, <1>7, <3>1
      <3> QED BY <3>1 DEF WindowsAt
    <2>3. OfferedOf(files[at])' = {}
      BY <1>1, <1>3 DEF OfferedOf
    <2> HIDE DEF OfferedOf, WindowsAt, RowsLeft, NumsLeft
    <2> QED BY <1>1, <1>2, <2>1, <2>2, <2>3 DEF RowsAt
  <1> QED BY <1>1, <1>2, <1>3, <1>8 DEF RowsInv

(* One more row, perhaps behind a separator.                               *)
LEMMA RowsAppended ==
  ASSUME Typed, NEW more, more \in Seq(Item), NEW row \in Item, row.what = "row",
         todo' = todo \o more \o <<row>>, \A k \in DOMAIN more : more[k].what = "deco"
  PROVE  /\ RowsLeft \subseteq Nat
         /\ NumsLeft' = NumsLeft \cup {row.row.num}
         /\ \A i \in RowsLeft' : \/ i \in RowsLeft /\ todo'[i] = todo[i]
                                 \/ (\A k \in RowsLeft' : k <= i) /\ todo'[i] = row
         /\ \A i \in RowsLeft' : i \in Nat
  <1>1. todo \in Seq(Item) /\ Len(todo) \in Nat /\ Len(more) \in Nat
    BY DEF Typed
  <1> DEFINE last == Len(todo) + Len(more) + 1
  <1>2. /\ DOMAIN todo' = 1 .. last /\ DOMAIN todo = 1 .. Len(todo) /\ DOMAIN more = 1 .. Len(more)
        /\ \A i \in 1 .. Len(todo) : todo'[i] = todo[i]
        /\ \A i \in Len(todo) + 1 .. Len(todo) + Len(more) : todo'[i] = more[i - Len(todo)]
        /\ \A i : i = last => todo'[i] = row
    <2> DEFINE all == todo \o more \o <<row>>
    <2>1. /\ Len(all) = last /\ DOMAIN all = 1 .. last
          /\ \A i \in 1 .. Len(todo) : all[i] = todo[i]
          /\ \A i \in Len(todo) + 1 .. Len(todo) + Len(more) : all[i] = more[i - Len(todo)]
          /\ all[last] = row
      BY <1>1
    <2> QED BY <1>1, <2>1
  <1>3. \A i \in Len(todo) + 1 .. Len(todo) + Len(more) : i - Len(todo) \in 1 .. Len(more)
    BY <1>1
  <1>4. /\ \A i \in 1 .. last : i \in 1 .. Len(todo) \/ i \in Len(todo) + 1 .. Len(todo) + Len(more) \/ i = last
        /\ \A i \in 1 .. Len(todo) : i \in 1 .. last /\ i \in Nat
        /\ \A i \in 1 .. last : i <= last /\ i \in Nat
        /\ last \in 1 .. last
    <2>1. last \in Nat \ {0} /\ Len(todo) <= last /\ last = (Len(todo) + Len(more)) + 1
      BY <1>1
    <2>2. ASSUME NEW i \in 1 .. last
          PROVE  i \in 1 .. Len(todo) \/ i \in Len(todo) + 1 .. Len(todo) + Len(more) \/ i = last
      <3>1. \A p, q \in Nat : \A k \in 1 .. p + q + 1 : k \in 1 .. p \/ k \in p + 1 .. p + q \/ k = p + q + 1
        OBVIOUS
      <3> QED BY <1>1, <3>1
    <2> HIDE DEF last
    <2>3. \A i \in 1 .. Len(todo) : i \in 1 .. last /\ i \in Nat
      BY <1>1, <2>1
    <2>4. (\A i \in 1 .. last : i <= last /\ i \in Nat) /\ last \in 1 .. last
      BY <2>1
    <2> QED BY <2>2, <2>3, <2>4
  <1> HIDE DEF last
  <1>5. \A i \in DOMAIN todo' : todo'[i].what = "row" <=> i \in RowsLeft \/ i = last
    <2>1. ASSUME NEW i \in Len(todo) + 1 .. Len(todo) + Len(more) PROVE todo'[i].what = "deco"
      <3>1. i - Len(todo) \in DOMAIN more /\ todo'[i] = more[i - Len(todo)]
        BY <1>2, <1>3
      <3> QED BY <3>1
    <2>2. \A i \in 1 .. last : i \in Len(todo) + 1 .. Len(todo) + Len(more) => i \notin 1 .. Len(todo) /\ i # last
      BY <1>1 DEF last
    <2> QED BY <1>2, <1>4, <2>1, <2>2 DEF RowsLeft
  <1>6. RowsLeft' = RowsLeft \cup {last} /\ RowsLeft \subseteq 1 .. Len(todo)
    <2>1. RowsLeft \subseteq 1 .. Len(todo)
      BY <1>2 DEF RowsLeft
    <2>2. RowsLeft' = {i \in DOMAIN todo' : todo'[i].what = "row"}
      BY DEF RowsLeft
    <2> HIDE DEF RowsLeft
    <2> QED BY <1>2, <1>4, <1>5, <2>1, <2>2
  <1>7. NumsLeft' = NumsLeft \cup {row.row.num}
    <2>1. NumsLeft' = {todo'[i].row.num : i \in RowsLeft \cup {last}}
      BY <1>6 DEF NumsLeft
    <2>2. \A i \in RowsLeft : todo'[i] = todo[i]
      BY <1>2, <1>6
    <2>3. \A i : i = last => todo'[i] = row
      BY <1>2
    <2> HIDE DEF RowsLeft
    <2>4. ASSUME NEW n \in NumsLeft' PROVE n \in NumsLeft \cup {row.row.num}
      <3>1. PICK i \in RowsLeft \cup {last} : n = todo'[i].row.num
        BY <2>1
      <3>2. CASE i \in RowsLeft
        BY <2>2, <3>1, <3>2 DEF NumsLeft
      <3>3. CASE i = last
        BY <2>3, <3>1, <3>3
      <3> QED BY <3>2, <3>3
    <2>5. ASSUME NEW n \in NumsLeft PROVE n \in NumsLeft'
      <3>1. PICK i \in RowsLeft : n = todo[i].row.num
        BY DEF NumsLeft
      <3> QED BY <2>1, <2>2, <3>1
    <2>6. row.row.num \in NumsLeft'
      BY <2>1, <2>3
    <2> QED BY <2>4, <2>5, <2>6
  <1>8. ASSUME NEW i \in RowsLeft'
        PROVE  \/ i \in RowsLeft /\ todo'[i] = todo[i]
               \/ (\A k \in RowsLeft' : k <= i) /\ todo'[i] = row
    <2>1. CASE i \in RowsLeft
      BY <1>2, <1>6, <2>1
    <2>2. CASE i = last
      <3>1. \A k \in RowsLeft' : k <= last
        BY <1>4, <1>6
      <3> QED BY <1>2, <2>2, <3>1
    <2> QED BY <1>6, <2>1, <2>2
  <1>9. \A i \in RowsLeft' : i \in Nat
    BY <1>4, <1>6
  <1> HIDE DEF RowsLeft, NumsLeft
  <1> QED BY <1>4, <1>6, <1>7, <1>8, <1>9

(* The next line shown is behind all that were: a window never goes back.  *)
LEMMA WindowsShown ==
  ASSUME Typed, RowsInv, pc = "show", NEW i \in FreshNow, \A k \in FreshNow : i <= k,
         shown' = shown \cup {i}, last_shown' = i, UNCHANGED <<opts, left>>
  PROVE  /\ i \in Nat /\ last_shown < i /\ (\A j \in shown : j < i)
         /\ \A lines : lines = searched[at].lines => WindowsAt(lines)'
  <1> DEFINE lines == searched[at].lines
             m == Head(left)
  <1>1. /\ m = left[1] /\ 1 \in DOMAIN left /\ m \in 1 .. Len(lines) /\ m \in Nat /\ Len(lines) \in Nat
        /\ lines \in Seq(BOOLEAN) /\ left \in Seq(1 .. Len(lines)) /\ DOMAIN left \subseteq Nat
        /\ \A k \in DOMAIN left : 1 <= k
    BY HeadOfLeft, LinesHere, SMTT(30) DEF Typed, Placed
  <1>2. /\ WindowsAt(lines) /\ last_shown \in Nat /\ shown \subseteq Nat /\ opts.before \in Nat /\ opts.after \in Nat
    BY OptionsTyped DEF RowsInv, RowsAt, Typed
  <1>3. FreshNow = (ctx_start(m) .. ctx_end(lines, m)) \ shown /\ FreshNow \subseteq 1 .. Len(lines)
    BY FreshLines
  <1>4. i \in Nat /\ i \in 1 .. Len(lines) /\ i \notin shown /\ ctx_start(m) <= i /\ i <= ctx_end(lines, m)
        /\ ctx_start(m) \in Nat /\ ctx_end(lines, m) \in Nat
    <2> DEFINE a == ctx_start(m)
               b == ctx_end(lines, m)
    <2>1. a \in 1 .. m /\ b \in m .. Len(lines)
      BY <1>1, WindowIsReach DEF Typed
    <2>2. i \in a .. b /\ i \notin shown /\ i \in 1 .. Len(lines)
      BY <1>3
    <2> HIDE DEF a, b, lines, m
    <2>3. a \in Nat /\ b \in Nat /\ a <= i /\ i <= b /\ i \in Nat
      BY <1>1, <2>1, <2>2
    <2> QED BY <2>2, <2>3 DEF a, b
  <1> HIDE DEF lines, m
  <1>5. last_shown < i
    <2>1. ctx_start(left[1]) <= i /\ i <= last_shown => i \in shown
      BY <1>1, <1>2, <1>4 DEF WindowsAt
    <2> QED BY <1>1, <1>2, <1>4, <2>1
  <1>6. \A j \in shown : j < i /\ j \in Nat
    BY <1>2, <1>4, <1>5 DEF WindowsAt
  <1>7. m \in Selected(lines)
    BY <1>1, <1>2 DEF WindowsAt
  <1>8. i \in Windows(lines)
    <2>1. m <= i + opts.before /\ i <= m + opts.after
      BY <1>1, <1>4, WindowIsReach DEF Typed
    <2>2. i \in DOMAIN lines
      BY <1>1, <1>4
    <2> QED BY <1>7, <2>1, <2>2 DEF Windows
  <1>9. ASSUME NEW k \in DOMAIN left, NEW j \in Nat, ctx_start(left[k]) <= j, j <= i
        PROVE  j \in shown \/ j = i
    <2>1. CASE j <= last_shown
      BY <1>2, <1>9, <2>1 DEF WindowsAt
    <2>2. CASE last_shown < j /\ j < i
      <3>1. m <= left[k] /\ left[k] \in Nat
        <4>1. left[k] \in 1 .. Len(lines) /\ k \in Nat /\ 1 <= k
          BY <1>1
        <4>2. k = 1 \/ left[1] < left[k]
          BY <1>1, <1>2, <4>1 DEF WindowsAt
        <4> QED BY <1>1, <4>1, <4>2
      <3>2. ctx_start(m) <= j
        BY <1>1, <1>2, <1>9, <3>1 DEF ctx_start
      <3>3. j \in ctx_start(m) .. ctx_end(lines, m)
        BY <1>4, <2>2, <3>2
      <3>4. j \notin FreshNow
        BY <1>4, <2>2
      <3> QED BY <1>3, <3>3, <3>4
    <2> QED BY <1>2, <1>4, <1>9, <2>1, <2>2
  <1>10. ASSUME NEW ll, ll = lines PROVE WindowsAt(ll)'
    <2>1. WindowsAt(ll) /\ i \in Windows(ll)
      BY <1>2, <1>8, <1>10
    <2>2. /\ Windows(ll)' = Windows(ll) /\ Selected(ll)' = Selected(ll)
          /\ \A y : ctx_end(ll, y)' = ctx_end(ll, y)
          /\ \A y : ctx_start(y)' = ctx_start(y)
      BY WindowsKept
    <2>3. \A k \in DOMAIN left, j \in Nat : ctx_start(left[k]) <= j /\ j <= i => j \in shown \cup {i}
      BY <1>9
    <2>4. \A j \in shown \cup {i} : j <= i
      BY <1>4, <1>6
    <2>5. \A k \in DOMAIN left : ctx_start(left[k])' = ctx_start(left[k])
      BY <2>2 DEF ctx_start
    <2>6. \A x \in Selected(ll) : \/ \E k \in DOMAIN left : left[k] = x
                                  \/ \A j \in ctx_start(x) .. ctx_end(ll, x) : j \in shown \cup {i}
      BY <2>1 DEF WindowsAt
    <2>7. shown \cup {i} \subseteq Windows(ll)
      BY <2>1 DEF WindowsAt
    <2>8. /\ \A a, b \in DOMAIN left : a < b => left[a] < left[b]
          /\ \A a \in DOMAIN left : left[a] \in Selected(ll)
      BY <2>1 DEF WindowsAt
    <2>9. left' = left /\ shown' = shown \cup {i} /\ last_shown' = i
      OBVIOUS
    <2> HIDE DEF Windows, Selected, ctx_start, ctx_end
    <2> QED BY <2>2, <2>3, <2>4, <2>5, <2>6, <2>7, <2>8, <2>9 DEF WindowsAt
  <1>11. \A ll : ll = searched[at].lines => WindowsAt(ll)'
    BY <1>10 DEF lines
  <1> QED BY <1>4, <1>5, <1>6, <1>11

LEMMA RowsShown ==
  ASSUME Typed, RowsInv, ShowLine
  PROVE  RowsInv'
  <1> DEFINE more == IF Gap(Head(left)) THEN <<DecoItem("sep", files[at])>> ELSE <<>>
             row(i) == RowItem(IF i = Head(left) THEN "match" ELSE "context", files[at], i)
  <1>1. /\ pc = "show" /\ pc' = pc /\ UNCHANGED <<opts, files, at, left, searched, offered, truncated>>
    BY DEF ShowLine, worldVars, writerAll, writerVars
  <1>2. PICK i \in FreshNow : /\ \A k \in FreshNow : i <= k
                              /\ todo' = todo \o more \o <<row(i)>>
                              /\ shown' = shown \cup {i} /\ last_shown' = i
    BY DEF ShowLine
  <1>3. more \in Seq(Item) /\ row(i) \in Item /\ \A k \in DOMAIN more : more[k].what = "deco"
    <2>1. DecoItem("sep", files[at]) \in Item /\ row(i) \in Item
      BY <1>1, FreshLines, LinesHere, ItemsTyped
    <2>2. more \in Seq(Item)
      BY <2>1
    <2>3. \A k \in DOMAIN more : more[k].what = "deco"
      BY DEF DecoItem
    <2> QED BY <2>1, <2>2, <2>3
  <1>4. row(i).what = "row" /\ row(i).row.num = i /\ row(i).row.src = files[at]
    BY DEF RowItem, RowOf
  <1> DEFINE new == row(i)
  <1>5. todo' = todo \o more \o <<new>> /\ new \in Item /\ new.what = "row" /\ new.row.num = i
        /\ new.row.src = files[at]
    BY <1>2, <1>3, <1>4
  <1> HIDE DEF more, new
  <1>6. /\ RowsLeft \subseteq Nat
        /\ NumsLeft' = NumsLeft \cup {new.row.num}
        /\ \A k \in RowsLeft' : \/ k \in RowsLeft /\ todo'[k] = todo[k]
                                \/ (\A l \in RowsLeft' : l <= k) /\ todo'[k] = new
        /\ \A k \in RowsLeft' : k \in Nat
    BY <1>3, <1>5, RowsAppended
  <1>7. /\ i \in Nat /\ last_shown < i /\ (\A j \in shown : j < i)
        /\ \A lines : lines = searched[at].lines => WindowsAt(lines)'
    BY <1>1, <1>2, WindowsShown
  <1>8. RowsAt /\ OfferedOf(files[at]) = {} /\ \A s : OfferedOf(s)' = OfferedOf(s)
    BY <1>1, OfferedKept DEF RowsInv, RowsAt
  <1>9. \A k \in RowsLeft : todo[k].row.num \in shown
    <2>1. \A k \in RowsLeft : todo[k].row.num \in NumsLeft
      BY DEF NumsLeft
    <2> HIDE DEF OfferedOf, RowsLeft
    <2> QED BY <1>1, <1>8, <2>1 DEF RowsAt
  <1>10. RowsAt'
    <2>1. \A k \in RowsLeft' : todo'[k].row.src = files[at]
      BY <1>5, <1>6, <1>8 DEF RowsAt
    <2>2. NumsLeft' = shown' /\ OfferedOf(files[at])' = {}
      <3>1. NumsLeft = shown
        <4> HIDE DEF OfferedOf, NumsLeft
        <4> QED BY <1>1, <1>8 DEF RowsAt
      <3> HIDE DEF NumsLeft
      <3> QED BY <1>1, <1>2, <1>5, <1>6, <1>8, <3>1, ZenonT(60) DEF OfferedOf
    <2>3. ASSUME NEW k \in RowsLeft', NEW l \in RowsLeft', k < l
          PROVE  todo'[k].row.num < todo'[l].row.num
      <3>1. k \in RowsLeft /\ todo'[k] = todo[k]
        BY <1>6, <2>3
      <3>2. CASE l \in RowsLeft /\ todo'[l] = todo[l]
        BY <1>8, <2>3, <3>1, <3>2 DEF RowsAt
      <3>3. CASE todo'[l] = new
        BY <1>5, <1>7, <1>9, <3>1, <3>3
      <3> QED BY <1>6, <3>2, <3>3
    <2>4. WindowsAt(searched[at].lines)'
      <3>1. ASSUME NEW lines, lines = searched'[at'].lines PROVE WindowsAt(lines)'
        BY <1>1, <1>7, <3>1
      <3> QED BY <3>1 DEF WindowsAt
    <2>5. ~truncated' /\ pc' = "show" /\ files' = files /\ at' = at /\ searched' = searched
      BY <1>1, <1>8 DEF RowsAt
    <2> HIDE DEF OfferedOf, WindowsAt, RowsLeft, NumsLeft
    <2>6. \A k \in RowsLeft' : todo'[k].row.src = files'[at']
      BY <2>1, <2>5
    <2>7. NumsLeft' \cup OfferedOf(files[at])' = shown'
      BY <2>2
    <2> QED BY <2>2, <2>3, <2>4, <2>5, <2>6, <2>7 DEF RowsAt
  <1>11. SourcesDistinct' /\ OfferedInOrder'
    BY <1>1 DEF RowsInv, SourcesDistinct, OfferedInOrder, Precedes
  <1>12. SourcesComplete'
    <2>1. \A lines : Windows(lines)' = Windows(lines)
      BY <1>1, WindowsKept
    <2> QED BY <1>1, <1>8, <2>1 DEF RowsInv, SourcesComplete
  <1> QED BY <1>1, <1>8, <1>10, <1>11, <1>12 DEF RowsInv, RowsAt

LEMMA RowsNext ==
  ASSUME Typed, RowsInv, NextMatch
  PROVE  RowsInv'
  <1> DEFINE lines == searched[at].lines
  <1>1. /\ pc = "show" /\ pc' = (IF left' = <<>> THEN "emit" ELSE "show") /\ left' = Tail(left) /\ FreshNow = {}
        /\ UNCHANGED <<opts, files, at, shown, last_shown, searched, offered, truncated, todo>>
    BY DEF NextMatch, worldVars, writerAll, writerVars
  <1>2. /\ left \in Seq(Nat) /\ Len(left) \in Nat \ {0} /\ DOMAIN left = 1 .. Len(left)
        /\ Head(left) = left[1] /\ DOMAIN left' = 1 .. Len(left) - 1
        /\ (\A k \in DOMAIN left' : left'[k] = left[k + 1] /\ k + 1 \in DOMAIN left)
        /\ lines \in Seq(BOOLEAN) /\ lines = searched'[at'].lines
    <2>1. left \in Seq(Nat) /\ left # <<>>
      BY <1>1, HeadOfLeft DEF Typed
    <2>2. /\ Len(left) \in Nat \ {0} /\ DOMAIN left = 1 .. Len(left)
          /\ Head(left) = left[1] /\ DOMAIN left' = 1 .. Len(left) - 1
          /\ (\A k \in DOMAIN left' : left'[k] = left[k + 1] /\ k + 1 \in DOMAIN left)
      BY <1>1, <2>1
    <2> QED BY <1>1, <2>1, <2>2, LinesHere
  <1>3. RowsAt /\ WindowsAt(lines) /\ OfferedOf(files[at]) = {} /\ \A s : OfferedOf(s)' = OfferedOf(s)
    BY <1>1, OfferedKept DEF RowsInv, RowsAt
  <1>4. \A j \in ctx_start(left[1]) .. ctx_end(lines, left[1]) : j \in shown
    BY <1>1, <1>2, FreshLines
  <1> HIDE DEF lines
  <1>5. /\ Windows(lines)' = Windows(lines) /\ Selected(lines)' = Selected(lines)
        /\ \A y : ctx_end(lines, y)' = ctx_end(lines, y)
        /\ \A y : ctx_start(y)' = ctx_start(y)
    <2>1. lines' = lines
      BY <1>1 DEF lines
    <2> QED BY <1>1, <2>1, WindowsKept
  <1>6. ASSUME NEW m \in Selected(lines), m # left[1], NEW k \in DOMAIN left, left[k] = m
        PROVE  \E l \in DOMAIN left' : left'[l] = m
    <2>1. k \in 2 .. Len(left)
      BY <1>2, <1>6
    <2>2. k - 1 \in DOMAIN left' /\ (k - 1) + 1 = k
      BY <1>2, <2>1
    <2> QED BY <1>2, <1>6, <2>2
  <1>7. \A m \in Selected(lines) : \/ \E l \in DOMAIN left' : left'[l] = m
                                   \/ \A j \in ctx_start(m) .. ctx_end(lines, m) : j \in shown
    BY <1>3, <1>4, <1>6 DEF WindowsAt
  <1>8. ASSUME NEW ll, ll = lines PROVE WindowsAt(ll)'
    <2>1. \A a, b \in DOMAIN left' : a < b => left'[a] < left'[b]
      BY <1>2, <1>3 DEF WindowsAt
    <2>2. \A a \in DOMAIN left' : left'[a] \in Selected(lines)
      BY <1>2, <1>3 DEF WindowsAt
    <2>3. \A a \in DOMAIN left', j \in Nat : ctx_start(left[a])' <= j /\ j <= last_shown => j \in shown
      <3> SUFFICES ASSUME NEW a \in DOMAIN left', NEW j \in Nat, ctx_start(left[a])' <= j, j <= last_shown
                   PROVE  j \in shown
        OBVIOUS
      <3>1. ctx_start(left[a])' = ctx_start(left[a + 1])
        BY <1>1, <1>2 DEF ctx_start
      <3> QED BY <1>2, <1>3, <3>1 DEF WindowsAt
    <2>4. shown \subseteq Windows(lines) /\ (\A j \in shown : j <= last_shown)
          /\ (last_shown # 0 => last_shown \in shown)
      BY <1>3 DEF WindowsAt
    <2>5. Windows(ll)' = Windows(lines) /\ Selected(ll)' = Selected(lines)
          /\ (\A y : ctx_end(ll, y)' = ctx_end(lines, y))
          /\ \A y : ctx_start(y)' = ctx_start(y)
      BY <1>1, <1>8, WindowsKept
    <2> HIDE DEF Windows, Selected, ctx_start, ctx_end
    <2> QED BY <1>1, <1>7, <2>1, <2>2, <2>3, <2>4, <2>5 DEF WindowsAt
  <1>9. left' = <<>> => shown = Windows(lines)
    <2> SUFFICES ASSUME left' = <<>>, NEW j \in Windows(lines) PROVE j \in shown
      BY <1>3 DEF WindowsAt
    <2>1. PICK m \in Selected(lines) : m <= j + opts.before /\ j <= m + opts.after /\ j \in DOMAIN lines
      BY DEF Windows
    <2>2. m \in 1 .. Len(lines) /\ j \in 1 .. Len(lines)
      BY <1>2, <2>1, SelectedLines
    <2>3. j \in ctx_start(m) .. ctx_end(lines, m)
      BY <1>2, <2>1, <2>2, WindowIsReach DEF Typed
    <2> QED BY <1>7, <2>3
  <1>10. RowsAt'
    <2>1. RowsLeft' = RowsLeft /\ NumsLeft' = NumsLeft
      BY <1>1 DEF RowsLeft, NumsLeft
    <2>2. WindowsAt(searched[at].lines)'
      <3>1. ASSUME NEW ll, ll = searched'[at'].lines PROVE WindowsAt(ll)'
        BY <1>2, <1>8, <3>1
      <3> QED BY <3>1 DEF WindowsAt
    <2>3. OfferedOf(files[at])' = {} /\ Windows(searched[at].lines)' = Windows(lines)
      <3>1. OfferedOf(files[at])' = {}
        BY <1>1, <1>3 DEF OfferedOf
      <3>2. \A ll : ll = searched[at].lines => Windows(ll)' = Windows(ll)
        BY <1>1, WindowsKept
      <3>3. Windows(searched[at].lines)' = Windows(lines)
        BY <1>1, <3>2 DEF Windows, lines, Selected
      <3> QED BY <3>1, <3>3
    <2>4. NumsLeft = shown /\ ~truncated /\ (\A k \in RowsLeft : todo[k].row.src = files[at])
          /\ (\A k, l \in RowsLeft : k < l => todo[k].row.num < todo[l].row.num)
      <3> HIDE DEF OfferedOf, Windows, WindowsAt, RowsLeft, NumsLeft
      <3> QED BY <1>1, <1>3 DEF RowsAt
    <2>5. (pc' = "show" \/ left' = <<>>) /\ pc' \in {"show", "emit"} /\ (pc' = "show" => left' # <<>>)
      BY <1>1
    <2> HIDE DEF OfferedOf, Windows, WindowsAt, RowsLeft, NumsLeft
    <2>6. NumsLeft' \cup OfferedOf(files[at])'
            = IF pc' = "show" THEN shown' ELSE Windows(searched[at].lines)'
      BY <1>1, <1>9, <2>1, <2>3, <2>4, <2>5
    <2> QED BY <1>1, <2>1, <2>2, <2>3, <2>4, <2>6 DEF RowsAt
  <1>11. SourcesDistinct' /\ OfferedInOrder'
    BY <1>1 DEF RowsInv, SourcesDistinct, OfferedInOrder, Precedes
  <1>12. SourcesComplete'
    <2>1. \A ll : Windows(ll)' = Windows(ll)
      BY <1>1, WindowsKept
    <2> QED BY <1>1, <1>3, <2>1 DEF RowsInv, SourcesComplete
  <1> QED BY <1>1, <1>3, <1>10, <1>11, <1>12 DEF RowsInv, RowsAt

(* The first row left is the next of its file.                             *)
LEMMA RowOffered ==
  ASSUME Typed, RowsInv, pc = "emit", todo # <<>>, Head(todo).what = "row",
         offered' = Append(offered, Head(todo).row), UNCHANGED <<opts, files, searched>>
  PROVE  /\ OfferedInOrder'
         /\ \A k \in DOMAIN searched : OfferedOf(files[k])' \subseteq Windows(searched[k].lines)'
         /\ \A k \in DOMAIN searched : k < at => OfferedOf(files[k])' = Windows(searched[k].lines)'
  <1> DEFINE row == Head(todo).row
  <1>1. /\ \A s : OfferedOf(s)' = OfferedOf(s) \cup {n \in {row.num} : row.src = s}
        /\ DOMAIN offered' = 1 .. Len(offered) + 1 /\ DOMAIN offered = 1 .. Len(offered)
        /\ Len(offered) \in Nat
        /\ \A k \in DOMAIN offered : offered'[k] = offered[k]
        /\ \A k : k = Len(offered) + 1 => offered'[k] = row
    BY OfferedGrows
  <1>2. RowsAt /\ ~truncated /\ at \in 1 .. Len(files) /\ at \in Nat /\ DOMAIN searched = 1 .. at /\ files \in Seq(DOMAIN tree)
    BY DEF RowsInv, RowsAt, Typed, Placed
  <1>3. 1 \in RowsLeft /\ todo[1] = Head(todo)
    <2>1. todo \in Seq(Item)
      BY DEF Typed
    <2> QED BY <2>1 DEF RowsLeft
  <1>4. /\ row.src = files[at] /\ row.num \in Windows(searched[at].lines)
        /\ \A n \in OfferedOf(files[at]) : n < row.num
    <2>1. row.num \in NumsLeft
      BY <1>3 DEF NumsLeft
    <2> HIDE DEF OfferedOf, Windows, RowsLeft, NumsLeft
    <2> QED BY <1>2, <1>3, <2>1 DEF RowsAt
  <1>5. \A k \in DOMAIN searched : k \in DOMAIN files /\ (k < at \/ k = at)
    BY <1>2
  <1>6. at \in DOMAIN searched /\ at \in DOMAIN files
    BY <1>2
  <1> HIDE DEF row
  <1>7. ASSUME NEW k \in DOMAIN offered PROVE Precedes(offered[k], row)
    <2>1. PICK l \in DOMAIN searched : offered[k].src = files[l]
      BY DEF RowsInv, OfferedInOrder
    <2>2. l = at => offered[k].num < row.num
      BY <1>4, <2>1 DEF OfferedOf
    <2> QED BY <1>4, <1>5, <1>6, <2>1, <2>2 DEF Precedes
  <1>8. OfferedInOrder'
    <2>1. \A k \in DOMAIN offered' : k \in DOMAIN offered \/ k = Len(offered) + 1
      BY <1>1
    <2>2. \A k \in DOMAIN offered' : \E l \in DOMAIN searched : offered'[k].src = files[l]
      <3> SUFFICES ASSUME NEW k \in DOMAIN offered' PROVE \E l \in DOMAIN searched : offered'[k].src = files[l]
        OBVIOUS
      <3>1. CASE k \in DOMAIN offered
        BY <1>1, <3>1 DEF RowsInv, OfferedInOrder
      <3>2. CASE k = Len(offered) + 1
        BY <1>1, <1>4, <1>6, <3>2
      <3> QED BY <2>1, <3>1, <3>2
    <2>3. ASSUME NEW i \in DOMAIN offered', NEW k \in DOMAIN offered', i < k
          PROVE  Precedes(offered'[i], offered'[k])
      <3>1. i \in DOMAIN offered
        BY <1>1, <2>3
      <3>2. CASE k \in DOMAIN offered
        BY <1>1, <2>3, <3>1, <3>2 DEF RowsInv, OfferedInOrder
      <3>3. CASE k = Len(offered) + 1
        BY <1>1, <1>7, <3>1, <3>3
      <3> QED BY <2>1, <3>2, <3>3
    <2>4. \A a, b : Precedes(a, b)' <=> Precedes(a, b)
      BY DEF Precedes
    <2>5. \A i, k \in DOMAIN offered' : i < k => Precedes(offered[i], offered[k])'
      <3>1. \A i, k : Precedes(offered[i], offered[k])' <=> Precedes(offered'[i], offered'[k])
        BY DEF Precedes
      <3> HIDE DEF Precedes
      <3> QED BY <2>3, <3>1
    <2> HIDE DEF Precedes
    <2> QED BY <2>2, <2>5 DEF OfferedInOrder
  <1>9. ASSUME NEW k \in DOMAIN searched
        PROVE  /\ OfferedOf(files[k])' \subseteq Windows(searched[k].lines)'
               /\ k < at => OfferedOf(files[k])' = Windows(searched[k].lines)'
    <2>1. \A s : s = files[k] => OfferedOf(files[k])' = OfferedOf(s)'
      BY DEF OfferedOf
    <2>2. Windows(searched[k].lines)' = Windows(searched[k].lines)
      BY DEF Windows, Selected
    <2>3. OfferedOf(files[k]) \subseteq Windows(searched[k].lines)
      BY DEF RowsInv, SourcesComplete
    <2>4. CASE k = at
      BY <1>1, <1>2, <1>4, <2>1, <2>2, <2>3, <2>4
    <2>5. CASE k < at
      <3>1. files[k] # files[at]
        BY <1>5, <1>6, <1>2, <2>5 DEF RowsInv, SourcesDistinct
      <3>2. OfferedOf(files[k]) = Windows(searched[k].lines)
        BY <1>2, <2>5 DEF RowsInv, SourcesComplete
      <3> HIDE DEF OfferedOf, Windows
      <3>3. OfferedOf(files[k])' = OfferedOf(files[k])
        BY <1>1, <1>4, <2>1, <3>1
      <3> QED BY <2>2, <3>2, <3>3
    <2> QED BY <1>5, <2>4, <2>5
  <1> HIDE DEF OfferedOf, Windows
  <1> QED BY <1>8, <1>9

LEMMA RowsEmitted ==
  ASSUME Typed, RowsInv, EmitRow \/ EmitDecoration
  PROVE  RowsInv'
  <1>1. /\ pc = "emit" /\ pc' = pc /\ todo # <<>> /\ todo' = Tail(todo)
        /\ UNCHANGED <<opts, files, at, searched, truncated>>
    BY DEF EmitRow, EmitDecoration, Emitting, worldVars, WriteLine, WriteDecoration
  <1>2. RowsAt /\ ~truncated /\ files' = files /\ at' = at
    BY <1>1 DEF RowsInv, RowsAt
  <1>3. /\ RowsLeft \subseteq Nat /\ RowsLeft' \subseteq Nat
        /\ \A i \in RowsLeft' : i + 1 \in RowsLeft /\ todo'[i] = todo[i + 1] /\ i + 1 # 1 /\ 1 < i + 1
        /\ \A i \in RowsLeft : i = 1 \/ (i - 1 \in RowsLeft' /\ todo'[i - 1] = todo[i])
        /\ Head(todo) = todo[1] /\ (Head(todo).what = "row" <=> 1 \in RowsLeft)
    BY <1>1, TailRows
  <1>4. SourcesDistinct' /\ Windows(searched[at].lines)' = Windows(searched[at].lines)
    BY <1>1 DEF RowsInv, SourcesDistinct, Windows, Selected
  <1> HIDE DEF RowsLeft
  <1>5. /\ \A i \in RowsLeft' : todo'[i].row.src = files[at]
        /\ \A i, k \in RowsLeft' : i < k => todo'[i].row.num < todo'[k].row.num
    <2>1. \A i \in RowsLeft' : todo'[i].row.src = files[at]
      BY <1>2, <1>3 DEF RowsAt
    <2>2. ASSUME NEW i \in RowsLeft', NEW k \in RowsLeft', i < k PROVE todo'[i].row.num < todo'[k].row.num
      <3>1. i + 1 \in RowsLeft /\ k + 1 \in RowsLeft /\ i + 1 < k + 1
        BY <1>3, <2>2
      <3> QED BY <1>2, <1>3, <3>1 DEF RowsAt
    <2> QED BY <2>1, <2>2
  <1>6. CASE Head(todo).what = "deco"
    <2>1. offered' = offered
      BY <1>6 DEF EmitRow, EmitDecoration, WriteDecoration
    <2>2. \A s : OfferedOf(s)' = OfferedOf(s)
      BY <2>1, OfferedKept
    <2>3. 1 \notin RowsLeft
      BY <1>3, <1>6
    <2>4. NumsLeft' = NumsLeft
      <3>1. ASSUME NEW n \in NumsLeft' PROVE n \in NumsLeft
        <4>1. PICK i \in RowsLeft' : n = todo'[i].row.num
          BY <3>1 DEF NumsLeft
        <4> QED BY <1>3, <4>1 DEF NumsLeft
      <3>2. ASSUME NEW n \in NumsLeft PROVE n \in NumsLeft'
        <4>1. PICK i \in RowsLeft : n = todo[i].row.num
          BY <3>2 DEF NumsLeft
        <4>2. i - 1 \in RowsLeft' /\ todo'[i - 1].row.num = n
          BY <1>3, <2>3, <4>1
        <4> QED BY <4>2 DEF NumsLeft
      <3> HIDE DEF NumsLeft
      <3> QED BY <3>1, <3>2
    <2>5. ASSUME NEW i \in RowsLeft', NEW n \in OfferedOf(files[at]) PROVE n < todo'[i].row.num
      BY <1>2, <1>3 DEF RowsAt
    <2>6. OfferedOf(files[at])' = OfferedOf(files[at])
      BY <1>1, <2>1 DEF OfferedOf
    <2>7. RowsAt'
      <3>1. NumsLeft \cup OfferedOf(files[at]) = Windows(searched[at].lines)
        <4> HIDE DEF OfferedOf, Windows, NumsLeft
        <4> QED BY <1>1, <1>2 DEF RowsAt
      <3> HIDE DEF OfferedOf, Windows, NumsLeft
      <3> QED BY <1>1, <1>2, <1>4, <1>5, <2>4, <2>5, <2>6, <3>1 DEF RowsAt
    <2>8. OfferedInOrder'
      BY <1>1, <2>1 DEF RowsInv, OfferedInOrder, Precedes
    <2>9. SourcesComplete'
      <3>1. \A lines : Windows(lines)' = Windows(lines)
        BY <1>1, WindowsKept
      <3> QED BY <1>1, <2>2, <3>1 DEF RowsInv, SourcesComplete
    <2> HIDE DEF NumsLeft, OfferedOf
    <2> QED BY <1>1, <1>2, <1>4, <2>7, <2>8, <2>9 DEF RowsInv
  <1>7. CASE Head(todo).what = "row"
    <2> DEFINE row == Head(todo).row
    <2>1. offered' = Append(offered, row)
      BY <1>7 DEF EmitRow, EmitDecoration, WriteLine
    <2>2. 1 \in RowsLeft /\ row = todo[1].row /\ row.src = files[at]
      BY <1>2, <1>3, <1>7 DEF RowsAt
    <2> HIDE DEF row
    <2>3. OfferedOf(files[at])' = OfferedOf(files[at]) \cup {row.num}
      <3>1. \A s : OfferedOf(s)' = OfferedOf(s) \cup {n \in {row.num} : row.src = s}
        BY <2>1, OfferedGrows
      <3>2. OfferedOf(files[at])' = OfferedOf(files[at]) \cup {n \in {row.num} : row.src = files[at]}
        BY <1>1, <3>1 DEF OfferedOf
      <3> HIDE DEF OfferedOf
      <3> QED BY <2>2, <3>2
    <2>4. NumsLeft = NumsLeft' \cup {row.num}
      <3>1. ASSUME NEW n \in NumsLeft' PROVE n \in NumsLeft
        <4>1. PICK i \in RowsLeft' : n = todo'[i].row.num
          BY <3>1 DEF NumsLeft
        <4> QED BY <1>3, <4>1 DEF NumsLeft
      <3>2. ASSUME NEW n \in NumsLeft, n # row.num PROVE n \in NumsLeft'
        <4>1. PICK i \in RowsLeft : n = todo[i].row.num
          BY <3>2 DEF NumsLeft
        <4>2. i - 1 \in RowsLeft' /\ todo'[i - 1].row.num = n
          BY <1>3, <2>2, <3>2, <4>1
        <4> QED BY <4>2 DEF NumsLeft
      <3>3. row.num \in NumsLeft
        BY <2>2 DEF NumsLeft
      <3> HIDE DEF NumsLeft
      <3> QED BY <3>1, <3>2, <3>3
    <2>5. ASSUME NEW i \in RowsLeft', NEW n \in OfferedOf(files[at]) \cup {row.num} PROVE n < todo'[i].row.num
      <3>1. i + 1 \in RowsLeft /\ todo'[i] = todo[i + 1] /\ 1 < i + 1
        BY <1>3
      <3>2. CASE n \in OfferedOf(files[at])
        BY <1>2, <3>1, <3>2 DEF RowsAt
      <3>3. CASE n = row.num
        BY <1>2, <2>2, <3>1, <3>3 DEF RowsAt
      <3> QED BY <3>2, <3>3
    <2>6. RowsAt'
      <3>1. NumsLeft \cup OfferedOf(files[at]) = Windows(searched[at].lines)
        <4> HIDE DEF OfferedOf, Windows, NumsLeft
        <4> QED BY <1>1, <1>2 DEF RowsAt
      <3> HIDE DEF OfferedOf, Windows, NumsLeft
      <3>2. NumsLeft' \cup OfferedOf(files[at])' = Windows(searched[at].lines)'
        BY <1>4, <2>3, <2>4, <3>1
      <3> QED BY <1>1, <1>2, <1>5, <2>3, <2>5, <3>2 DEF RowsAt
    <2>7. OfferedInOrder' /\ SourcesComplete'
      <3>1. /\ OfferedInOrder'
            /\ \A k \in DOMAIN searched : OfferedOf(files[k])' \subseteq Windows(searched[k].lines)'
            /\ \A k \in DOMAIN searched : k < at => OfferedOf(files[k])' = Windows(searched[k].lines)'
        BY <1>1, <1>7, <2>1, RowOffered DEF row
      <3> HIDE DEF OfferedOf, Windows
      <3> QED BY <1>1, <3>1 DEF SourcesComplete
    <2> HIDE DEF NumsLeft, OfferedOf
    <2> QED BY <1>1, <1>2, <1>4, <2>6, <2>7 DEF RowsInv
  <1> QED BY <1>1, <1>6, <1>7, HeadOfTodo

(* The steps after which nothing is left to print.                         *)
LEMMA RowsPassed ==
  ASSUME Typed, RowsInv, SourceEmitted
  PROVE  RowsInv'
  <1>1. /\ pc = "emit" /\ pc' = "search" /\ todo = <<>> /\ at' = at + 1
        /\ UNCHANGED <<opts, files, searched, offered, truncated>>
    BY DEF SourceEmitted, worldVars, writerAll, writerVars
  <1>2. RowsAt /\ ~truncated /\ at \in Nat /\ DOMAIN searched = 1 .. at
    BY <1>1 DEF RowsInv, RowsAt, Typed, Placed
  <1>3. \A s : OfferedOf(s)' = OfferedOf(s)
    BY <1>1, OfferedKept
  <1>4. OfferedOf(files[at]) = Windows(searched[at].lines)
    <2>1. NumsLeft = {}
      BY <1>1 DEF NumsLeft, RowsLeft
    <2> HIDE DEF OfferedOf, Windows, NumsLeft
    <2> QED BY <1>1, <1>2, <2>1 DEF RowsAt
  <1>5. SourcesComplete'
    <2>1. \A lines : Windows(lines)' = Windows(lines)
      BY <1>1, WindowsKept
    <2>2. ASSUME NEW k \in DOMAIN searched PROVE OfferedOf(files[k]) = Windows(searched[k].lines)
      <3>1. k = at \/ k < at
        BY <1>2
      <3> HIDE DEF OfferedOf, Windows
      <3> QED BY <1>2, <1>4, <3>1 DEF RowsInv, SourcesComplete
    <2>3. ASSUME NEW k \in DOMAIN searched PROVE OfferedOf(files[k])' = Windows(searched[k].lines)'
      <3>1. OfferedOf(files[k])' = OfferedOf(files[k])
        BY <1>1 DEF OfferedOf
      <3>2. Windows(searched[k].lines)' = Windows(searched[k].lines)
        BY <1>1 DEF Windows, Selected
      <3> QED BY <2>2, <3>1, <3>2
    <2> HIDE DEF OfferedOf, Windows
    <2> QED BY <1>1, <2>3 DEF SourcesComplete
  <1>6. SourcesDistinct' /\ OfferedInOrder'
    BY <1>1 DEF RowsInv, SourcesDistinct, OfferedInOrder, Precedes
  <1> QED BY <1>1, <1>2, <1>5, <1>6 DEF RowsInv

LEMMA RowsRefused ==
  ASSUME Typed, RowsInv, RowRefused
  PROVE  RowsInv'
  <1>1. /\ pc = "emit" /\ todo # <<>> /\ Head(todo).what = "row" /\ AtLimit
        /\ offered' = Append(offered, Head(todo).row) /\ truncated' = TRUE
        /\ UNCHANGED <<opts, files, searched>>
    BY DEF RowRefused, Emitting, WriteLine, Return, worldVars
  <1>2. OfferedInOrder' /\ \A k \in DOMAIN searched : OfferedOf(files[k])' \subseteq Windows(searched[k].lines)'
    BY <1>1, RowOffered
  <1>3. SourcesComplete'
    <2> HIDE DEF OfferedOf, Windows
    <2> QED BY <1>1, <1>2 DEF SourcesComplete
  <1>4. SourcesDistinct'
    BY <1>1 DEF RowsInv, SourcesDistinct
  <1>5. pc' = "done" \/ (pc' = "search" /\ at' > Len(files'))
    <2>1. CASE files[at] # Stdin
      BY <2>1 DEF RowRefused, Return
    <2>2. CASE files[at] = Stdin
      <3>1. at \in DOMAIN files /\ at \in Nat /\ Len(files) \in Nat
        <4>1. at \in 1 .. Len(files) + 1 /\ at <= Len(files) /\ files \in Seq(DOMAIN tree)
          BY <1>1 DEF Typed, Placed
        <4> QED BY <4>1
      <3>2. at = Len(files)
        BY <2>2, <3>1 DEF RowsInv, SourcesDistinct
      <3> QED BY <1>1, <2>2, <3>1, <3>2 DEF RowRefused
    <2> QED BY <2>1, <2>2
  <1> QED BY <1>2, <1>3, <1>4, <1>5 DEF RowsInv

LEMMA OptionsKept ==
  ASSUME [GrepNext]_grepVars
  PROVE  opts' = opts
  BY DEF GrepNext, Collect, SkipFile, SearchFails, SearchHits, ShowLine, NextMatch, EmitDecoration, EmitRow,
         RowRefused, SourceEmitted, Finish, BrokenPipe, Done, Change, Leave, Return, worldVars, grepVars

LEMMA RowsStep ==
  ASSUME Typed, RowsHold, [GrepNext]_grepVars
  PROVE  RowsHold'
  <1>1. opts' = opts
    BY OptionsKept
  <1> SUFFICES ASSUME RowsInv, opts.mode = "rows" PROVE RowsInv'
    BY <1>1 DEF RowsHold
  <1>2. CASE SearchFails \/ BrokenPipe \/ Finish
    <2>1. PICK result : Return(result) /\ pc # "collect" /\ UNCHANGED writerAll
      BY <1>2 DEF SearchFails, BrokenPipe, Finish, Searching, Emitting
    <2> QED BY <2>1, RowsKept DEF Return, worldVars, writerAll, writerVars
  <1>3. ASSUME NEW p, NEW content, Change(p, content) PROVE RowsInv'
    BY <1>3, RowsKept DEF Change, runVars, writerAll, writerVars
  <1>4. CASE Leave \/ Done \/ UNCHANGED grepVars
    <2>1. UNCHANGED <<opts, runVars, writerVars>>
      BY <1>4 DEF Leave, CloseReader, Done, grepVars, worldVars, writerAll
    <2>2. CASE pc = "collect"
      <3>1. SourcesDistinct' /\ OfferedInOrder'
        BY <2>1 DEF RowsInv, SourcesDistinct, OfferedInOrder, Precedes, runVars, writerVars
      <3>2. SourcesComplete'
        BY <2>1, OfferedKept, WindowsKept DEF RowsInv, SourcesComplete, runVars, writerVars
      <3> QED BY <2>1, <2>2, <3>1, <3>2 DEF RowsInv, runVars, writerVars
    <2>3. CASE pc # "collect"
      BY <2>1, <2>3, RowsKept DEF runVars, writerVars
    <2> QED BY <2>2, <2>3
  <1> QED BY <1>2, <1>3, <1>4, RowsCollected, RowsSkipped, RowsLaidOut, RowsShown, RowsNext, RowsEmitted,
             RowsRefused, RowsPassed DEF GrepNext

LEMMA RowsAreComplete ==
  ASSUME Typed, RowsHold
  PROVE  RowsComplete
  <1> SUFFICES ASSUME opts.mode = "rows", RowsInv PROVE RowsComplete
    BY DEF RowsHold, RowsComplete
  <1>1. /\ searched \in Seq(ContentType) /\ DOMAIN searched = 1 .. Len(searched) /\ Len(searched) \in Nat
        /\ offered \in Seq(Row) /\ DOMAIN offered = 1 .. Len(offered) /\ Len(offered) \in Nat
        /\ files \in Seq(DOMAIN tree) /\ DOMAIN files \subseteq Nat
    BY DEF Typed, WriterTypeOK
  <1>2. \A k \in DOMAIN files : \A s : s = files[k] => IndexOf(s) = k
    BY DEF IndexOf, RowsInv, SourcesDistinct
  <1>3. ASSUME NEW i \in 1 .. Len(offered) - 1
        PROVE  \/ IndexOf(offered[i].src) < IndexOf(offered[i + 1].src)
               \/ /\ offered[i].src = offered[i + 1].src
                  /\ offered[i].num < offered[i + 1].num
    <2>1. i \in DOMAIN offered /\ i + 1 \in DOMAIN offered /\ i < i + 1
      BY <1>1
    <2>2. Precedes(offered[i], offered[i + 1])
      BY <2>1 DEF RowsInv, OfferedInOrder
    <2>3. PICK k \in DOMAIN files, l \in DOMAIN files :
            /\ offered[i].src = files[k] /\ offered[i + 1].src = files[l]
            /\ (k < l \/ (k = l /\ offered[i].num < offered[i + 1].num))
      BY <2>2 DEF Precedes
    <2>4. IndexOf(offered[i].src) = k /\ IndexOf(offered[i + 1].src) = l
      BY <1>2, <2>3
    <2> QED BY <2>3, <2>4
  <1> HIDE DEF OfferedOf, Windows, IndexOf
  <1> QED BY <1>1, <1>3 DEF RowsComplete, RowsInv, SourcesComplete

(* In whatever way windows overlap and files change, every file searched   *)
(* has exactly the lines near its matches as rows, each once and in order, *)
(* until a limit withholds one (search_reader_lines in src/fs/grep.rs).    *)
THEOREM RowsAreAllThere == GrepSpec => []RowsComplete
  <1>1. GrepInit => Typed /\ RowsHold
    BY GrepStarts, RowsStart
  <1>2. Typed /\ RowsHold /\ [GrepNext]_grepVars => Typed' /\ RowsHold'
    BY TypesKept, RowsStep
  <1>3. Typed /\ RowsHold => RowsComplete
    BY RowsAreComplete
  <1> QED BY <1>1, <1>2, <1>3, PTL DEF GrepSpec

-----------------------------------------------------------------------------
(* Separators and headings.                                                *)

(* What was printed, and what is left to print after it.                   *)
PrintedItems ==
  [i \in DOMAIN stdout |-> [what |-> IF stdout[i].row = 0 THEN "deco" ELSE "row", row |-> stdout[i].text]]
Stream == PrintedItems \o todo

RowAt(s, i) == s[i].what = "row"
DecoAt(s, i, kind) == s[i].what = "deco" /\ s[i].row.kind = kind

(* Between two neighbouring rows of a file there is a separator exactly    *)
(* when context was asked for and lines are missing.                       *)
Marked(s, near) ==
  \A i, j \in DOMAIN s :
    (/\ i < j /\ RowAt(s, i) /\ RowAt(s, j)
     /\ s[i].row.src = s[j].row.src
     /\ \A m \in i + 1 .. j - 1 : ~RowAt(s, m))
    => ((\E m \in i + 1 .. j - 1 : DecoAt(s, m, "sep")) <=> near /\ s[j].row.num > s[i].row.num + 1)

UnderHeading(s, i, src) ==
  \E h \in 1 .. i - 1 :
    /\ DecoAt(s, h, "heading") /\ s[h].row.src = src
    /\ \A m \in h + 1 .. i - 1 : ~DecoAt(s, m, "heading")

Headed(s) == \A i \in DOMAIN s : RowAt(s, i) => UnderHeading(s, i, s[i].row.src)

(* The rows of s belong to the files of srcs.                              *)
RowsFrom(s, srcs) == \A i \in DOMAIN s : RowAt(s, i) => s[i].row.src \in srcs

(* The last item is the row shown last of src; none of it was, before.     *)
EndsWith(s, src, last) ==
  IF last = 0 THEN \A i \in DOMAIN s : RowAt(s, i) => s[i].row.src # src
  ELSE /\ s # <<>> /\ RowAt(s, Len(s))
       /\ s[Len(s)].row.src = src /\ s[Len(s)].row.num = last

Near == opts.before + opts.after > 0
Sources == {files[l] : l \in DOMAIN searched}

MarksInv ==
  /\ Marked(PrintedItems, Near) /\ (multi_file => Headed(PrintedItems))
  /\ pc = "collect" => stdout = <<>>
  /\ pc = "search" => RowsFrom(PrintedItems, Sources)
  /\ pc \in {"show", "emit"} =>
       /\ Marked(Stream, Near) /\ (multi_file => Headed(Stream))
       /\ RowsFrom(Stream, Sources)
  /\ pc = "show" =>
       /\ EndsWith(Stream, files[at], last_shown)
       /\ multi_file => UnderHeading(Stream, Len(Stream) + 1, files[at])

MarksHold == opts.mode = "rows" /\ opts.heading => MarksInv

LEMMA MoreItems ==
  ASSUME NEW s \in Seq(ItemType), NEW item \in ItemType
  PROVE  /\ Append(s, item) \in Seq(ItemType) /\ Len(s) \in Nat /\ Len(Append(s, item)) = Len(s) + 1
         /\ DOMAIN s = 1 .. Len(s) /\ DOMAIN Append(s, item) = 1 .. Len(s) + 1
         /\ \A i \in 1 .. Len(s) : Append(s, item)[i] = s[i] /\ i # Len(s) + 1 /\ i \in 1 .. Len(s) + 1
         /\ Append(s, item)[Len(s) + 1] = item /\ Len(s) + 1 \in 1 .. Len(s) + 1
         /\ \A i \in 1 .. Len(s) + 1 : i \in 1 .. Len(s) \/ i = Len(s) + 1
  OBVIOUS

(* What holds of printed items holds of the first of them.                 *)
LEMMA FirstItems ==
  ASSUME NEW s \in Seq(ItemType), NEW r \in Seq(ItemType), NEW near, NEW srcs
  PROVE  /\ Marked(s \o r, near) => Marked(s, near)
         /\ Headed(s \o r) => Headed(s)
         /\ RowsFrom(s \o r, srcs) => RowsFrom(s, srcs)
  <1> DEFINE t == s \o r
  <1>1. /\ DOMAIN s = 1 .. Len(s) /\ Len(s) \in Nat
        /\ \A i \in 1 .. Len(s) : t[i] = s[i] /\ i \in DOMAIN t
    OBVIOUS
  <1>2. \A i, j \in 1 .. Len(s) : \A m \in i + 1 .. j - 1 : m \in 1 .. Len(s)
    BY <1>1
  <1>3. \A i \in 1 .. Len(s) : \A h \in 1 .. i - 1 : \A m \in h + 1 .. i - 1 : h \in 1 .. Len(s) /\ m \in 1 .. Len(s)
    BY <1>1
  <1>4. \A i \in 1 .. Len(s) : \A h \in 1 .. i - 1 : h \in 1 .. Len(s)
    BY <1>1
  <1> HIDE DEF t
  <1>5. Marked(t, near) => Marked(s, near)
    BY <1>1, <1>2, SMTT(30) DEF Marked, RowAt, DecoAt
  <1>6. Headed(t) => Headed(s)
    <2> SUFFICES ASSUME Headed(t), NEW i \in 1 .. Len(s), RowAt(s, i) PROVE UnderHeading(s, i, s[i].row.src)
      BY <1>1 DEF Headed
    <2>1. UnderHeading(t, i, s[i].row.src)
      BY <1>1 DEF Headed, RowAt
    <2> QED BY <1>1, <1>3, <1>4, <2>1 DEF UnderHeading, DecoAt
  <1>7. RowsFrom(t, srcs) => RowsFrom(s, srcs)
    BY <1>1 DEF RowsFrom, RowAt
  <1> QED BY <1>5, <1>6, <1>7 DEF t

(* A decoration more.                                                      *)
LEMMA DecoMore ==
  ASSUME NEW s \in Seq(ItemType), NEW item \in ItemType, item.what = "deco", NEW near, NEW srcs, NEW src
  PROVE  /\ Marked(s, near) => Marked(Append(s, item), near)
         /\ Headed(s) => Headed(Append(s, item))
         /\ RowsFrom(s, srcs) => RowsFrom(Append(s, item), srcs)
         /\ UnderHeading(s, Len(s) + 1, src) /\ item.row.kind # "heading"
              => UnderHeading(Append(s, item), Len(s) + 2, src)
         /\ item.row.kind = "heading" /\ item.row.src = src => UnderHeading(Append(s, item), Len(s) + 2, src)
  <1> DEFINE t == Append(s, item)
             n == Len(s) + 1
  <1>1. /\ DOMAIN s = 1 .. Len(s) /\ DOMAIN t = 1 .. n /\ Len(s) \in Nat
        /\ \A i \in 1 .. Len(s) : t[i] = s[i] /\ i # n /\ i \in 1 .. n
        /\ t[n] = item /\ n \in 1 .. n
        /\ \A i \in 1 .. n : i \in 1 .. Len(s) \/ i = n
    BY MoreItems
  <1>2. \A i, j \in 1 .. Len(s) : \A m \in i + 1 .. j - 1 : m \in 1 .. Len(s)
    BY <1>1
  <1>3. \A i \in 1 .. Len(s) : \A h \in 1 .. i - 1 : \A m \in h + 1 .. i - 1 : h \in 1 .. Len(s) /\ m \in 1 .. Len(s)
    BY <1>1
  <1>4. \A i \in 1 .. Len(s) : \A h \in 1 .. i - 1 : h \in 1 .. Len(s)
    BY <1>1
  <1>5. /\ n \in Nat /\ n = Len(s) + 1 /\ Len(s) + 2 = n + 1 /\ (n + 1) - 1 = n /\ n - 1 = Len(s)
        /\ \A h \in 1 .. Len(s) : \A m \in h + 1 .. n : m = n \/ m \in h + 1 .. n - 1
        /\ \A h \in 1 .. Len(s) : \A m \in h + 1 .. n - 1 : m \in 1 .. Len(s)
        /\ \A m \in n + 1 .. n : FALSE
    BY <1>1
  <1> HIDE DEF t, n
  <1>6. ~RowAt(t, n)
    BY <1>1 DEF RowAt
  <1>7. Marked(s, near) => Marked(t, near)
    <2> SUFFICES ASSUME Marked(s, near) PROVE Marked(t, near)
      OBVIOUS
    <2>1. \A i \in DOMAIN t : RowAt(t, i) => i \in 1 .. Len(s) /\ RowAt(s, i) /\ t[i] = s[i]
      BY <1>1, <1>6 DEF RowAt
    <2>2. \A i, j \in 1 .. Len(s) : \A m \in i + 1 .. j - 1 : t[m] = s[m]
      BY <1>1, <1>2
    <2>3. \A i, j \in 1 .. Len(s) : \A m \in i + 1 .. j - 1 :
            (RowAt(t, m) <=> RowAt(s, m)) /\ (DecoAt(t, m, "sep") <=> DecoAt(s, m, "sep"))
      BY <2>2 DEF RowAt, DecoAt
    <2> SUFFICES ASSUME NEW i \in DOMAIN t, NEW j \in DOMAIN t, i < j, RowAt(t, i), RowAt(t, j),
                        t[i].row.src = t[j].row.src, \A m \in i + 1 .. j - 1 : ~RowAt(t, m)
                 PROVE  (\E m \in i + 1 .. j - 1 : DecoAt(t, m, "sep"))
                          <=> near /\ t[j].row.num > t[i].row.num + 1
      BY DEF Marked
    <2>4. /\ i \in DOMAIN s /\ j \in DOMAIN s /\ RowAt(s, i) /\ RowAt(s, j) /\ t[i] = s[i] /\ t[j] = s[j]
          /\ \A m \in i + 1 .. j - 1 : ~RowAt(s, m)
      BY <1>1, <2>1, <2>3
    <2>5. (\E m \in i + 1 .. j - 1 : DecoAt(s, m, "sep")) <=> near /\ s[j].row.num > s[i].row.num + 1
      BY <2>4 DEF Marked
    <2> QED BY <1>1, <2>3, <2>4, <2>5
  <1>8. Headed(s) => Headed(t)
    <2> SUFFICES ASSUME Headed(s), NEW i \in 1 .. n, RowAt(t, i) PROVE UnderHeading(t, i, t[i].row.src)
      BY <1>1 DEF Headed
    <2>1. i \in 1 .. Len(s) /\ UnderHeading(s, i, t[i].row.src)
      BY <1>1, <1>6 DEF Headed, RowAt
    <2> QED BY <1>1, <1>3, <1>4, <2>1 DEF UnderHeading, DecoAt
  <1>9. RowsFrom(s, srcs) => RowsFrom(t, srcs)
    BY <1>1, <1>6 DEF RowsFrom, RowAt
  <1>10. UnderHeading(s, n, src) /\ item.row.kind # "heading" => UnderHeading(t, n + 1, src)
    <2> SUFFICES ASSUME UnderHeading(s, n, src), item.row.kind # "heading" PROVE UnderHeading(t, n + 1, src)
      OBVIOUS
    <2>1. PICK h \in 1 .. Len(s) : /\ DecoAt(s, h, "heading") /\ s[h].row.src = src
                                   /\ \A m \in h + 1 .. n - 1 : ~DecoAt(s, m, "heading")
      BY <1>5 DEF UnderHeading
    <2>2. h \in 1 .. n /\ DecoAt(t, h, "heading") /\ t[h].row.src = src
      BY <1>1, <2>1 DEF DecoAt
    <2>3. \A m \in h + 1 .. n : ~DecoAt(t, m, "heading")
      BY <1>1, <1>5, <2>1 DEF DecoAt
    <2> QED BY <1>5, <2>2, <2>3 DEF UnderHeading
  <1>11. item.row.kind = "heading" /\ item.row.src = src => UnderHeading(t, n + 1, src)
    BY <1>1, <1>5 DEF UnderHeading, DecoAt
  <1> QED BY <1>5, <1>7, <1>8, <1>9, <1>10, <1>11 DEF t, n

(* A row more below its heading.                                           *)
LEMMA RowMore ==
  ASSUME NEW s \in Seq(ItemType), NEW item \in ItemType, item.what = "row", NEW srcs, item.row.src \in srcs
  PROVE  /\ Headed(s) /\ UnderHeading(s, Len(s) + 1, item.row.src)
              => /\ Headed(Append(s, item))
                 /\ UnderHeading(Append(s, item), Len(s) + 2, item.row.src)
         /\ RowsFrom(s, srcs) => RowsFrom(Append(s, item), srcs)
         /\ item.row.num # 0 => EndsWith(Append(s, item), item.row.src, item.row.num)
  <1> DEFINE t == Append(s, item)
             n == Len(s) + 1
             src == item.row.src
  <1>1. /\ DOMAIN s = 1 .. Len(s) /\ DOMAIN t = 1 .. n /\ Len(s) \in Nat
        /\ \A i \in 1 .. Len(s) : t[i] = s[i] /\ i # n /\ i \in 1 .. n
        /\ t[n] = item /\ n \in 1 .. n /\ Len(t) = n /\ t # <<>>
        /\ \A i \in 1 .. n : i \in 1 .. Len(s) \/ i = n
    <2>1. DOMAIN t # {}
      BY MoreItems
    <2>2. t # <<>>
      BY <2>1
    <2> QED BY <2>2, MoreItems
  <1>3. \A i \in 1 .. Len(s) : \A h \in 1 .. i - 1 : \A m \in h + 1 .. i - 1 : h \in 1 .. Len(s) /\ m \in 1 .. Len(s)
    BY <1>1
  <1>4. \A i \in 1 .. Len(s) : \A h \in 1 .. i - 1 : h \in 1 .. Len(s)
    BY <1>1
  <1>5. /\ n \in Nat /\ n = Len(s) + 1 /\ Len(s) + 2 = n + 1 /\ (n + 1) - 1 = n /\ n - 1 = Len(s)
        /\ \A h \in 1 .. Len(s) : \A m \in h + 1 .. n : m = n \/ m \in h + 1 .. n - 1
        /\ \A h \in 1 .. Len(s) : \A m \in h + 1 .. n - 1 : m \in 1 .. Len(s)
    BY <1>1
  <1> HIDE DEF t, n
  <1>6. ASSUME Headed(s), UnderHeading(s, n, src) PROVE Headed(t) /\ UnderHeading(t, n + 1, src)
    <2>1. PICK h \in 1 .. Len(s) : /\ DecoAt(s, h, "heading") /\ s[h].row.src = src
                                   /\ \A m \in h + 1 .. n - 1 : ~DecoAt(s, m, "heading")
      BY <1>5, <1>6 DEF UnderHeading
    <2>2. h \in 1 .. n /\ h \in 1 .. n - 1 /\ DecoAt(t, h, "heading") /\ t[h].row.src = src
      BY <1>1, <1>5, <2>1 DEF DecoAt
    <2>3. \A m \in h + 1 .. n - 1 : ~DecoAt(t, m, "heading")
      BY <1>1, <1>5, <2>1 DEF DecoAt
    <2>4. \A m \in h + 1 .. n : ~DecoAt(t, m, "heading")
      BY <1>1, <1>5, <2>3 DEF DecoAt
    <2>5. UnderHeading(t, n, src) /\ UnderHeading(t, n + 1, src)
      BY <1>5, <2>2, <2>3, <2>4 DEF UnderHeading
    <2>6. ASSUME NEW i \in 1 .. Len(s), RowAt(t, i) PROVE UnderHeading(t, i, t[i].row.src)
      <3>1. UnderHeading(s, i, t[i].row.src)
        BY <1>1, <1>6, <2>6 DEF Headed, RowAt
      <3> QED BY <1>1, <1>3, <1>4, <3>1 DEF UnderHeading, DecoAt
    <2> QED BY <1>1, <2>5, <2>6 DEF Headed
  <1>7. RowsFrom(s, srcs) => RowsFrom(t, srcs)
    BY <1>1 DEF RowsFrom, RowAt
  <1>8. item.row.num # 0 => EndsWith(t, src, item.row.num)
    BY <1>1 DEF EndsWith, RowAt
  <1> QED BY <1>5, <1>6, <1>7, <1>8 DEF t, n

(* The places between two of the first l, and between those and the next.  *)
LEMMA PlacesBetween ==
  ASSUME NEW l \in Nat
  PROVE  /\ \A i, j \in 1 .. l : \A m \in i + 1 .. j - 1 : m \in 1 .. l
         /\ \A i \in 1 .. l + 1, j \in 1 .. l + 1 : i < j => i \in 1 .. l
         /\ \A i \in 1 .. l : i < l => l \in i + 1 .. (l + 1) - 1 /\ l \in i + 1 .. (l + 2) - 1
         /\ \A i : i = l => l + 1 \in i + 1 .. (l + 2) - 1 /\ \A m \in i + 1 .. (l + 1) - 1 : FALSE
         /\ \A i \in 1 .. l : i = l \/ i < l
  <1>1. \A i, j \in 1 .. l : \A m \in i + 1 .. j - 1 : m \in 1 .. l
    OBVIOUS
  <1>2. \A i \in 1 .. l + 1, j \in 1 .. l + 1 : i < j => i \in 1 .. l
    OBVIOUS
  <1>3. \A i \in 1 .. l : i < l => l \in i + 1 .. (l + 1) - 1 /\ l \in i + 1 .. (l + 2) - 1
    OBVIOUS
  <1>4. l + 1 \in l + 1 .. (l + 2) - 1 /\ \A m \in l + 1 .. (l + 1) - 1 : FALSE
    OBVIOUS
  <1>5. \A i \in 1 .. l : i = l \/ i < l
    OBVIOUS
  <1> QED BY <1>1, <1>2, <1>3, <1>4, <1>5

(* The next row, right behind the one before it or behind a separator.     *)
LEMMA RowBehind ==
  ASSUME NEW s \in Seq(ItemType), NEW item \in ItemType, item.what = "row", NEW near, NEW last \in Nat,
         Marked(s, near), EndsWith(s, item.row.src, last),
         last # 0 => ~(near /\ item.row.num > last + 1)
  PROVE  Marked(Append(s, item), near)
  <1> DEFINE t == Append(s, item)
             n == Len(s) + 1
  <1>1. /\ DOMAIN s = 1 .. Len(s) /\ DOMAIN t = 1 .. n /\ Len(s) \in Nat
        /\ \A i \in 1 .. Len(s) : t[i] = s[i] /\ i # n /\ i \in 1 .. n
        /\ t[n] = item /\ n \in 1 .. n
        /\ \A i \in 1 .. n : i \in 1 .. Len(s) \/ i = n
    BY MoreItems, SMTT(30)
  <1>2. /\ \A i, j \in 1 .. Len(s) : \A m \in i + 1 .. j - 1 : m \in 1 .. Len(s)
        /\ \A i \in 1 .. n, j \in 1 .. n : i < j => i \in 1 .. Len(s)
        /\ \A i \in 1 .. Len(s) : i < Len(s) => Len(s) \in i + 1 .. n - 1
        /\ \A i : i = Len(s) => \A m \in i + 1 .. n - 1 : FALSE
        /\ \A i \in 1 .. Len(s) : i = Len(s) \/ i < Len(s)
    BY <1>1, PlacesBetween
  <1> HIDE DEF t, n
  <1> SUFFICES ASSUME NEW i \in DOMAIN t, NEW j \in DOMAIN t, i < j, RowAt(t, i), RowAt(t, j),
                      t[i].row.src = t[j].row.src, \A m \in i + 1 .. j - 1 : ~RowAt(t, m)
               PROVE  (\E m \in i + 1 .. j - 1 : DecoAt(t, m, "sep"))
                        <=> near /\ t[j].row.num > t[i].row.num + 1
    BY SMTT(30) DEF Marked, t
  <1>3. CASE j \in 1 .. Len(s)
    <2>1. i \in 1 .. Len(s)
      BY <1>1, <1>2, <1>3, ZenonT(60)
    <2>2. \A m \in i + 1 .. j - 1 : t[m] = s[m]
      BY <1>1, <1>2, <1>3, <2>1
    <2>3. \A m \in i + 1 .. j - 1 : (RowAt(t, m) <=> RowAt(s, m)) /\ (DecoAt(t, m, "sep") <=> DecoAt(s, m, "sep"))
      BY <2>2 DEF RowAt, DecoAt
    <2>4. /\ i \in DOMAIN s /\ j \in DOMAIN s /\ RowAt(s, i) /\ RowAt(s, j) /\ t[i] = s[i] /\ t[j] = s[j]
          /\ \A m \in i + 1 .. j - 1 : ~RowAt(s, m)
      BY <1>1, <1>3, <2>1, <2>3 DEF RowAt
    <2>5. (\E m \in i + 1 .. j - 1 : DecoAt(s, m, "sep")) <=> near /\ s[j].row.num > s[i].row.num + 1
      BY <2>4 DEF Marked
    <2> QED BY <2>3, <2>4, <2>5
  <1>4. CASE j = n
    <2>1. i \in 1 .. Len(s) /\ t[i] = s[i] /\ RowAt(s, i) /\ s[i].row.src = item.row.src /\ t[j] = item
      BY <1>1, <1>4 DEF RowAt
    <2>2. last # 0 /\ RowAt(s, Len(s)) /\ s[Len(s)].row.num = last
      BY <1>1, <2>1 DEF EndsWith
    <2>3. Len(s) \in 1 .. Len(s)
      BY <1>1, <2>1
    <2>4. i = Len(s)
      <3>1. RowAt(t, Len(s))
        BY <1>1, <2>2, <2>3 DEF RowAt
      <3> QED BY <1>2, <1>4, <2>1, <3>1
    <2>5. ~(\E m \in i + 1 .. j - 1 : DecoAt(t, m, "sep"))
      BY <1>2, <1>4, <2>4
    <2>6. ~(near /\ t[j].row.num > t[i].row.num + 1)
      BY <2>1, <2>2, <2>4
    <2> QED BY <2>5, <2>6
  <1> QED BY <1>1, <1>3, <1>4

LEMMA RowBehindGap ==
  ASSUME NEW s \in Seq(ItemType), NEW sep \in ItemType, NEW item \in ItemType, item.what = "row", NEW near, NEW last \in Nat,
         sep.what = "deco", sep.row.kind = "sep",
         Marked(s, near), EndsWith(s, item.row.src, last), last # 0, near, item.row.num > last + 1
  PROVE  Marked(Append(Append(s, sep), item), near)
  <1> DEFINE t == Append(s, sep)
             u == Append(t, item)
             n == Len(s) + 1
             o == n + 1
  <1>1. /\ DOMAIN s = 1 .. Len(s) /\ DOMAIN t = 1 .. n /\ Len(s) \in Nat /\ Len(t) = n /\ t \in Seq(ItemType)
        /\ \A i \in 1 .. Len(s) : t[i] = s[i] /\ i # n /\ i \in 1 .. n
        /\ t[n] = sep /\ n \in 1 .. n
        /\ \A i \in 1 .. n : i \in 1 .. Len(s) \/ i = n
    BY MoreItems
  <1> HIDE DEF t
  <1>2. /\ DOMAIN u = 1 .. o
        /\ \A i \in 1 .. n : u[i] = t[i] /\ i # o /\ i \in 1 .. o
        /\ u[o] = item /\ o \in 1 .. o
        /\ \A i \in 1 .. o : i \in 1 .. n \/ i = o
    <2>1. /\ DOMAIN t = 1 .. Len(t) /\ DOMAIN u = 1 .. Len(t) + 1
          /\ \A i \in 1 .. Len(t) : u[i] = t[i] /\ i # Len(t) + 1 /\ i \in 1 .. Len(t) + 1
          /\ u[Len(t) + 1] = item /\ Len(t) + 1 \in 1 .. Len(t) + 1
          /\ \A i \in 1 .. Len(t) + 1 : i \in 1 .. Len(t) \/ i = Len(t) + 1
      BY <1>1, MoreItems
    <2> QED BY <1>1, <2>1
  <1>3. /\ \A i, j \in 1 .. n : \A m \in i + 1 .. j - 1 : m \in 1 .. n
        /\ \A i \in 1 .. o, j \in 1 .. o : i < j => i \in 1 .. n
        /\ \A i \in 1 .. Len(s) : i < Len(s) => Len(s) \in i + 1 .. o - 1
        /\ \A i : i = Len(s) => n \in i + 1 .. o - 1
        /\ \A i \in 1 .. Len(s) : i = Len(s) \/ i < Len(s)
    <2>1. n \in Nat /\ o = n + 1 /\ n = Len(s) + 1 /\ o \in Nat /\ o = Len(s) + 2
      BY <1>1
    <2> HIDE DEF n, o
    <2>2. \A i, j \in 1 .. n : \A m \in i + 1 .. j - 1 : m \in 1 .. n
      BY <2>1, PlacesBetween
    <2>3. \A i \in 1 .. o, j \in 1 .. o : i < j => i \in 1 .. n
      BY <2>1, PlacesBetween
    <2>4. /\ \A i \in 1 .. Len(s) : i < Len(s) => Len(s) \in i + 1 .. o - 1
          /\ \A i : i = Len(s) => n \in i + 1 .. o - 1
          /\ \A i \in 1 .. Len(s) : i = Len(s) \/ i < Len(s)
      <3>1. \A i \in 1 .. Len(s) : i < Len(s) => Len(s) \in i + 1 .. o - 1
        BY <1>1, <2>1, SMTT(30)
      <3>2. \A i : i = Len(s) => n \in i + 1 .. o - 1
        BY <1>1, <2>1, SMTT(30)
      <3>3. \A i \in 1 .. Len(s) : i = Len(s) \/ i < Len(s)
        BY <1>1, PlacesBetween
      <3> QED BY <3>1, <3>2, <3>3
    <2> QED BY <2>2, <2>3, <2>4
  <1>4. Marked(t, near)
    BY DecoMore DEF t
  <1> HIDE DEF u, n, o
  <1> SUFFICES ASSUME NEW i \in DOMAIN u, NEW j \in DOMAIN u, i < j, RowAt(u, i), RowAt(u, j),
                      u[i].row.src = u[j].row.src, \A m \in i + 1 .. j - 1 : ~RowAt(u, m)
               PROVE  (\E m \in i + 1 .. j - 1 : DecoAt(u, m, "sep"))
                        <=> near /\ u[j].row.num > u[i].row.num + 1
    BY DEF Marked, u, t
  <1>5. CASE j \in 1 .. n
    <2>1. i \in 1 .. n
      BY <1>2, <1>3, <1>5
    <2>2. \A m \in i + 1 .. j - 1 : u[m] = t[m]
      BY <1>2, <1>3, <1>5, <2>1
    <2>3. \A m \in i + 1 .. j - 1 : (RowAt(u, m) <=> RowAt(t, m)) /\ (DecoAt(u, m, "sep") <=> DecoAt(t, m, "sep"))
      BY <2>2 DEF RowAt, DecoAt
    <2>4. /\ i \in DOMAIN t /\ j \in DOMAIN t /\ RowAt(t, i) /\ RowAt(t, j) /\ u[i] = t[i] /\ u[j] = t[j]
          /\ \A m \in i + 1 .. j - 1 : ~RowAt(t, m)
      BY <1>1, <1>2, <1>5, <2>1, <2>3 DEF RowAt
    <2>5. (\E m \in i + 1 .. j - 1 : DecoAt(t, m, "sep")) <=> near /\ t[j].row.num > t[i].row.num + 1
      BY <1>4, <2>4 DEF Marked
    <2> QED BY <2>3, <2>4, <2>5
  <1>6. CASE j = o
    <2>1. i \in 1 .. Len(s) /\ u[i] = s[i] /\ RowAt(s, i) /\ u[j] = item
      BY <1>1, <1>2, <1>3, <1>6, ZenonT(60) DEF RowAt
    <2>2. RowAt(s, Len(s)) /\ s[Len(s)].row.num = last
      BY DEF EndsWith
    <2>3. Len(s) \in 1 .. Len(s)
      BY <1>1, <2>1
    <2>4. i = Len(s)
      <3>1. RowAt(u, Len(s))
        BY <1>1, <1>2, <2>2, <2>3 DEF RowAt
      <3> QED BY <1>3, <1>6, <2>1, <3>1
    <2>5. \E m \in i + 1 .. j - 1 : DecoAt(u, m, "sep")
      <3>1. n \in i + 1 .. j - 1 /\ u[n] = sep
        BY <1>1, <1>2, <1>3, <1>6, <2>4
      <3> QED BY <3>1 DEF DecoAt
    <2>6. near /\ u[j].row.num > u[i].row.num + 1
      BY <2>1, <2>2, <2>4
    <2> QED BY <2>5, <2>6
  <1> QED BY <1>2, <1>5, <1>6

(* What was printed are items, and printing one moves it there.            *)
LEMMA PrintedTyped ==
  ASSUME Typed
  PROVE  /\ PrintedItems \in Seq(ItemType) /\ todo \in Seq(ItemType) /\ Stream \in Seq(ItemType)
         /\ Len(PrintedItems) = Len(stdout) /\ DOMAIN PrintedItems = DOMAIN stdout
         /\ DOMAIN stdout = 1 .. Len(stdout) /\ Len(stdout) \in Nat
  <1>1. stdout \in Seq(Entry) /\ DOMAIN stdout = 1 .. Len(stdout) /\ Len(stdout) \in Nat
    BY DEF Typed, WriterTypeOK
  <1>2. \A i \in 1 .. Len(stdout) : stdout[i].text \in Row \cup Deco
    <2>1. \A i \in 1 .. Len(stdout) : stdout[i] \in Entry
      BY <1>1
    <2> QED BY <2>1 DEF Entry
  <1>3. PrintedItems \in [1 .. Len(stdout) -> ItemType]
    BY <1>1, <1>2 DEF PrintedItems, ItemType
  <1>4. PrintedItems \in Seq(ItemType) /\ Len(PrintedItems) = Len(stdout)
    BY <1>1, <1>3
  <1>5. todo \in Seq(ItemType)
    <2>1. Item \subseteq ItemType /\ todo \in Seq(Item)
      BY DEF Item, ItemType, Typed
    <2> QED BY <2>1
  <1> HIDE DEF PrintedItems
  <1> QED BY <1>1, <1>3, <1>4, <1>5 DEF Stream

LEMMA MovedAlong ==
  ASSUME NEW s \in Seq(ItemType), NEW t \in Seq(ItemType), t # <<>>
  PROVE  Append(s, Head(t)) \o Tail(t) = s \o t
  <1> DEFINE a == Append(s, Head(t)) \o Tail(t)
             b == s \o t
  <1>1. Len(s) \in Nat /\ Len(t) \in Nat \ {0} /\ Head(t) \in ItemType /\ Tail(t) \in Seq(ItemType)
        /\ Len(Tail(t)) = Len(t) - 1 /\ Head(t) = t[1] /\ \A i \in 1 .. Len(t) - 1 : Tail(t)[i] = t[i + 1]
    OBVIOUS
  <1>2. /\ Append(s, Head(t)) \in Seq(ItemType) /\ Len(Append(s, Head(t))) = Len(s) + 1
        /\ \A i \in 1 .. Len(s) : Append(s, Head(t))[i] = s[i]
        /\ Append(s, Head(t))[Len(s) + 1] = t[1]
    BY <1>1
  <1>3. /\ a \in Seq(ItemType) /\ Len(a) = Len(s) + 1 + (Len(t) - 1)
        /\ \A i \in 1 .. Len(s) + 1 + (Len(t) - 1) :
             a[i] = IF i <= Len(s) + 1 THEN Append(s, Head(t))[i] ELSE Tail(t)[i - (Len(s) + 1)]
    BY <1>1, <1>2, ConcatProperties
  <1>4. /\ b \in Seq(ItemType) /\ Len(b) = Len(s) + Len(t)
        /\ \A i \in 1 .. Len(s) + Len(t) : b[i] = IF i <= Len(s) THEN s[i] ELSE t[i - Len(s)]
    BY ConcatProperties
  <1> HIDE DEF a, b
  <1>5. Len(a) = Len(b)
    BY <1>1, <1>3, <1>4
  <1>6. ASSUME NEW i \in 1 .. Len(a) PROVE a[i] = b[i]
    <2>1. i \in 1 .. Len(s) + Len(t) /\ i \in 1 .. Len(s) + 1 + (Len(t) - 1)
      BY <1>1, <1>3
    <2>2. CASE i <= Len(s)
      <3>1. i \in 1 .. Len(s) /\ i <= Len(s) + 1
        BY <1>1, <2>1, <2>2
      <3> QED BY <1>2, <1>3, <1>4, <2>1, <2>2, <3>1
    <2>3. CASE i = Len(s) + 1
      <3>1. ~(i <= Len(s)) /\ i <= Len(s) + 1 /\ i - Len(s) = 1
        BY <1>1, <2>3
      <3> QED BY <1>2, <1>3, <1>4, <2>1, <2>3, <3>1
    <2>4. CASE i > Len(s) + 1
      <3>1. ~(i <= Len(s)) /\ ~(i <= Len(s) + 1) /\ i - (Len(s) + 1) \in 1 .. Len(t) - 1
            /\ (i - (Len(s) + 1)) + 1 = i - Len(s)
        BY <1>1, <2>1, <2>4
      <3>2. a[i] = Tail(t)[i - (Len(s) + 1)] /\ b[i] = t[i - Len(s)]
        BY <1>3, <1>4, <2>1, <3>1
      <3> QED BY <1>1, <3>1, <3>2
    <2>5. i \in Nat /\ (i <= Len(s) \/ i = Len(s) + 1 \/ i > Len(s) + 1)
      BY <1>1, <2>1
    <2> QED BY <2>2, <2>3, <2>4, <2>5
  <1>7. a = b
    BY <1>3, <1>4, <1>5, <1>6, SeqEqual
  <1> QED BY <1>7 DEF a, b

LEMMA ItemPrinted ==
  ASSUME Typed, EmitRow \/ EmitDecoration, ~truncated
  PROVE  PrintedItems' = Append(PrintedItems, Head(todo)) /\ Stream' = Stream
  <1>1. /\ todo # <<>> /\ todo' = Tail(todo) /\ todo \in Seq(ItemType) /\ PrintedItems \in Seq(ItemType)
        /\ stdout \in Seq(Entry) /\ Len(stdout) \in Nat /\ Len(PrintedItems) = Len(stdout)
        /\ Len(offered) \in Nat
    BY PrintedTyped, SMTT(30) DEF EmitRow, EmitDecoration, Emitting, Typed, WriterTypeOK
  <1>2. Head(todo) \in Item
    BY <1>1 DEF Typed
  <1> DEFINE item(e) == [what |-> IF e.row = 0 THEN "deco" ELSE "row", row |-> e.text]
  <1>3. PICK e : stdout' = Append(stdout, e) /\ item(e) = Head(todo)
    <2>1. CASE EmitRow
      <3>1. /\ Head(todo).what = "row" /\ offered' = Append(offered, Head(todo).row)
            /\ stdout' = Append(stdout, [row |-> Len(offered'), text |-> Head(todo).row])
        BY <2>1 DEF EmitRow, WriteLine
      <3>2. Len(offered') = Len(offered) + 1
        <4>1. offered \in Seq(Row)
          BY DEF Typed, WriterTypeOK
        <4> QED BY <3>1, <4>1
      <3>3. Len(offered') # 0
        BY <1>1, <3>2
      <3>4. Head(todo) = [what |-> "row", row |-> Head(todo).row]
        BY <1>2, <3>1 DEF Item
      <3> DEFINE e == [row |-> Len(offered'), text |-> Head(todo).row]
      <3>5. item(e) = Head(todo) /\ stdout' = Append(stdout, e)
        BY <3>1, <3>3, <3>4
      <3> QED BY <3>5
    <2>2. CASE EmitDecoration
      <3>1. /\ Head(todo).what = "deco"
            /\ stdout' = Append(stdout, [row |-> 0, text |-> Head(todo).row])
        BY <2>2 DEF EmitDecoration, WriteDecoration
      <3>2. Head(todo) = [what |-> "deco", row |-> Head(todo).row]
        BY <1>2, <3>1 DEF Item
      <3> DEFINE e == [row |-> 0, text |-> Head(todo).row]
      <3>3. item(e) = Head(todo) /\ stdout' = Append(stdout, e)
        BY <3>1, <3>2
      <3> QED BY <3>3
    <2> QED BY <2>1, <2>2
  <1>4. PrintedItems' = Append(PrintedItems, Head(todo))
    <2> DEFINE n == Len(stdout)
    <2>1. /\ DOMAIN stdout' = 1 .. n + 1 /\ \A i \in 1 .. n : stdout'[i] = stdout[i]
          /\ stdout'[n + 1] = e
      BY <1>1, <1>3
    <2>2. PrintedItems' = [i \in 1 .. n + 1 |-> item(stdout'[i])]
      BY <2>1 DEF PrintedItems
    <2>3. /\ \A i \in 1 .. n : PrintedItems[i] = item(stdout[i])
          /\ DOMAIN stdout = 1 .. n
      BY <1>1 DEF PrintedItems
    <2> DEFINE p == Append(PrintedItems, Head(todo))
    <2>4. /\ p \in [1 .. n + 1 -> ItemType] /\ \A i \in 1 .. n : p[i] = PrintedItems[i]
          /\ p[n + 1] = Head(todo)
      <3> HIDE DEF PrintedItems
      <3>1. Head(todo) \in ItemType /\ Len(PrintedItems) = n
        BY <1>1
      <3>2. /\ p \in Seq(ItemType) /\ Len(p) = n + 1 /\ \A i \in 1 .. n : p[i] = PrintedItems[i]
            /\ p[n + 1] = Head(todo)
        BY <1>1, <3>1, MoreItems
      <3> HIDE DEF p
      <3> QED BY <3>2
    <2> HIDE DEF item, n, p
    <2>5. \A i \in 1 .. n + 1 : p[i] = item(stdout'[i])
      <3>1. n \in Nat /\ \A i \in 1 .. n + 1 : i \in 1 .. n \/ i = n + 1
        BY <1>1 DEF n
      <3> QED BY <1>3, <2>1, <2>3, <2>4, <3>1
    <2> QED BY <2>2, <2>4, <2>5 DEF p
  <1>5. Stream' = PrintedItems' \o todo'
    BY DEF Stream
  <1>6. Append(PrintedItems, Head(todo)) \o Tail(todo) = PrintedItems \o todo
    BY <1>1, MovedAlong
  <1> HIDE DEF PrintedItems
  <1> QED BY <1>1, <1>4, <1>5, <1>6 DEF Stream

(* What the marks depend on besides the items.                             *)
LEMMA SourcesKept ==
  ASSUME UNCHANGED <<opts, files, searched>>
  PROVE  Near' = Near /\ Sources' = Sources /\ multi_file' = multi_file
  BY DEF Near, Sources, multi_file

(* The steps that lay out and print nothing.                               *)
LEMMA MarksKept ==
  ASSUME Typed, MarksInv, UNCHANGED <<opts, files, searched, stdout, at>>, pc # "collect",
         pc' = "done" \/ (pc' = pc /\ UNCHANGED <<windowVars, todo>>)
  PROVE  MarksInv'
  <1>1. Near' = Near /\ Sources' = Sources /\ multi_file' = multi_file /\ PrintedItems' = PrintedItems
    BY SourcesKept DEF PrintedItems
  <1>2. pc' # "done" => Stream' = Stream /\ last_shown' = last_shown
    BY <1>1 DEF Stream, windowVars
  <1> HIDE DEF PrintedItems, Stream, Near, Sources, multi_file
  <1>3. Marked(PrintedItems', Near') /\ (multi_file' => Headed(PrintedItems'))
    BY <1>1 DEF MarksInv
  <1>4. pc' = "search" => RowsFrom(PrintedItems', Sources')
    BY <1>1 DEF MarksInv
  <1>5. pc' \in {"show", "emit"} => /\ Marked(Stream', Near') /\ (multi_file' => Headed(Stream'))
                                    /\ RowsFrom(Stream', Sources')
    BY <1>1, <1>2 DEF MarksInv
  <1>6. pc' = "show" => /\ EndsWith(Stream', files'[at'], last_shown')
                        /\ multi_file' => UnderHeading(Stream', Len(Stream') + 1, files'[at'])
    BY <1>1, <1>2 DEF MarksInv
  <1>7. pc' # "collect"
    OBVIOUS
  <1> QED BY <1>3, <1>4, <1>5, <1>6, <1>7 DEF MarksInv

LEMMA MarksStart == GrepInit => MarksHold
  <1> SUFFICES ASSUME GrepInit PROVE MarksInv
    BY DEF MarksHold
  <1>1. stdout = <<>> /\ pc = "collect"
    BY DEF GrepInit, WriterInit
  <1>2. DOMAIN PrintedItems = {}
    BY <1>1 DEF PrintedItems
  <1> QED BY <1>1, <1>2 DEF MarksInv, Marked, Headed

LEMMA MarksCollected ==
  ASSUME Typed, MarksInv, Collect
  PROVE  MarksInv'
  <1>1. pc = "collect" /\ pc' = "search" /\ stdout' = stdout
    BY DEF Collect, writerAll, writerVars
  <1>2. stdout = <<>>
    BY <1>1 DEF MarksInv
  <1>3. DOMAIN PrintedItems' = {}
    BY <1>1, <1>2 DEF PrintedItems
  <1> QED BY <1>1, <1>3 DEF MarksInv, Marked, Headed, RowsFrom

LEMMA SourcesGrow ==
  ASSUME Typed, Searching, UNCHANGED files, searched' = Append(searched, Content)
  PROVE  Sources \subseteq Sources' /\ files[at] \in Sources'
  <1>1. /\ DOMAIN searched = 1 .. at - 1 /\ DOMAIN searched' = 1 .. at /\ at \in Nat \ {0}
    BY SearchedGrows, ContentHere
  <1>2. at \in DOMAIN searched' /\ \A l \in DOMAIN searched : l \in DOMAIN searched'
    BY <1>1
  <1> QED BY <1>2 DEF Sources

LEMMA MarksSkipped ==
  ASSUME Typed, MarksInv, SkipFile
  PROVE  MarksInv'
  <1>1. /\ Searching /\ pc = "search" /\ pc' = pc /\ searched' = Append(searched, Content)
        /\ UNCHANGED <<opts, files, stdout>>
    BY DEF SkipFile, Searching, worldVars, writerAll, writerVars
  <1>2. /\ Near' = Near /\ Sources \subseteq Sources' /\ multi_file' = multi_file
        /\ PrintedItems' = PrintedItems
    BY <1>1, SourcesGrow DEF Near, multi_file, PrintedItems
  <1> HIDE DEF PrintedItems, Stream, Near, Sources, multi_file
  <1>3. RowsFrom(PrintedItems', Sources')
    BY <1>1, <1>2 DEF MarksInv, RowsFrom
  <1>4. Marked(PrintedItems', Near') /\ (multi_file' => Headed(PrintedItems'))
    BY <1>1, <1>2 DEF MarksInv
  <1> QED BY <1>1, <1>3, <1>4 DEF MarksInv

LEMMA MarksPassed ==
  ASSUME Typed, MarksInv, SourceEmitted \/ RowRefused
  PROVE  MarksInv'
  <1>1. /\ pc = "emit" /\ pc' \in {"search", "done"} /\ UNCHANGED <<opts, files, searched, stdout>>
    <2>1. CASE SourceEmitted
      BY <2>1 DEF SourceEmitted, worldVars, writerAll, writerVars
    <2>2. CASE RowRefused
      BY <2>2 DEF RowRefused, Emitting, WriteLine, Return, worldVars
    <2> QED BY <2>1, <2>2
  <1>2. Near' = Near /\ Sources' = Sources /\ multi_file' = multi_file /\ PrintedItems' = PrintedItems
    BY <1>1, SourcesKept DEF PrintedItems
  <1>3. RowsFrom(PrintedItems, Sources)
    <2>1. /\ PrintedItems \in Seq(ItemType) /\ todo \in Seq(ItemType)
          /\ RowsFrom(PrintedItems \o todo, Sources)
      BY <1>1, PrintedTyped DEF MarksInv, Stream
    <2> HIDE DEF PrintedItems, Sources
    <2> QED BY <2>1, FirstItems
  <1> HIDE DEF PrintedItems, Stream, Near, Sources, multi_file
  <1>4. Marked(PrintedItems', Near') /\ (multi_file' => Headed(PrintedItems'))
    BY <1>2 DEF MarksInv
  <1> QED BY <1>1, <1>2, <1>3, <1>4 DEF MarksInv

LEMMA MarksEmitted ==
  ASSUME Typed, MarksInv, RowsInv, EmitRow \/ EmitDecoration
  PROVE  MarksInv'
  <1>1. /\ pc = "emit" /\ pc' = pc /\ UNCHANGED <<opts, files, searched>>
        /\ ~truncated
    BY DEF EmitRow, EmitDecoration, Emitting, worldVars, RowsInv, RowsAt
  <1>2. Near' = Near /\ Sources' = Sources /\ multi_file' = multi_file /\ Stream' = Stream
    BY <1>1, SourcesKept, ItemPrinted
  <1>3. PrintedItems' \in Seq(ItemType) /\ todo' \in Seq(ItemType) /\ Stream' = PrintedItems' \o todo'
    <2>1. PrintedItems' \in Seq(ItemType) /\ todo' \in Seq(ItemType)
      <3>1. /\ PrintedItems \in Seq(ItemType) /\ todo \in Seq(ItemType) /\ todo # <<>> /\ todo' = Tail(todo)
            /\ PrintedItems' = Append(PrintedItems, Head(todo))
        BY <1>1, PrintedTyped, ItemPrinted DEF EmitRow, EmitDecoration, Emitting
      <3> HIDE DEF PrintedItems
      <3> QED BY <3>1
    <2> QED BY <2>1 DEF Stream
  <1> HIDE DEF PrintedItems, Stream, Near, Sources, multi_file
  <1>4. Marked(Stream', Near') /\ (multi_file' => Headed(Stream')) /\ RowsFrom(Stream', Sources')
    BY <1>1, <1>2 DEF MarksInv
  <1>5. Marked(PrintedItems', Near') /\ (multi_file' => Headed(PrintedItems'))
    BY <1>3, <1>4, FirstItems
  <1> QED BY <1>1, <1>4, <1>5 DEF MarksInv

(* A file's blank line and heading.                                        *)
LEMMA HeadingMore ==
  ASSUME NEW s \in Seq(ItemType), NEW src, Printable(src), NEW near, NEW srcs, opts.heading,
         Marked(s, near), multi_file => Headed(s), RowsFrom(s, srcs), src \notin srcs
  PROVE  LET t == s \o Headings(src)
         IN  /\ Marked(t, near) /\ (multi_file => Headed(t)) /\ RowsFrom(t, srcs)
             /\ EndsWith(t, src, 0) /\ (multi_file => UnderHeading(t, Len(t) + 1, src))
  <1> DEFINE t == s \o Headings(src)
             b == DecoItem("blank", src)
             h == DecoItem("heading", src)
  <1>1. /\ b \in ItemType /\ h \in ItemType /\ b.what = "deco" /\ h.what = "deco"
        /\ b.row.kind = "blank" /\ h.row.kind = "heading" /\ h.row.src = src
    <2>1. b \in Item /\ h \in Item
      BY ItemsTyped
    <2>2. Item \subseteq ItemType
      BY DEF Item, ItemType
    <2> QED BY <2>1, <2>2 DEF DecoItem, RowOf
  <1>2. \/ ~multi_file /\ t = s
        \/ multi_file /\ t = Append(s, h)
        \/ multi_file /\ t = Append(Append(s, b), h)
    <2> HIDE DEF b, h
    <2>1. s \o <<>> = s /\ s \o <<h>> = Append(s, h) /\ s \o (<<b>> \o <<h>>) = Append(Append(s, b), h)
      <3>1. s \o <<>> = s /\ s \o <<h>> = Append(s, h)
        BY <1>1
      <3>2. <<b>> \in Seq(ItemType) /\ <<h>> \in Seq(ItemType) /\ s \o <<b>> = Append(s, b)
            /\ Append(s, b) \in Seq(ItemType)
        BY <1>1
      <3>3. (s \o <<b>>) \o <<h>> = s \o (<<b>> \o <<h>>)
        BY <3>2, ConcatAssociative
      <3>4. Append(s, b) \o <<h>> = Append(Append(s, b), h)
        BY <1>1, <3>2
      <3> QED BY <3>1, <3>2, <3>3, <3>4
    <2>2. <<>> \o <<h>> = <<h>>
      OBVIOUS
    <2>3. Headings(src) \in {IF multi_file THEN <<h>> ELSE <<>>, IF multi_file THEN <<b>> \o <<h>> ELSE <<>>}
      BY <2>2 DEF Headings, b, h
    <2> QED BY <2>1, <2>3
  <1> HIDE DEF t, b, h
  <1>3. CASE ~multi_file
    <2>1. t = s
      BY <1>2, <1>3
    <2> QED BY <1>3, <2>1 DEF EndsWith, RowsFrom, t
  <1>4. CASE multi_file /\ t = Append(s, h)
    <2>1. /\ Marked(t, near) /\ Headed(t) /\ RowsFrom(t, srcs) /\ UnderHeading(t, Len(s) + 2, src)
          /\ Len(t) + 1 = Len(s) + 2
      <3>1. Len(t) = Len(s) + 1 /\ Len(s) \in Nat
        BY <1>1, <1>4, MoreItems
      <3>2. Len(t) + 1 = Len(s) + 2
        BY <3>1
      <3> QED BY <1>1, <1>4, <3>2, DecoMore
    <2> QED BY <2>1 DEF EndsWith, RowsFrom, t
  <1>5. CASE multi_file /\ t = Append(Append(s, b), h)
    <2> DEFINE u == Append(s, b)
    <2>1. u \in Seq(ItemType) /\ Len(u) = Len(s) + 1 /\ Len(s) \in Nat
      BY <1>1, MoreItems
    <2>2. Marked(u, near) /\ Headed(u) /\ RowsFrom(u, srcs)
      BY <1>1, <1>5, DecoMore
    <2> HIDE DEF u
    <2>3. Len(t) = Len(u) + 1
      BY <1>1, <1>5, <2>1, MoreItems DEF u
    <2>4. Len(t) + 1 = Len(u) + 2
      BY <2>1, <2>3
    <2>5. t = Append(u, h)
      BY <1>5 DEF u
    <2>6. Marked(t, near) /\ Headed(t) /\ RowsFrom(t, srcs) /\ UnderHeading(t, Len(u) + 2, src)
      BY <1>1, <2>1, <2>2, <2>5, DecoMore
    <2> QED BY <2>4, <2>6 DEF EndsWith, RowsFrom, t
  <1> QED BY <1>2, <1>3, <1>4, <1>5

LEMMA MarksLaidOut ==
  ASSUME Typed, MarksInv, RowsInv, SearchHits, opts.mode = "rows", opts.heading
  PROVE  MarksInv'
  <1>1. /\ Searching /\ pc = "search" /\ pc' = "show" /\ at' = at /\ searched' = Append(searched, Content)
        /\ UNCHANGED <<opts, files, stdout>> /\ last_shown' = 0 /\ todo' = Headings(files[at])
    BY DEF SearchHits, Searching, worldVars, writerAll, writerVars
  <1>2. /\ Near' = Near /\ Sources \subseteq Sources' /\ multi_file' = multi_file
        /\ PrintedItems' = PrintedItems /\ PrintedItems \in Seq(ItemType)
    BY <1>1, SourcesGrow, PrintedTyped DEF Near, multi_file, PrintedItems
  <1>3. files[at] \notin Sources
    <2>1. /\ Len(searched) = at - 1 /\ at \in Nat /\ at \in 1 .. Len(files) /\ Len(files) \in Nat
          /\ DOMAIN searched = 1 .. at - 1 /\ DOMAIN files = 1 .. Len(files)
      BY <1>1, ContentHere DEF Typed, Searching
    <2>2. \A l \in DOMAIN searched : l # at /\ l \in DOMAIN files
      BY <2>1
    <2> QED BY <2>1, <2>2 DEF Sources, RowsInv, SourcesDistinct
  <1>4. Printable(files[at])
    BY <1>1, ContentHere
  <1>5. Stream' = PrintedItems \o Headings(files[at])
    BY <1>1, <1>2 DEF Stream
  <1> HIDE DEF PrintedItems, Stream, Near, Sources, multi_file
  <1>6. /\ Marked(Stream', Near) /\ (multi_file => Headed(Stream')) /\ RowsFrom(Stream', Sources)
        /\ EndsWith(Stream', files[at], 0) /\ (multi_file => UnderHeading(Stream', Len(Stream') + 1, files[at]))
    BY <1>1, <1>2, <1>3, <1>4, <1>5, HeadingMore DEF MarksInv
  <1>7. RowsFrom(Stream', Sources')
    BY <1>2, <1>6 DEF RowsFrom
  <1>8. Marked(PrintedItems', Near') /\ (multi_file' => Headed(PrintedItems'))
    BY <1>2 DEF MarksInv
  <1> QED BY <1>1, <1>2, <1>6, <1>7, <1>8 DEF MarksInv

LEMMA MarksNext ==
  ASSUME Typed, MarksInv, NextMatch
  PROVE  MarksInv'
  <1>1. /\ pc = "show" /\ pc' \in {"show", "emit"} /\ UNCHANGED <<opts, files, searched, stdout, at, last_shown, todo>>
    BY DEF NextMatch, worldVars, writerAll, writerVars
  <1>2. Near' = Near /\ Sources' = Sources /\ multi_file' = multi_file /\ PrintedItems' = PrintedItems
    BY <1>1, SourcesKept DEF PrintedItems
  <1>3. Stream' = Stream
    BY <1>1, <1>2 DEF Stream
  <1> HIDE DEF PrintedItems, Stream, Near, Sources, multi_file
  <1> QED BY <1>1, <1>2, <1>3 DEF MarksInv

(* When a separator comes, lines are missing before the row, and when none *)
(* does, the row is the next line or the file's first.                     *)
LEMMA GapsAreReal ==
  ASSUME Typed, RowsInv, pc = "show", NEW i \in FreshNow, \A k \in FreshNow : i <= k
  PROVE  /\ Gap(Head(left)) => last_shown # 0 /\ Near /\ i > last_shown + 1
         /\ ~Gap(Head(left)) /\ opts.heading /\ last_shown # 0 => ~(Near /\ i > last_shown + 1)
  <1> DEFINE lines == searched[at].lines
             m == Head(left)
             a == ctx_start(m)
             b == ctx_end(lines, m)
  <1>1. /\ m \in 1 .. Len(lines) /\ m \in Nat /\ Len(lines) \in Nat /\ lines \in Seq(BOOLEAN)
        /\ left # <<>> /\ left \in Seq(1 .. Len(lines)) /\ last_shown \in Nat
    BY HeadOfLeft, LinesHere, SMTT(30) DEF Typed, Placed
  <1>2. FreshNow = (a .. b) \ shown
    BY FreshLines
  <1>3. a \in 1 .. m /\ b \in m .. Len(lines)
    BY <1>1, WindowIsReach DEF Typed
  <1>4. WindowsAt(lines)
    BY DEF RowsInv, RowsAt
  <1> HIDE DEF lines, m, a, b
  <1>5. a \in Nat /\ b \in Nat /\ i \in Nat /\ a <= i /\ i <= b /\ i \notin shown
    BY <1>1, <1>2, <1>3
  <1>6. last_shown < i
    <2>1. 1 \in DOMAIN left /\ left[1] = m
      BY <1>1 DEF m
    <2>2. a <= i /\ i <= last_shown => i \in shown
      BY <1>4, <1>5, <2>1 DEF WindowsAt, a
    <2> QED BY <1>1, <1>5, <2>2
  <1>7. a <= last_shown + 1 => i = last_shown + 1
    <2> SUFFICES ASSUME a <= last_shown + 1 PROVE i = last_shown + 1
      OBVIOUS
    <2>1. last_shown + 1 \in a .. b
      BY <1>1, <1>5, <1>6
    <2>2. last_shown + 1 \notin shown
      BY <1>1, <1>4 DEF WindowsAt
    <2>3. i <= last_shown + 1
      BY <1>2, <2>1, <2>2
    <2> QED BY <1>1, <1>5, <1>6, <2>3
  <1>8. Gap(m) <=> opts.heading /\ Near /\ last_shown # 0 /\ a > last_shown + 1
    BY DEF Gap, Near, a
  <1> HIDE DEF Gap, Near
  <1>9. Gap(m) => i > last_shown + 1
    BY <1>1, <1>5, <1>8
  <1>10. ~Gap(m) /\ opts.heading /\ last_shown # 0 => ~(Near /\ i > last_shown + 1)
    BY <1>1, <1>5, <1>7, <1>8
  <1> QED BY <1>8, <1>9, <1>10 DEF m

LEMMA MarksShown ==
  ASSUME Typed, MarksInv, RowsInv, ShowLine, opts.heading
  PROVE  MarksInv'
  <1> DEFINE sep == DecoItem("sep", files[at])
             row(i) == RowItem(IF i = Head(left) THEN "match" ELSE "context", files[at], i)
             more == IF Gap(Head(left)) THEN <<sep>> ELSE <<>>
  <1>1. /\ pc = "show" /\ pc' = pc /\ UNCHANGED <<opts, files, at, searched, stdout>>
    BY DEF ShowLine, worldVars, writerAll, writerVars
  <1>2. PICK i \in FreshNow : /\ \A k \in FreshNow : i <= k
                              /\ todo' = todo \o more \o <<row(i)>>
                              /\ last_shown' = i
    BY DEF ShowLine
  <1> DEFINE new == row(i)
  <1>3. /\ sep \in ItemType /\ new \in ItemType /\ sep.what = "deco" /\ sep.row.kind = "sep" /\ new.what = "row"
        /\ new.row.src = files[at] /\ new.row.num = i /\ i \in Nat /\ i # 0
    <2>1. sep \in Item /\ new \in Item /\ i \in 1 .. Len(searched[at].lines)
      BY <1>1, FreshLines, LinesHere, ItemsTyped
    <2>2. Item \subseteq ItemType /\ Len(searched[at].lines) \in Nat
      BY <1>1, LinesHere DEF Item, ItemType
    <2>3. i \in Nat /\ i # 0
      BY <2>1, <2>2
    <2> QED BY <2>1, <2>2, <2>3 DEF DecoItem, RowItem, RowOf
  <1>4. /\ todo' = todo \o more \o <<new>>
        /\ Gap(Head(left)) => last_shown # 0 /\ Near /\ i > last_shown + 1
        /\ ~Gap(Head(left)) /\ opts.heading /\ last_shown # 0 => ~(Near /\ i > last_shown + 1)
    BY <1>1, <1>2, GapsAreReal
  <1>5. Near' = Near /\ Sources' = Sources /\ multi_file' = multi_file /\ PrintedItems' = PrintedItems
    BY <1>1, SourcesKept DEF PrintedItems
  <1>6. /\ PrintedItems \in Seq(ItemType) /\ todo \in Seq(ItemType) /\ Stream \in Seq(ItemType)
        /\ last_shown \in Nat /\ files[at] \in Sources
    BY <1>1, PrintedTyped, LinesHere DEF Typed, Sources
  <1> HIDE DEF sep, row, new
  <1>7. Stream' = (Stream \o more) \o <<new>>
    <2>1. more \in Seq(ItemType) /\ <<new>> \in Seq(ItemType)
      BY <1>3
    <2> HIDE DEF more, PrintedItems
    <2>2. (todo \o more) \in Seq(ItemType) /\ (PrintedItems \o todo) \in Seq(ItemType)
      BY <1>6, <2>1
    <2>3. PrintedItems \o ((todo \o more) \o <<new>>) = (PrintedItems \o (todo \o more)) \o <<new>>
      BY <1>6, <2>1, <2>2, ConcatAssociative, SMTT(30)
    <2>4. PrintedItems \o (todo \o more) = (PrintedItems \o todo) \o more
      BY <1>6, <2>1, ConcatAssociative, SMTT(30)
    <2>5. Stream' = PrintedItems \o ((todo \o more) \o <<new>>)
      BY <1>4, <1>5 DEF Stream
    <2> QED BY <2>3, <2>4, <2>5 DEF Stream
  <1>8. /\ Marked(Stream, Near) /\ (multi_file => Headed(Stream)) /\ RowsFrom(Stream, Sources)
        /\ EndsWith(Stream, files[at], last_shown)
        /\ multi_file => UnderHeading(Stream, Len(Stream) + 1, files[at])
        /\ Marked(PrintedItems, Near) /\ (multi_file => Headed(PrintedItems))
    BY <1>1 DEF MarksInv
  <1> HIDE DEF PrintedItems, Stream, Near, Sources, multi_file
  <1>9. CASE Gap(Head(left))
    <2> DEFINE t == Append(Stream, sep)
    <2>1. Stream' = Append(t, new) /\ t \in Seq(ItemType) /\ Len(t) = Len(Stream) + 1 /\ Len(Stream) \in Nat
      BY <1>3, <1>6, <1>7, <1>9
    <2>2. Marked(Stream', Near)
      BY <1>3, <1>4, <1>6, <1>8, <1>9, <2>1, RowBehindGap
    <2>3. RowsFrom(t, Sources) /\ (multi_file => Headed(t) /\ UnderHeading(t, Len(Stream) + 2, files[at]))
      BY <1>3, <1>6, <1>8, DecoMore
    <2> HIDE DEF t
    <2>4. Len(Stream) + 2 = Len(t) + 1 /\ Len(Stream') = Len(t) + 1 /\ Len(Stream') + 1 = Len(t) + 2
      BY <1>3, <2>1
    <2>5. /\ RowsFrom(Stream', Sources) /\ EndsWith(Stream', files[at], i)
          /\ multi_file => Headed(Stream') /\ UnderHeading(Stream', Len(Stream') + 1, files[at])
      BY <1>3, <1>6, <2>1, <2>3, <2>4, RowMore
    <2> QED BY <1>1, <1>2, <1>5, <1>8, <2>2, <2>5 DEF MarksInv
  <1>10. CASE ~Gap(Head(left))
    <2>1. Stream' = Append(Stream, new) /\ Len(Stream) \in Nat
      BY <1>3, <1>6, <1>7, <1>10
    <2>2. Marked(Stream', Near)
      BY <1>3, <1>4, <1>6, <1>8, <1>10, <2>1, RowBehind
    <2>3. Len(Stream') = Len(Stream) + 1 /\ Len(Stream') + 1 = Len(Stream) + 2
      BY <1>3, <1>6, <2>1
    <2>4. /\ RowsFrom(Stream', Sources) /\ EndsWith(Stream', files[at], i)
          /\ multi_file => Headed(Stream') /\ UnderHeading(Stream', Len(Stream') + 1, files[at])
      BY <1>3, <1>6, <1>8, <2>1, <2>3, RowMore
    <2> QED BY <1>1, <1>2, <1>5, <1>8, <2>2, <2>4 DEF MarksInv
  <1> QED BY <1>9, <1>10

LEMMA MarksStep ==
  ASSUME Typed, RowsHold, MarksHold, [GrepNext]_grepVars
  PROVE  MarksHold'
  <1>1. opts' = opts
    BY OptionsKept
  <1> SUFFICES ASSUME RowsInv, MarksInv, opts.mode = "rows", opts.heading PROVE MarksInv'
    BY <1>1 DEF MarksHold, RowsHold
  <1>2. CASE SearchFails \/ BrokenPipe \/ Finish
    <2>1. PICK result : Return(result) /\ pc # "collect" /\ UNCHANGED writerAll
      BY <1>2 DEF SearchFails, BrokenPipe, Finish, Searching, Emitting
    <2> QED BY <2>1, MarksKept DEF Return, worldVars, writerAll, writerVars
  <1>3. ASSUME NEW p, NEW content, Change(p, content) PROVE MarksInv'
    BY <1>3, MarksKept DEF Change, runVars, writerAll, writerVars
  <1>4. CASE Leave \/ Done \/ UNCHANGED grepVars
    <2>1. UNCHANGED <<opts, runVars, writerVars>>
      BY <1>4 DEF Leave, CloseReader, Done, grepVars, worldVars, writerAll
    <2>2. CASE pc = "collect"
      <3>1. stdout = <<>> /\ stdout' = stdout /\ pc' = pc
        BY <2>1, <2>2 DEF MarksInv, runVars, writerVars
      <3>2. DOMAIN PrintedItems' = {}
        BY <3>1 DEF PrintedItems
      <3> QED BY <2>2, <3>1, <3>2 DEF MarksInv, Marked, Headed
    <2>3. CASE pc # "collect"
      BY <2>1, <2>3, MarksKept DEF runVars, writerVars
    <2> QED BY <2>2, <2>3
  <1> QED BY <1>2, <1>3, <1>4, MarksCollected, MarksSkipped, MarksLaidOut, MarksShown, MarksNext, MarksEmitted,
             MarksPassed DEF GrepNext

LEMMA MarksAreRight ==
  ASSUME Typed, MarksHold
  PROVE  RowsAreMarked
  <1>1. GrepTypeOK
    <2>1. todo \in Seq(ItemType)
      BY PrintedTyped
    <2>2. total \in Nat
      BY GrepAssumption DEF Typed
    <2> QED BY <2>1, <2>2 DEF GrepTypeOK, Typed
  <1>2. /\ DOMAIN stdout = 1 .. Len(stdout) /\ Len(stdout) \in Nat /\ DOMAIN PrintedItems = DOMAIN stdout
        /\ \A i \in DOMAIN stdout : stdout[i].row \in Nat
    <2>1. \A i \in 1 .. Len(stdout) : stdout[i].row \in Nat
      BY EntryRow DEF Typed
    <2> QED BY <2>1, PrintedTyped
  <1>3. \A i \in DOMAIN stdout : /\ IsRow(i) <=> RowAt(PrintedItems, i)
                                 /\ PrintedItems[i].row = stdout[i].text
                                 /\ \A kind : IsDeco(i, kind) <=> DecoAt(PrintedItems, i, kind)
    BY DEF IsRow, IsDeco, RowAt, DecoAt, PrintedItems
  <1>4. /\ \A i, j \in DOMAIN stdout : \A m \in i + 1 .. j - 1 : m \in DOMAIN stdout
        /\ \A i \in DOMAIN stdout : \A h \in 1 .. i - 1 : h \in DOMAIN stdout
        /\ \A i \in DOMAIN stdout : \A h \in 1 .. i - 1 : \A m \in h + 1 .. i - 1 : m \in DOMAIN stdout
    BY <1>2
  <1> HIDE DEF PrintedItems, IsRow, IsDeco
  <1>5. GapsAreMarked
    <2> SUFFICES ASSUME opts.mode = "rows", opts.heading, NEW i \in DOMAIN stdout, NEW j \in DOMAIN stdout,
                        i < j, IsRow(i), IsRow(j), stdout[i].text.src = stdout[j].text.src,
                        \A m \in i + 1 .. j - 1 : ~IsRow(m)
                 PROVE  (\E m \in i + 1 .. j - 1 : IsDeco(m, "sep"))
                          <=> /\ opts.before + opts.after > 0
                              /\ stdout[j].text.num > stdout[i].text.num + 1
      BY DEF GapsAreMarked
    <2>1. Marked(PrintedItems, Near)
      BY DEF MarksHold, MarksInv
    <2>2. /\ RowAt(PrintedItems, i) /\ RowAt(PrintedItems, j)
          /\ PrintedItems[i].row.src = PrintedItems[j].row.src
          /\ \A m \in i + 1 .. j - 1 : ~RowAt(PrintedItems, m)
      BY <1>3, <1>4
    <2>3. (\E m \in i + 1 .. j - 1 : DecoAt(PrintedItems, m, "sep"))
            <=> Near /\ PrintedItems[j].row.num > PrintedItems[i].row.num + 1
      BY <1>2, <2>1, <2>2 DEF Marked
    <2>4. \A m \in i + 1 .. j - 1 : DecoAt(PrintedItems, m, "sep") <=> IsDeco(m, "sep")
      BY <1>3, <1>4
    <2> QED BY <1>3, <2>3, <2>4 DEF Near
  <1>6. RowsUnderHeading
    <2> SUFFICES ASSUME opts.mode = "rows", opts.heading, multi_file, NEW i \in DOMAIN stdout, IsRow(i)
                 PROVE  \E h \in 1 .. i - 1 :
                          /\ IsDeco(h, "heading") /\ stdout[h].text.src = stdout[i].text.src
                          /\ \A m \in h + 1 .. i - 1 : ~IsDeco(m, "heading")
      BY DEF RowsUnderHeading
    <2>1. UnderHeading(PrintedItems, i, PrintedItems[i].row.src)
      BY <1>2, <1>3 DEF MarksHold, MarksInv, Headed
    <2>2. PICK h \in 1 .. i - 1 : /\ DecoAt(PrintedItems, h, "heading")
                                  /\ PrintedItems[h].row.src = PrintedItems[i].row.src
                                  /\ \A m \in h + 1 .. i - 1 : ~DecoAt(PrintedItems, m, "heading")
      BY <2>1 DEF UnderHeading
    <2> QED BY <1>3, <1>4, <2>2
  <1> QED BY <1>1, <1>5, <1>6 DEF RowsAreMarked

(* Rows stand where they belong, in whatever order windows overlap and a   *)
(* limit cuts: a separator marks each gap between two rows of a file and   *)
(* nothing else, and a row is below its own file's heading (emit_result    *)
(* and search_reader_lines in src/fs/grep.rs).                             *)
THEOREM RowsStandMarked == GrepSpec => []RowsAreMarked
  <1>1. GrepInit => Typed /\ RowsHold /\ MarksHold
    BY GrepStarts, RowsStart, MarksStart
  <1>2. Typed /\ RowsHold /\ MarksHold /\ [GrepNext]_grepVars => Typed' /\ RowsHold' /\ MarksHold'
    BY TypesKept, RowsStep, MarksStep
  <1>3. Typed /\ MarksHold => RowsAreMarked
    BY MarksAreRight
  <1> QED BY <1>1, <1>2, <1>3, PTL DEF GrepSpec
=============================================================================
