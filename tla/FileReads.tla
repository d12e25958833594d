------------------------------ MODULE FileReads ------------------------------
(***************************************************************************)
(* The commands of `sak fs` that are given files (src/fs: wc, stat, read,  *)
(* head, cut).  They come to one argument after the other, each as it is   *)
(* then; a file may be gone or have been rewritten before its turn, and a  *)
(* limit may stop the command before the last.                             *)
(*                                                                         *)
(* A file is its lines and whether the last one is ended; a line is its    *)
(* cells, what stands between the delimiters.                              *)
(***************************************************************************)
EXTENDS Integers, Sequences, FiniteSets, SequencesExt

CONSTANTS
  Stores,        \* what the files may hold: [name -> file]
  Stdin,         \* what standard input holds; it is the argument "-"
  Commands,      \* [op, args, limit, spec, exclude, offset, bytes, fields, header, skip, unique, filter, max, cols]
  Days, Sizes,   \* days since the epoch and sizes to be told
  DefaultLimit,  \* read's bound when none is asked for
  None,          \* no file, no bound, no range, no total
  MaxChanges     \* bound: how often another program changes a file

VARIABLES files, cmd, at, taken, acc, seen, rows, failed, code, changes
vars == <<files, cmd, at, taken, acc, seen, rows, failed, code, changes>>

Names == DOMAIN files
Content(name) == IF name = "-" THEN Stdin ELSE files[name]
Missing(name) == Content(name) = None
(* A directory has metadata and no content.                                *)
Unread(name, op) == IF Missing(name) THEN TRUE ELSE op # "stat" /\ Content(name).kind = "dir"

(* Another program rewrites or removes a file.                             *)
Change ==
  /\ cmd # None /\ code = -1 /\ changes < MaxChanges /\ changes' = changes + 1
  /\ \E s \in Stores, n \in Names : files' = [files EXCEPT ![n] = s[n]]
  /\ UNCHANGED <<cmd, at, taken, acc, seen, rows, failed, code>>

-----------------------------------------------------------------------------
(* What a file is to a reader of bytes.                                    *)
Stream(f) ==
  FlattenSeq([i \in DOMAIN f.lines |->
    FlattenSeq([j \in DOMAIN f.lines[i] |-> (IF j > 1 THEN <<"\t">> ELSE <<>>)
                                          \o (IF f.lines[i][j] = "" THEN <<>> ELSE <<f.lines[i][j]>>)])
    \o (IF i < Len(f.lines) \/ f.ended THEN <<"\n">> ELSE <<>>)])
(* wc.rs, count: lines are line ends, words runs without space.            *)
Words(line) == Len(SelectSeq(line, LAMBDA cell : cell # ""))
count(f) ==
  <<Len(SelectSeq(Stream(f), LAMBDA b : b = "\n")),
    FoldSeq(LAMBDA line, n : n + Words(line), 0, f.lines), Len(Stream(f))>>
Add(a, b) == [i \in DOMAIN a |-> a[i] + b[i]]
Zero == <<0, 0, 0>>
(* The columns asked for, in their fixed order; all of them for none.      *)
Chosen(counts, c) == IF c.cols = {} THEN counts ELSE [i \in c.cols |-> counts[i]]

(* stat.rs, stat_one: an argument's own metadata, the entries of a         *)
(* directory counted behind them.                                          *)
stat_one(f) == <<f.kind, f.mtime, IF f.kind = "dir" THEN Len(f.lines) ELSE None>>

(* stat.rs, civil_from_days and find.rs, days_from_civil: a day as a date  *)
(* and back.  March is the first month, an era 400 years.                  *)
Era == 146097
civil_from_days(day) ==
  LET z == day + 719468
      doe == z % Era
      yoe == (doe - (doe \div 1460) + (doe \div 36524) - (doe \div 146096)) \div 365
      doy == doe - (365 * yoe + (yoe \div 4) - (yoe \div 100))
      mp == (5 * doy + 2) \div 153
      m == IF mp < 10 THEN mp + 3 ELSE mp - 9
  IN <<yoe + 400 * (z \div Era) + (IF m <= 2 THEN 1 ELSE 0), m, doy - ((153 * mp + 2) \div 5) + 1>>
days_from_civil(date) ==
  LET y == IF date[2] <= 2 THEN date[1] - 1 ELSE date[1]
      yoe == y % 400
      mp == (date[2] + 9) % 12
  IN Era * (y \div 400) + yoe * 365 + (yoe \div 4) - (yoe \div 100) + ((153 * mp + 2) \div 5) + date[3] - 1 - 719468

(* size.rs: a size told in tenths of the largest unit it fills, rounded,   *)
(* and a size that was asked for in tenths of a unit.                      *)
Unit(bytes) == IF bytes < 1024 THEN 1 ELSE IF bytes < 1048576 THEN 1024 ELSE 1048576
human(bytes) ==
  LET u == Unit(bytes)
      whole == (10 * bytes) \div u
      rest == 2 * ((10 * bytes) % u)
  IN <<IF rest > u \/ (rest = u /\ whole % 2 = 1) THEN whole + 1 ELSE whole, u>>
parse_size(told) == (told[1] * told[2]) \div 10

-----------------------------------------------------------------------------
(* read.rs: which lines are asked for.  A range is <<first, last>>, and    *)
(* <<None, n>> the last n.                                                 *)

InRange_From(n, total, r) ==
  IF r[1] = None THEN n + r[2] >= total ELSE n >= r[1] /\ (r[2] = None \/ n <= r[2])
InRange(n, total, r) ==
  IF r[1] = None THEN n + r[2] > total ELSE n >= r[1] /\ (r[2] = None \/ n <= r[2])
Excluded(n, total, c) == c.exclude # None /\ \E i \in DOMAIN c.exclude : InRange(n, total, c.exclude[i])
(* --lines takes the last n by skipping, --offset counts without --lines.  *)
SelectedLine(n, total, c) ==
  CASE c.spec = None -> n > c.offset
    [] c.spec # None /\ c.spec[1] = None -> n > (IF total > c.spec[2] THEN total - c.spec[2] ELSE 0)
    [] OTHER -> InRange(n, total, c.spec)
ReadRows(f, c) ==
  LET total == Len(f.lines)
      numbers == SelectSeq([i \in 1..total |-> i], LAMBDA n : SelectedLine(n, total, c) /\ ~Excluded(n, total, c))
  IN [i \in DOMAIN numbers |-> <<numbers[i], f.lines[numbers[i]]>>]
output_limit(c) ==
  IF c.limit # None THEN c.limit ELSE IF c.exclude # None THEN None ELSE DefaultLimit

(* head.rs: the lines 1-N through read; --bytes copies what it takes.      *)
HeadArgs(c) == [c EXCEPT !.spec = <<1, c.limit>>, !.exclude = None, !.offset = 0]
(* mod.rs, resolve_file_and_count: where no count is given, by position or *)
(* by flag, a lone number is a count over standard input unless a file has *)
(* that name.  --bytes does not come to this.                              *)
HeadLines == 10
resolve_file_and_count(c) ==
  CASE c.op # "head" \/ c.bytes \/ c.limit # None -> c
    [] c.op = "head" /\ ~c.bytes /\ c.limit = None ->
         IF c.args[1] = "3" /\ Missing("3") THEN [c EXCEPT !.args = <<"-">>, !.limit = 3] ELSE [c EXCEPT !.limit = HeadLines]

-----------------------------------------------------------------------------
(* cut.rs: the fields of each line.                                        *)

(* --max-fields leaves the rest of the line in the last field.             *)
Split(line, c) ==
  IF c.max = None \/ Len(line) <= c.max THEN [i \in DOMAIN line |-> <<line[i]>>]
  ELSE [i \in 1..c.max |-> IF i < c.max THEN <<line[i]>> ELSE SubSeq(line, i, Len(line))]
Blank(line) == \A i \in DOMAIN line : line[i] = ""
(* A name is where the header has it first; <<n>> is from n on.            *)
Position(header, name) == CHOOSE i \in DOMAIN header : header[i] = <<name>> /\ \A j \in 1..(i - 1) : header[j] # <<name>>
Resolvable(c, header) ==
  c.fields.kind = "names" => header # None /\ \A i \in DOMAIN c.fields.of : \E j \in DOMAIN header : header[j] = <<c.fields.of[i]>>
Resolved(c, header) ==
  IF c.fields.kind = "names" THEN [i \in DOMAIN c.fields.of |-> Position(header, c.fields.of[i])] ELSE c.fields.of
select_fields(fields, c, resolved) ==
  IF c.fields.kind = "from" THEN SubSeq(fields, c.fields.of[1], Len(fields))
  ELSE LET there == SelectSeq(resolved, LAMBDA i : i <= Len(fields)) IN [i \in DOMAIN there |-> fields[there[i]]]
Filtered(fields, c) == c.filter = None \/ (c.filter[1] <= Len(fields) /\ fields[c.filter[1]] = <<c.filter[2]>>)

(* The first line is the header unless it is skipped for being blank.      *)
Skipped(f, i, c) == c.skip /\ Blank(f.lines[i])
HasHeader(f, c) == c.header /\ f.lines # <<>> /\ ~Skipped(f, 1, c)
HeaderOf(f, c) == IF HasHeader(f, c) THEN Split(f.lines[1], c) ELSE None
DataLines(f, c) ==
  SelectSeq([i \in DOMAIN f.lines |-> i], LAMBDA i : ~Skipped(f, i, c) /\ ~(i = 1 /\ HasHeader(f, c)))
CutRows(f, c) ==
  LET data == SelectSeq(DataLines(f, c), LAMBDA i : Filtered(Split(f.lines[i], c), c))
  IN [i \in DOMAIN data |-> select_fields(Split(f.lines[data[i]], c), c, Resolved(c, HeaderOf(f, c)))]
(* What was printed before is left out, across files.                      *)
New(s, old) == FoldSeq(LAMBDA row, out : IF row \in old \cup ToSet(out) THEN out ELSE Append(out, row), <<>>, s)

-----------------------------------------------------------------------------
(* The commands.                                                           *)

Room == IF cmd.limit = None THEN -1 ELSE cmd.limit - Len(rows)
Fit(s, room) == IF room = -1 \/ Len(s) <= room THEN s ELSE SubSeq(s, 1, room)
Fits(s, room) == room = -1 \/ Len(s) <= room
Arg == cmd.args[at]
Turn(ops) == cmd # None /\ code = -1 /\ at <= Len(cmd.args) /\ cmd.op \in ops

Start(c) ==
  /\ cmd = None /\ cmd' = resolve_file_and_count(c) /\ acc' = IF c.op = "wc" THEN Zero ELSE None
  /\ at' = 1 /\ UNCHANGED <<files, taken, seen, rows, failed, code, changes>>

(* wc and stat report an argument that cannot be read and go on.           *)
Unreadable ==
  /\ Turn({"wc", "stat"}) /\ Unread(Arg, cmd.op)
  /\ at' = at + 1 /\ failed' = TRUE
  /\ UNCHANGED <<files, cmd, taken, acc, seen, rows, code, changes>>

Take(new, total, done) ==
  /\ taken' = Append(taken, Content(Arg)) /\ acc' = total
  /\ rows' = rows \o Fit(new, Room)
  /\ at' = IF done THEN Len(cmd.args) + 1 ELSE at + 1
  /\ UNCHANGED <<files, cmd, failed, changes>>

Count ==
  /\ Turn({"wc"}) /\ ~Unread(Arg, "wc")
  /\ LET row == <<<<Arg, Chosen(count(Content(Arg)), cmd)>>>>
     IN Take(row, Add(acc, count(Content(Arg))), ~Fits(row, Room))
  /\ UNCHANGED <<seen, code>>

(* Every argument is looked at before the first row is printed.            *)
StatArg ==
  /\ Turn({"stat"}) /\ ~Unread(Arg, "stat")
  /\ Take(<<<<Arg, stat_one(Content(Arg))>>>>, acc, FALSE) /\ UNCHANGED <<seen, code>>

(* read, head and cut give up at an argument that cannot be opened.        *)
NoField(f, c) ==
  ~Resolvable(c, HeaderOf(f, c)) /\ (HasHeader(f, c) \/ DataLines(f, c) # <<>>)
Refuse ==
  /\ Turn({"read", "head", "cut"})
  /\ IF Unread(Arg, cmd.op) THEN TRUE ELSE cmd.op = "cut" /\ NoField(Content(Arg), cmd)
  /\ code' = 2 /\ UNCHANGED <<files, cmd, at, taken, acc, seen, rows, failed, changes>>

Read ==
  /\ Turn({"read", "head"}) /\ ~Unread(Arg, cmd.op)
  /\ LET f == Content(Arg)
         bytes == cmd.op = "head" /\ cmd.bytes
         all == IF bytes THEN Stream(f) ELSE ReadRows(f, IF cmd.op = "head" THEN HeadArgs(cmd) ELSE cmd)
         n == IF cmd.op = "head" THEN cmd.limit ELSE output_limit(cmd)
         given == IF n = None THEN all ELSE Fit(all, n)
     IN /\ rows' = given /\ taken' = <<f>> /\ at' = 2
        /\ code' = IF (IF bytes THEN given ELSE all) = <<>> THEN 1 ELSE 0
  /\ UNCHANGED <<files, cmd, acc, seen, failed, changes>>

Cut ==
  /\ Turn({"cut"}) /\ ~Unread(Arg, "cut")
  /\ LET f == Content(Arg)
         all == CutRows(f, cmd)
         given == IF cmd.unique THEN New(all, seen) ELSE all
     IN /\ ~NoField(f, cmd)
        /\ Take(given, acc, ~Fits(given, Room))
        /\ seen' = seen \cup ToSet(given)
  /\ UNCHANGED code

(* The total of several files comes behind them; it is the last row and    *)
(* falls to the limit with the rest.                                       *)
Finish ==
  /\ cmd # None /\ code = -1 /\ at > Len(cmd.args)
  /\ rows' = IF cmd.op = "wc" /\ Len(cmd.args) > 1 THEN rows \o Fit(<<<<"total", Chosen(acc, cmd)>>>>, Room) ELSE rows
  /\ code' = IF failed THEN 2 ELSE 0
  /\ UNCHANGED <<files, cmd, at, taken, acc, seen, failed, changes>>

Init ==
  /\ files \in Stores /\ cmd = None /\ at = 0 /\ taken = <<>> /\ acc = None /\ seen = {}
  /\ rows = <<>> /\ failed = FALSE /\ code = -1 /\ changes = 0

Next ==
  \/ Change \/ Unreadable \/ Count \/ StatArg \/ Refuse \/ Read \/ Cut \/ Finish
  \/ \E c \in Commands : Start(c)

Spec == Init /\ [][Next]_vars
-----------------------------------------------------------------------------
(* Properties.                                                             *)

Ended(op) == cmd # None /\ cmd.op = op /\ code \in {0, 1}
Stopped == cmd.limit # None /\ Len(rows) = cmd.limit

(* The total is the sum of the rows above it and is left out when one of   *)
(* them is; what could not be read, and nothing else, makes the exit 2;    *)
(* and wc counts the bytes head copies and the lines read numbers, but for *)
(* a last line without its end (wc.rs, read.rs, head.rs).                  *)
CountsAgree ==
  /\ cmd # None /\ cmd.op = "wc" /\ code # -1 =>
       LET last == Len(rows)
           totals == {i \in DOMAIN rows : rows[i][1] = "total"}
       IN /\ totals \subseteq {last}
          /\ totals = {} => Len(cmd.args) = 1 \/ Stopped
          /\ \A i \in totals : \A k \in DOMAIN rows[i][2] :
               rows[i][2][k] = FoldSeq(LAMBDA row, n : n + row[2][k], 0, SubSeq(rows, 1, last - 1))
  /\ cmd # None /\ cmd.op \in {"wc", "stat"} /\ code = 0 => Len(taken) = Len(cmd.args) \/ Stopped
  /\ \A i \in DOMAIN taken :
       LET f == taken[i]
           reader == [cmd EXCEPT !.spec = None, !.exclude = None, !.offset = 0]
       IN count(f)[1] = Len(ReadRows(f, reader)) - (IF f.lines = <<>> \/ f.ended THEN 0 ELSE 1)

(* What read prints for a range and what it prints without that range make *)
(* up the file, each line once and under its own number, for ranges that   *)
(* count from the end as for those from the start (read.rs); head prints   *)
(* the file's beginning, by lines or by bytes (head.rs).                   *)
RangesPart ==
  /\ Ended("read") =>
       LET f == taken[1]
           of(c) == {r[1] : r \in ToSet(ReadRows(f, c))}
           range == [cmd EXCEPT !.exclude = None]
           rest == [cmd EXCEPT !.spec = None, !.offset = 0, !.exclude = <<cmd.spec>>]
       IN /\ \A i \in DOMAIN rows : rows[i][2] = f.lines[rows[i][1]] /\ (i > 1 => rows[i - 1][1] < rows[i][1])
          /\ cmd.spec # None => /\ of(range) \cap of(rest) = {}
                               /\ of(range) \cup of(rest) = DOMAIN f.lines
  /\ Ended("head") =>
       IF cmd.bytes THEN IsPrefix(rows, Stream(taken[1])) ELSE IsPrefix([i \in DOMAIN rows |-> rows[i][2]], taken[1].lines)

(* Every row cut prints is a line of one of its files, its named cells are *)
(* those under that name in the line's own file, no line that was asked    *)
(* for is left out before the limit, and --unique prints a row once.  The  *)
(* names are those of a file's first line and of no later one: a file that *)
(* was gone through has them there or had nothing but lines to pass over,  *)
(* and cut gives up at a file that cannot be read, or lacks a name in its  *)
(* first line and has a line to read, and at no other (cut.rs,             *)
(* process_lines).                                                         *)
Column(f, name) ==
  CHOOSE j \in DOMAIN Split(f.lines[1], cmd) : Split(f.lines[1], cmd)[j] = <<name>>
Cells(f, i) ==
  LET line == Split(f.lines[i], cmd)
      there == SelectSeq(cmd.fields.of, LAMBDA name : Column(f, name) <= Len(line))
  IN [k \in DOMAIN there |-> line[Column(f, there[k])]]
NamedFirst(f) == f.lines # <<>> /\ \A i \in DOMAIN cmd.fields.of : <<cmd.fields.of[i]>> \in ToSet(Split(f.lines[1], cmd))
PassedOver(f) == \A i \in DOMAIN f.lines : cmd.skip /\ Blank(f.lines[i])
CellsAreNamed ==
  /\ cmd # None /\ cmd.op = "cut" /\ cmd.fields.kind = "names" => \A i \in DOMAIN taken : NamedFirst(taken[i]) \/ PassedOver(taken[i])
  /\ cmd # None /\ cmd.op = "cut" /\ code = 2 =>
       IF Unread(Arg, "cut") THEN TRUE
       ELSE cmd.fields.kind = "names" /\ ~NamedFirst(Content(Arg)) /\ ~PassedOver(Content(Arg))
  /\ Ended("cut") =>
    /\ cmd.unique => \A i, j \in DOMAIN rows : rows[i] = rows[j] => i = j
    /\ cmd.fields.kind = "names" =>
         LET lines == {k \in (DOMAIN taken) \X (2..3) : k[2] \in DOMAIN taken[k[1]].lines}
             asked == {k \in lines : /\ Filtered(Split(taken[k[1]].lines[k[2]], cmd), cmd)
                                     /\ cmd.skip => ~Blank(taken[k[1]].lines[k[2]])}
         IN /\ \A i \in DOMAIN rows : \E k \in asked : rows[i] = Cells(taken[k[1]], k[2])
            /\ Stopped \/ \A k \in asked : Cells(taken[k[1]], k[2]) \in ToSet(rows)

(* A date that stat prints is the day that find is asked for with it, and  *)
(* of two sizes the larger is never told as the smaller.                   *)
DatesAndSizesAgree ==
  Ended("stat") =>
    /\ \A d \in Days : days_from_civil(civil_from_days(d)) = d
    /\ \A a, b \in Sizes : a < b => human(a)[1] * human(a)[2] <= human(b)[1] * human(b)[2]
    /\ \A a \in Sizes : LET far == parse_size(human(a)) - a IN 20 * (IF far < 0 THEN -far ELSE far) <= Unit(a) + 20

(* What the commands say of the files they are given.                      *)
ReadsAreTrue == CountsAgree /\ RangesPart /\ CellsAreNamed /\ DatesAndSizesAgree
=============================================================================
