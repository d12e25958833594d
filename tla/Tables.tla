------------------------------- MODULE Tables --------------------------------
(***************************************************************************)
(* `sak csv` (src/csv): headers, query, stats and validate read the tables *)
(* they are given one after the other, record by record, until a limit or  *)
(* a record that cannot be read stops them.                                *)
(*                                                                         *)
(* A cell is <<type, value>>, its type what infer_cell makes of its text.  *)
(* A table is a sequence of records, one that cannot be parsed is Torn.    *)
(***************************************************************************)
EXTENDS Integers, Sequences, FiniteSets, SequencesExt

CONSTANTS
  Tabs,      \* what the files may hold: [name -> table]
  Commands,  \* [op, args, columns, filters, bare, types, strict, quiet, sample, limit]
  None,      \* no file, no columns, no bound, no sample
  Torn,
  MaxChanges \* bound: how often another program changes a file

VARIABLES files, cmd, at, taken, heading, found, rows, invalid, code, changes
vars == <<files, cmd, at, taken, heading, found, rows, invalid, code, changes>>

Change ==
  /\ cmd # None /\ code = -1 /\ changes < MaxChanges /\ changes' = changes + 1
  /\ \E t \in Tabs, n \in DOMAIN files : files' = [files EXCEPT ![n] = t[n]]
  /\ UNCHANGED <<cmd, at, taken, heading, found, rows, invalid, code>>

-----------------------------------------------------------------------------
(* headers.rs: what a column's cells make of its type.                     *)

Absent == <<"empty", 0>>
Wider == <<"empty", "bool", "integer", "float", "string">>
Width(type) == CHOOSE i \in DOMAIN Wider : Wider[i] = type
promote_Last(a, b) == IF b = "empty" THEN a ELSE b
promote(a, b) == IF Width(a) >= Width(b) THEN a ELSE b
is_numeric(type) == type \in {"integer", "float"}

(* The reader: --no-header has no header; a record of another length than  *)
(* the first is torn for a strict reader only.                             *)
HeaderOf(t, c) == IF c.bare \/ t = <<>> THEN None ELSE t[1]
Body(t, c) == IF c.bare \/ t = <<>> THEN t ELSE Tail(t)
Unequal(t, i) == t[1] # Torn /\ t[i] # Torn /\ Len(t[i]) # Len(t[1])
Readable(t, c) == \A i \in DOMAIN t : t[i] # Torn /\ (c.op = "validate" /\ c.strict => ~Unequal(t, i))
BeforeTear(records) ==
  LET torn == {i \in DOMAIN records : records[i] = Torn}
  IN IF torn = {} THEN records ELSE SubSeq(records, 1, (CHOOSE i \in torn : \A j \in torn : i <= j) - 1)
Sampled(t, c) == IF c.sample = None \/ c.sample >= Len(Body(t, c)) THEN Body(t, c) ELSE SubSeq(Body(t, c), 1, c.sample)

Cell(record, i) == IF i <= Len(record) THEN record[i] ELSE Absent
Column(records, i) == [k \in DOMAIN records |-> records[k][i]]
(* A record that is too short has no cell to be observed.                  *)
Observed(records, i) == Column(SelectSeq(records, LAMBDA r : i <= Len(r)), i)
Inferred(cells) == FoldLeft(LAMBDA type, cell : promote(type, cell[1]), "empty", cells)

header_rows(t, c) ==
  [i \in DOMAIN t[1] |-> <<i, t[1][i], IF c.types THEN Inferred(Observed(Sampled(t, c), i)) ELSE None>>]

-----------------------------------------------------------------------------
(* stats.rs, observe: what is kept of a column.  A mean is <<sum, count>>. *)

Numbers(cells) == SelectSeq(cells, LAMBDA cell : is_numeric(cell[1]))
Values(cells) == {Numbers(cells)[i][2] : i \in DOMAIN Numbers(cells)}
column_stats(cells) ==
  LET type == Inferred(cells)
      some == is_numeric(type) /\ Values(cells) # {}
      empty == Len(SelectSeq(cells, LAMBDA cell : cell[1] = "empty"))
      sum == FoldSeq(LAMBDA cell, n : n + cell[2], 0, Numbers(cells))
  IN [type |-> type, empty |-> empty, nonempty |-> Len(cells) - empty,
      min |-> IF some THEN CHOOSE v \in Values(cells) : \A w \in Values(cells) : v <= w ELSE None,
      max |-> IF some THEN CHOOSE v \in Values(cells) : \A w \in Values(cells) : v >= w ELSE None,
      mean |-> IF some THEN <<sum, Len(Numbers(cells))>> ELSE None]
(* The columns are the header's; without one those of the widest record.   *)
Columns(t, c) ==
  IF HeaderOf(t, c) # None THEN DOMAIN t[1]
  ELSE UNION {DOMAIN Sampled(t, c)[i] : i \in DOMAIN Sampled(t, c)}

-----------------------------------------------------------------------------
(* query.rs: a column is given by its number or its name.                  *)

IsName(r) == r[1] = "name"
Resolvable(r, header) == IsName(r) => header # None /\ \E i \in DOMAIN header : header[i] = r[2]
resolve_column(r, header) ==
  IF IsName(r) THEN CHOOSE i \in DOMAIN header : header[i] = r[2] /\ \A j \in 1..(i - 1) : header[j] # r[2]
  ELSE r[2]
Refs(c) == (IF c.columns = None THEN <<>> ELSE c.columns) \o [i \in DOMAIN c.filters |-> c.filters[i].ref]
Plannable(t, c) == \A i \in DOMAIN Refs(c) : Resolvable(Refs(c)[i], HeaderOf(t, c))
filter_matches(record, t, c) ==
  \A i \in DOMAIN c.filters : Cell(record, resolve_column(c.filters[i].ref, HeaderOf(t, c))) = c.filters[i].is
Projected(record, t, c) ==
  IF c.columns = None THEN record
  ELSE [i \in DOMAIN c.columns |-> Cell(record, resolve_column(c.columns[i], HeaderOf(t, c)))]
output_header(t, c) == IF HeaderOf(t, c) = None THEN <<>> ELSE Projected(HeaderOf(t, c), t, c)
Asked(t, c) == SelectSeq(BeforeTear(Body(t, c)), LAMBDA r : filter_matches(r, t, c))
query_rows(t, c) == [i \in DOMAIN Asked(t, c) |-> Projected(Asked(t, c)[i], t, c)]

-----------------------------------------------------------------------------
(* The commands, an argument at a time.                                    *)

Arg == cmd.args[at]
Turn(op) == cmd # None /\ code = -1 /\ at <= Len(cmd.args) /\ cmd.op = op
Opened == files[Arg] # None
Room == IF cmd.limit = None THEN -1 ELSE cmd.limit - Len(rows)
Fits(s) == Room = -1 \/ Len(s) <= Room
Fit(s) == IF Fits(s) THEN s ELSE SubSeq(s, 1, Room)

Start(c) ==
  /\ cmd = None /\ cmd' = c /\ at' = 1
  /\ code' = IF c.op = "stats" /\ Len(c.args) > 1 THEN 2 ELSE -1
  /\ UNCHANGED <<files, taken, heading, found, rows, invalid, changes>>

(* The rows of one table; when they do not fit, nothing more is looked at. *)
Emit(new, fails) ==
  /\ taken' = Append(taken, files[Arg]) /\ rows' = rows \o Fit(new)
  /\ at' = IF Fits(new) THEN at + 1 ELSE Len(cmd.args) + 1
  /\ code' = IF fails /\ Fits(new) THEN 2 ELSE -1
  /\ UNCHANGED <<files, cmd, changes>>

Headers ==
  /\ Turn("headers") /\ Opened
  /\ LET t == files[Arg]
         torn == t # <<>> /\ (t[1] = Torn \/ (cmd.types /\ BeforeTear(Sampled(t, cmd)) # Sampled(t, cmd)))
     IN Emit(IF torn \/ t = <<>> THEN <<>> ELSE header_rows(t, cmd), torn)
  /\ UNCHANGED <<heading, found, invalid>>

(* The first header there is stands above the rows of every file.          *)
Query ==
  /\ Turn("query") /\ Opened
  /\ LET t == files[Arg]
         bad == (t # <<>> /\ ~cmd.bare /\ t[1] = Torn)
     IN IF (IF bad THEN TRUE ELSE ~Plannable(t, cmd)) THEN Emit(<<>>, TRUE) /\ UNCHANGED <<heading, found>>
        ELSE /\ Emit(query_rows(t, cmd), BeforeTear(Body(t, cmd)) # Body(t, cmd))
             /\ heading' = IF heading = <<>> THEN output_header(t, cmd) ELSE heading
             /\ found' = (found \/ Asked(t, cmd) # <<>>)
  /\ UNCHANGED invalid

Stats ==
  /\ Turn("stats") /\ Opened
  /\ LET t == files[Arg]
         bad == \/ BeforeTear(Sampled(t, cmd)) # Sampled(t, cmd)
                \/ (t # <<>> /\ ~cmd.bare /\ t[1] = Torn)
         chosen == IF cmd.columns = None THEN SetToSortSeq(Columns(t, cmd), <)
                   ELSE [i \in DOMAIN cmd.columns |-> resolve_column(cmd.columns[i], HeaderOf(t, cmd))]
         lost == IF bad THEN TRUE
                 ELSE \/ cmd.columns # None /\ ~Plannable(t, cmd)
                      \/ cmd.columns # None /\ \E i \in DOMAIN cmd.columns :
                           ~IsName(cmd.columns[i]) /\ cmd.columns[i][2] \notin Columns(t, cmd)
     IN Emit(IF lost THEN <<>>
             ELSE <<Len(Sampled(t, cmd)), Cardinality(Columns(t, cmd))>>
                  \o [i \in DOMAIN chosen |-> [column_stats(Observed(Sampled(t, cmd), chosen[i])) EXCEPT !.nonempty = <<@, chosen[i]>>]], lost)
  /\ UNCHANGED <<heading, found, invalid>>

(* A file that cannot be opened is as invalid as one that cannot be read.  *)
Validate ==
  /\ Turn("validate")
  /\ LET good == Opened /\ Readable(files[Arg], cmd)
     IN /\ Emit(IF good /\ ~cmd.quiet THEN <<Arg>> ELSE <<>>, FALSE)
        /\ invalid' = (invalid \/ ~good)
  /\ UNCHANGED <<heading, found>>

CannotOpen ==
  /\ \E op \in {"headers", "query", "stats"} : Turn(op)
  /\ ~Opened /\ code' = 2
  /\ UNCHANGED <<files, cmd, at, taken, heading, found, rows, invalid, changes>>

Finish ==
  /\ cmd # None /\ code = -1 /\ at > Len(cmd.args)
  /\ code' = IF (cmd.op = "query" /\ ~found) \/ invalid THEN 1 ELSE 0
  /\ UNCHANGED <<files, cmd, at, taken, heading, found, rows, invalid, changes>>

Init ==
  /\ files \in Tabs /\ cmd = None /\ at = 0 /\ taken = <<>> /\ heading = <<>> /\ found = FALSE
  /\ rows = <<>> /\ invalid = FALSE /\ code = -1 /\ changes = 0

Next ==
  \/ Change \/ Headers \/ Query \/ Stats \/ Validate \/ CannotOpen \/ Finish
  \/ \E c \in Commands : Start(c)

Spec == Init /\ [][Next]_vars
-----------------------------------------------------------------------------
(* Properties.                                                             *)

Ended(op) == cmd # None /\ cmd.op = op /\ code \in {0, 1}
Stopped == cmd.limit # None /\ Len(rows) = cmd.limit
Named == cmd.columns # None /\ ~cmd.bare /\ \A i \in DOMAIN cmd.columns : IsName(cmd.columns[i])

(* With its columns given by name, query prints under a heading only what  *)
(* stands under that heading in the row's own file, whatever the order of  *)
(* each file's columns; no row asked for is lost before the limit; and the *)
(* answer is 0 iff one was found, shown or not (query.rs).                 *)
StandsUnder(cell, name, t, record) ==
  \/ \E i \in DOMAIN t[1] : t[1][i] = name /\ i <= Len(record) /\ record[i] = cell
  \/ cell = Absent
QueryIsTrue ==
  Ended("query") =>
    /\ code = 0 <=> \E i \in DOMAIN taken : Asked(taken[i], cmd) # <<>>
    /\ Stopped \/ Len(rows) = FoldSeq(LAMBDA t, n : n + Len(Asked(t, cmd)), 0, taken)
    /\ Named => \A k \in DOMAIN rows : \E i \in DOMAIN taken : \E record \in ToSet(Body(taken[i], cmd)) :
         \A j \in DOMAIN heading : StandsUnder(rows[k][j], heading[j], taken[i], record)

(* What stats says of a column does not depend on the order of its rows,   *)
(* the mean lies between the bounds, no cell is counted twice, and headers *)
(* gives the column the same type (stats.rs, headers.rs).                  *)
Blocks == {i \in DOMAIN rows : i > 2}
StatsAreTrue ==
  Ended("stats") => \A i \in Blocks :
    LET s == rows[i]
        records == Sampled(taken[1], cmd)
        column == s.nonempty[2]
    IN /\ column_stats(Observed(Reverse(records), column)) = [s EXCEPT !.nonempty = @[1]]
       /\ s.min # None => /\ s.min * s.mean[2] <= s.mean[1] /\ s.mean[1] <= s.max * s.mean[2]
                          /\ s.mean[2] <= s.nonempty[1]
       /\ (s.type = "empty") = (s.nonempty[1] = 0) /\ s.nonempty[1] + s.empty <= rows[1]
       /\ HeaderOf(taken[1], cmd) # None =>
            header_rows(taken[1], [cmd EXCEPT !.types = TRUE])[column][3] = s.type

(* What validate calls valid query reads to its end, and exit 1 is said    *)
(* iff a file it came to is not: a limit may stop it before (validate.rs). *)
ValidIsReadable ==
  Ended("validate") =>
    /\ (code = 1) = \E i \in DOMAIN taken : taken[i] = None \/ ~Readable(taken[i], cmd)
    /\ \A i \in DOMAIN taken :
         taken[i] # None /\ Readable(taken[i], cmd) => BeforeTear(Body(taken[i], cmd)) = Body(taken[i], cmd)
    /\ code = 0 /\ ~cmd.quiet => Len(rows) = Len(cmd.args) \/ Stopped

(* What the commands say of the tables they are given.                     *)
TablesAreTrue == QueryIsTrue /\ StatsAreTrue /\ ValidIsReadable
=============================================================================
