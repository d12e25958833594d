---------------------------- MODULE BoundedWriter ----------------------------
(***************************************************************************)
(* BoundedWriter (src/output.rs): every command prints its results through *)
(* one, which stops at a limit, announces a limit the caller did not       *)
(* choose, and keeps decorations (headings, separators) out of the count.  *)
(* The commands are its clients: they offer rows and decorations in any    *)
(* order, and may or may not stop when a row is refused.  The reader of    *)
(* standard output may go away at any time.                                *)
(***************************************************************************)
EXTENDS Integers, Sequences

CONSTANTS
  Limits,   \* the limits tried: [kind, n], n counts only when kind # "none"
  Row,      \* what a client may offer as a row
  Deco      \* what a client may print as a decoration

LimitType == [kind : {"none", "explicit", "default"}, n : Nat]

ASSUME LimitsAssumption == Limits \subseteq LimitType

VARIABLES
  limit,         \* the Limit the writer was made with
  lines_written, \* rows written so far
  truncated,     \* whether a row was refused
  stdout,        \* what was written: [row, text], row = 0 for a decoration
  notices,       \* how many truncation notices went to stderr
  reader,        \* TRUE while standard output has a reader
  offered        \* history: every row offered to write_line, in order

writerVars == <<limit, lines_written, truncated, stdout, notices, offered>>
writerAll == <<writerVars, reader>>

WriterInit ==
  /\ limit \in Limits
  /\ lines_written = 0 /\ truncated = FALSE
  /\ stdout = <<>> /\ notices = 0
  /\ reader = TRUE
  /\ offered = <<>>

(* Limit::max_lines against lines_written.                                 *)
AtLimit_OffByOne == limit.kind # "none" /\ lines_written > limit.n

AtLimit == limit.kind # "none" /\ lines_written >= limit.n

(* truncation_notice: only a cap the caller did not choose is announced.   *)
Announced_Always == limit.kind # "none"

Announced == limit.kind = "default"

(* write_line: the row is written, or refused (Ok(false)).                 *)
WriteLine(row) ==
  /\ offered' = Append(offered, row)
  /\ \/ /\ AtLimit
        /\ truncated' = TRUE
        /\ notices' = IF ~truncated /\ Announced THEN notices + 1 ELSE notices
        /\ UNCHANGED <<limit, lines_written, stdout, reader>>
     \/ /\ ~AtLimit /\ reader
        /\ stdout' = Append(stdout, [row |-> Len(offered'), text |-> row])
        /\ lines_written' = lines_written + 1
        /\ UNCHANGED <<limit, truncated, notices, reader>>

(* write_decoration: nothing after a refused row, never counted.           *)
WriteDecoration(text) ==
  /\ truncated \/ reader
  /\ stdout' = IF truncated THEN stdout
               ELSE Append(stdout, [row |-> 0, text |-> text])
  /\ UNCHANGED <<limit, lines_written, truncated, notices, offered, reader>>

(* A write fails with EPIPE: its bytes are lost and the error is returned. *)
LineFails == ~AtLimit /\ ~reader
DecorationFails == ~truncated /\ ~reader

CloseReader ==
  /\ reader
  /\ reader' = FALSE
  /\ UNCHANGED writerVars

(* The most general client.                                                *)
WriterNext ==
  \/ \E row \in Row : WriteLine(row)
  \/ \E text \in Deco : WriteDecoration(text)
  \/ CloseReader

WriterSpec == WriterInit /\ [][WriterNext]_writerAll

-----------------------------------------------------------------------------
(* Properties.                                                             *)

Entry == [row : Nat, text : Row \cup Deco]

WriterTypeOK ==
  /\ limit \in Limits
  /\ lines_written \in Nat /\ truncated \in BOOLEAN
  /\ stdout \in Seq(Entry) /\ notices \in Nat
  /\ reader \in BOOLEAN
  /\ offered \in Seq(Row)

IsRow(i) == stdout[i].row # 0

(* What a bounded output promises: the rows printed are the first rows the *)
(* command produced, each once, in order and unchanged, and never more of  *)
(* them than the limit, whatever decorations are printed among them.       *)
RowsArePrefix ==
  /\ \A i \in 1 .. Len(stdout) :
       IsRow(i) => /\ stdout[i].row <= lines_written
                   /\ stdout[i].text = offered[stdout[i].row]
  /\ \A k \in 1 .. lines_written :
       \E i \in 1 .. Len(stdout) : stdout[i].row = k
  /\ \A i, j \in 1 .. Len(stdout) :
       i < j /\ IsRow(i) /\ IsRow(j) => stdout[i].row < stdout[j].row
  /\ limit.kind # "none" => lines_written <= limit.n
  /\ lines_written <= Len(offered)

(* A cut is complete and is announced exactly when the caller did not ask  *)
(* for it: nothing was withheld unless truncated is set, and the one       *)
(* notice is there iff a default limit withheld a row.                     *)
CutIsAnnounced ==
  /\ truncated <=> lines_written < Len(offered)
  /\ notices = IF truncated /\ limit.kind = "default" THEN 1 ELSE 0

(* Nothing is printed after a row was withheld.                            *)
NothingAfterCut == [][truncated => UNCHANGED stdout]_writerAll
=============================================================================
