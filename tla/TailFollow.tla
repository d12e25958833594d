------------------------------ MODULE TailFollow ------------------------------
(***************************************************************************)
(* `sak fs tail --follow` (src/fs/tail.rs): print the last N lines or      *)
(* bytes of a file, then poll the file for growth until a window elapses.  *)
(*                                                                         *)
(* Three parties take steps in any order: the program that writes the      *)
(* file (appends, truncates it in place, or replaces it by renaming it     *)
(* away and creating a new one), the follower, and the reader of the       *)
(* follower's standard output, which may go away.  Every system call of    *)
(* the follower that looks at the file is a step of its own.               *)
(*                                                                         *)
(* A file is a sequence of bytes.  Only what the follower can tell apart   *)
(* is kept of a byte: "nl" ends a line, "cr" is a carriage return, "hi"    *)
(* "lo" are the two bytes of one UTF-8 character, "a" is any other byte.   *)
(* Text (what lossy decoding yields) has the characters "a", "cr", "nl",   *)
(* "wide" (a decoded "hi" "lo" pair) and "fffd" (the replacement           *)
(* character U+FFFD).                                                      *)
(***************************************************************************)
EXTENDS Integers, Sequences, FiniteSets, Numbers

CONSTANTS
  Modes,       \* which of {"lines", "bytes"} are run
  Windows,     \* which of {"finite", "none"}: --for DURATION, --for 0
  LastN,       \* the values of -n / --bytes tried
  Byte,        \* the bytes the writer uses
  Initial,     \* the contents the file may have when the command starts
  Chunks,      \* what one append adds: some sequences of them
  MaxLen,      \* bound: the longest content of the file
  MaxRewrites  \* bound: how often the file is truncated or renamed away

ByteClass == {"a", "cr", "nl", "hi", "lo"}
CharClass == {"a", "cr", "nl", "wide", "fffd"}

ASSUME ModesAssumption == Modes \subseteq {"lines", "bytes"}
ASSUME WindowsAssumption == Windows \subseteq {"finite", "none"}
ASSUME CountsAssumption ==
  /\ LastN \subseteq Nat
  /\ MaxLen \in Nat /\ MaxRewrites \in Nat
ASSUME BytesAssumption ==
  /\ Byte \subseteq ByteClass
  /\ Initial \subseteq Seq(Byte)
  /\ Chunks \subseteq Seq(Byte)

VARIABLES
  inodes,    \* the content of each inode the path has ever named, oldest first
  named,     \* the inode the path names now, 0 while there is none
  rewrites,  \* how often the file was truncated or renamed away
  reader,    \* TRUE while standard output has a reader
  expired,   \* TRUE once the --for window is over
  args,      \* [mode, n, window]: the command line
  pc,        \* what the follower does next
  fd,        \* the inode the follower has open (0: none yet)
  seen,      \* the length its last stat returned
  offset,    \* how much of the file it has consumed
  pending,   \* lines mode: bytes read but not printed, an incomplete line
  next,      \* lines mode: the number of the next completed line
  grew,      \* whether a poll found data
  out,       \* what was handed to stdout: rows, or bytes
  visible,   \* how many elements of out have left stdout's buffer
  outcome,   \* "running", or how the command ended
  stale,     \* history: the file was rewritten and the follower did not see it
  epoch,     \* history: Len(out) when the printing of this content began
  base       \* history: the bytes, or lines, of this content not to be printed

writerVars == <<inodes, named, rewrites>>
lineVars == <<pending, next>>
historyVars == <<stale, epoch, base>>
vars == <<inodes, named, rewrites, reader, expired, args, pc, fd, seen, offset,
          pending, next, grew, out, visible, outcome, stale, epoch, base>>

-----------------------------------------------------------------------------
(* Bytes, lines and text.                                                  *)

NlAt(s) == {i \in DOMAIN s : s[i] = "nl"}

(* The position of the k-th newline of s, 0 for k = 0.                     *)
NthNl(s, k) == IF k = 0 THEN 0 ELSE Nth(NlAt(s), k)

Partial(s) == s # <<>> /\ s[Len(s)] # "nl"

LineCount(s) == Cardinality(NlAt(s)) + (IF Partial(s) THEN 1 ELSE 0)

LineAt(s, k) ==
  SubSeq(s, NthNl(s, k - 1) + 1,
         IF k <= Cardinality(NlAt(s)) THEN NthNl(s, k) - 1 ELSE Len(s))

(* String::from_utf8_lossy: a byte that is no part of a character becomes  *)
(* U+FFFD.                                                                 *)
CharStarts(s) == {i \in DOMAIN s : ~(s[i] = "lo" /\ i > 1 /\ s[i - 1] = "hi")}
CharAt(s, i) ==
  IF s[i] = "hi" /\ i < Len(s) /\ s[i + 1] = "lo" THEN "wide"
  ELSE IF s[i] \in {"hi", "lo"} THEN "fffd" ELSE s[i]
Lossy(s) ==
  [k \in 1 .. Cardinality(CharStarts(s)) |-> CharAt(s, Nth(CharStarts(s), k))]

(* str::lines drops the "\r" of a "\r\n"; a last line without a newline    *)
(* keeps its bytes.                                                        *)
StripCr(line) ==
  IF line # <<>> /\ line[Len(line)] = "cr" THEN SubSeq(line, 1, Len(line) - 1)
  ELSE line

InitialLine(s, k) ==
  IF k <= Cardinality(NlAt(s)) THEN StripCr(LineAt(s, k)) ELSE LineAt(s, k)

Row(num, body) == [num |-> num, body |-> body]

SaturatingSub(x, y) == IF x < y THEN 0 ELSE x - y

(* follow_initial: the last n lines as rows; an unfinished last line is    *)
(* printed, kept pending (as decoded text) and keeps its number.           *)
InitialRows(text, n) ==
  LET total == LineCount(text)
      start == SaturatingSub(total, n)
  IN [i \in 1 .. total - start |-> Row(start + i, InitialLine(text, start + i))]

InitialPending(text) ==
  IF Partial(text) THEN LineAt(text, LineCount(text)) ELSE <<>>

InitialNext(text) ==
  IF Partial(text) THEN LineCount(text) ELSE LineCount(text) + 1

-----------------------------------------------------------------------------
Init ==
  /\ inodes \in {<<c>> : c \in Initial}
  /\ named = 1
  /\ rewrites = 0
  /\ reader = TRUE
  /\ expired = FALSE
  /\ args \in [mode : Modes, n : LastN, window : Windows]
  /\ pc = "start"
  /\ fd = 0 /\ seen = 0 /\ offset = 0
  /\ pending = <<>> /\ next = 1
  /\ grew = FALSE
  /\ out = <<>> /\ visible = 0
  /\ outcome = "running"
  /\ stale = FALSE /\ epoch = 0 /\ base = 0

-----------------------------------------------------------------------------
(* The writer of the file, the clock and the reader of stdout.             *)

Current == Len(inodes)   \* the inode the writer has open

followerVars == <<args, pc, fd, seen, offset, pending, next, grew, out, visible,
                  outcome>>

Append_(chunk) ==
  /\ Len(inodes[Current]) + Len(chunk) <= MaxLen
  /\ inodes' = [inodes EXCEPT ![Current] = @ \o chunk]
  /\ UNCHANGED <<named, rewrites, reader, expired, followerVars, historyVars>>

Truncate ==
  /\ rewrites < MaxRewrites
  /\ inodes[Current] # <<>>
  /\ inodes' = [inodes EXCEPT ![Current] = <<>>]
  /\ rewrites' = rewrites + 1
  /\ stale' = (stale \/ (fd = Current /\ offset > 0))
  /\ UNCHANGED <<named, reader, expired, followerVars, epoch, base>>

RenameAway ==
  /\ rewrites < MaxRewrites
  /\ named # 0
  /\ named' = 0
  /\ rewrites' = rewrites + 1
  /\ UNCHANGED <<inodes, reader, expired, followerVars, historyVars>>

Recreate ==
  /\ named = 0
  /\ inodes' = Append(inodes, <<>>)
  /\ named' = Len(inodes')
  /\ UNCHANGED <<rewrites, reader, expired, followerVars, historyVars>>

CloseReader ==
  /\ reader
  /\ reader' = FALSE
  /\ UNCHANGED <<writerVars, expired, followerVars, historyVars>>

Polling == pc \in {"loop", "stat", "read", "emit"}

(* The window starts when poll_growth has opened the file.                 *)
Expire ==
  /\ args.window = "finite"
  /\ Polling /\ ~expired
  /\ expired' = TRUE
  /\ UNCHANGED <<writerVars, reader, followerVars, historyVars>>

-----------------------------------------------------------------------------
(* The follower.                                                           *)

envVars == <<inodes, named, rewrites, reader, expired, args>>
printVars == <<out, visible>>

Content == inodes[fd]
LastNl(s) ==
  IF NlAt(s) = {} THEN 0 ELSE CHOOSE i \in NlAt(s) : \A j \in NlAt(s) : j <= i
FirstNl(s) == CHOOSE i \in NlAt(s) : \A j \in NlAt(s) : i <= j

(* The command returns; std flushes stdout's buffer when the process exits.*)
EndWith(result) ==
  /\ pc' = "done"
  /\ outcome' = result
  /\ visible' = IF reader THEN Len(out) ELSE visible
  /\ UNCHANGED <<envVars, fd, seen, offset, lineVars, grew, out, historyVars>>

(* follow_lines: fs::read, follow_initial, emit_numbered, flush.           *)
StartLines ==
  /\ pc = "start" /\ args.mode = "lines" /\ named # 0
  /\ LET bytes == inodes[named]
         text  == Lossy(bytes)
     IN /\ out' = InitialRows(text, args.n)
        /\ pending' = InitialPending(text)
        /\ next' = InitialNext(text)
        /\ offset' = Len(bytes)
        /\ base' = SaturatingSub(LineCount(text), args.n)
  /\ out' # <<>> => reader
  /\ visible' = Len(out')
  /\ fd' = named
  /\ pc' = "open"
  /\ UNCHANGED <<envVars, seen, grew, outcome, stale, epoch>>

(* tail_bytes opens the file and stats it ...                              *)
StartBytes ==
  /\ pc = "start" /\ args.mode = "bytes" /\ named # 0
  /\ fd' = named
  /\ seen' = Len(inodes[named])
  /\ pc' = IF args.n = 0 \/ seen' = 0 THEN "measure" ELSE "readlast"
  /\ UNCHANGED <<envVars, offset, lineVars, grew, printVars, outcome, historyVars>>

LastBytes == SubSeq(Content, SaturatingSub(seen, args.n) + 1, Len(Content))

(* ... then reads from there to the end and writes: stdout is line         *)
(* buffered, so only what ends in a newline leaves the process.            *)
ReadLast ==
  /\ pc = "readlast"
  /\ NlAt(LastBytes) # {} => reader
  /\ out' = LastBytes
  /\ visible' = LastNl(LastBytes)
  /\ pc' = "measure"
  /\ UNCHANGED <<envVars, fd, seen, offset, lineVars, grew, outcome, historyVars>>

(* follow_bytes stats the path again for the offset polling starts at.     *)
Measure ==
  /\ pc = "measure" /\ named # 0
  /\ offset' = Len(inodes[named])
  /\ fd' = named
  /\ pc' = "open"
  /\ UNCHANGED <<envVars, seen, lineVars, grew, printVars, outcome, historyVars>>

(* poll_growth opens the path once; the deadline is set here.              *)
Open ==
  /\ pc = "open" /\ named # 0
  /\ fd' = named
  /\ stale' = (stale \/ (fd # named /\ offset > 0))
  /\ epoch' = IF args.mode = "bytes" THEN Len(out) ELSE 0
  /\ base' = IF args.mode = "bytes" THEN offset ELSE base
  /\ pc' = "loop"
  /\ UNCHANGED <<envVars, seen, offset, lineVars, grew, printVars, outcome>>

PathMissing ==
  /\ pc \in {"start", "measure", "open"} /\ named = 0
  /\ EndWith("error")

(* The top of poll_growth's loop: stop when the window is over, otherwise  *)
(* sleep for at most FOLLOW_POLL.                                          *)
Stop ==
  /\ pc = "loop" /\ expired
  /\ EndWith(IF grew THEN "Found" ELSE "NotFound")

pollUnchanged == <<envVars, fd, seen, offset, lineVars, grew, printVars, outcome,
                   historyVars>>

Nap == pc = "loop" /\ ~expired /\ pc' = "stat" /\ UNCHANGED pollUnchanged

(* mistake: an unchanged length counts as a truncation *)
StatShorter_OrSame ==
  /\ pc = "stat" /\ Len(Content) <= offset
  /\ offset' = 0 /\ pending' = <<>> /\ next' = 1
  /\ pc' = "loop"
  /\ UNCHANGED <<envVars, fd, seen, grew, printVars, outcome, historyVars>>

(* Shorter than what was consumed: start over at offset 0.                 *)
StatShorter ==
  /\ pc = "stat" /\ Len(Content) < offset
  /\ offset' = 0
  /\ IF args.mode = "lines" THEN pending' = <<>> /\ next' = 1
                            ELSE UNCHANGED lineVars
  /\ stale' = FALSE /\ epoch' = Len(out) /\ base' = 0
  /\ pc' = "loop"
  /\ UNCHANGED <<envVars, fd, seen, grew, printVars, outcome>>

(* mistake: nothing new goes back to the stat, past the check of the window *)
StatSame_SkipsWindow ==
  pc = "stat" /\ Len(Content) = offset /\ UNCHANGED <<pc, pollUnchanged>>

StatSame ==
  pc = "stat" /\ Len(Content) = offset /\ pc' = "loop" /\ UNCHANGED pollUnchanged

(* mistake: one new byte is not enough *)
StatLonger_OffByOne ==
  /\ pc = "stat" /\ Len(Content) >= offset
  /\ pc' = IF Len(Content) > offset + 1 THEN "read" ELSE "loop"
  /\ UNCHANGED pollUnchanged

StatLonger ==
  pc = "stat" /\ Len(Content) > offset /\ pc' = "read" /\ UNCHANGED pollUnchanged

(* Seek to offset and read to the end of the file as it is now.            *)
Fresh == SubSeq(Content, offset + 1, Len(Content))

(* mistake: an incomplete line is not carried over to the next poll *)
ReadLines_DropsPending ==
  /\ pc = "read" /\ args.mode = "lines"
  /\ pending' = Fresh /\ offset' = offset + Len(Fresh)
  /\ grew' = TRUE /\ pc' = "emit"
  /\ UNCHANGED <<envVars, fd, seen, next, printVars, outcome, historyVars>>

ReadLines ==
  /\ pc = "read" /\ args.mode = "lines"
  /\ pending' = pending \o Fresh
  /\ offset' = offset + Len(Fresh)
  /\ grew' = TRUE
  /\ pc' = "emit"
  /\ UNCHANGED <<envVars, fd, seen, next, printVars, outcome, historyVars>>

(* mistake: the offset is not advanced past what was printed *)
ReadBytes_KeepsOffset ==
  /\ pc = "read" /\ args.mode = "bytes" /\ reader
  /\ out' = out \o Fresh /\ visible' = Len(out')
  /\ grew' = TRUE /\ pc' = "loop"
  /\ UNCHANGED <<envVars, fd, seen, offset, lineVars, outcome, historyVars>>

ReadBytes ==
  /\ pc = "read" /\ args.mode = "bytes"
  /\ Fresh # <<>> \/ visible < Len(out) => reader
  /\ out' = out \o Fresh
  /\ visible' = Len(out')
  /\ offset' = offset + Len(Fresh)
  /\ grew' = TRUE
  /\ pc' = "loop"
  /\ UNCHANGED <<envVars, fd, seen, lineVars, outcome, historyVars>>

(* take_complete_lines and the loop over its result: each complete line is *)
(* printed with the next number; the rest stays pending.                   *)
EmitLine ==
  /\ pc = "emit" /\ NlAt(pending) # {} /\ reader
  /\ LET i == FirstNl(pending)
     IN /\ out' = Append(out, Row(next, Lossy(SubSeq(pending, 1, i - 1))))
        /\ pending' = SubSeq(pending, i + 1, Len(pending))
  /\ visible' = Len(out')
  /\ next' = next + 1
  /\ UNCHANGED <<envVars, pc, fd, seen, offset, grew, outcome, historyVars>>

EmitDone ==
  pc = "emit" /\ NlAt(pending) = {} /\ pc' = "loop" /\ UNCHANGED pollUnchanged

(* The steps above that write to stdout end the command without a reader:  *)
(* main maps the EPIPE error to exit 0.                                    *)
Writes ==
  \/ pc = "start" /\ args.mode = "lines" /\ named # 0
     /\ InitialRows(Lossy(inodes[named]), args.n) # <<>>
  \/ pc = "readlast" /\ NlAt(LastBytes) # {}
  \/ pc = "read" /\ args.mode = "bytes" /\ (Fresh # <<>> \/ visible < Len(out))
  \/ pc = "emit" /\ NlAt(pending) # {}

BrokenPipe == ~reader /\ Writes /\ EndWith("brokenpipe")

Done == outcome # "running" /\ UNCHANGED vars

-----------------------------------------------------------------------------
(* What others do matters only while the command runs.                     *)
Environment ==
  /\ outcome = "running"
  /\ \/ \E chunk \in Chunks : Append_(chunk)
     \/ Truncate \/ RenameAway \/ Recreate
     \/ CloseReader
     \/ Expire

Follower ==
  \/ StartLines \/ StartBytes \/ ReadLast \/ Measure \/ Open \/ PathMissing
  \/ Stop \/ Nap \/ StatShorter \/ StatSame \/ StatLonger
  \/ ReadLines \/ ReadBytes \/ EmitLine \/ EmitDone
  \/ BrokenPipe

Next == Environment \/ Follower \/ Done

Spec == Init /\ [][Next]_vars

(* The follower's thread runs, and a finite window elapses; nothing is     *)
(* assumed of the writer or of the reader.                                 *)
FairSpec == Spec /\ WF_vars(Follower) /\ WF_vars(Expire)

-----------------------------------------------------------------------------
(* Properties.                                                             *)

(* The types of the variables that hold no decoded text.                  *)
StateTypeOK ==
  /\ inodes \in Seq(Seq(Byte)) /\ inodes # <<>>
  /\ named \in 0 .. Len(inodes)
  /\ rewrites \in Nat
  /\ reader \in BOOLEAN /\ expired \in BOOLEAN
  /\ args \in [mode : Modes, n : LastN, window : Windows]
  /\ pc \in {"start", "readlast", "measure", "open", "loop", "stat", "read",
             "emit", "done"}
  /\ fd \in 0 .. Len(inodes)
  /\ pc \notin {"start", "done"} => fd # 0
  /\ seen \in Nat /\ offset \in Nat
  /\ args.mode = "bytes" => out \in Seq(Byte) /\ pc # "emit"
  /\ grew \in BOOLEAN
  /\ outcome \in {"running", "Found", "NotFound", "brokenpipe", "error"}
  /\ pc = "done" <=> outcome # "running"
  /\ stale \in BOOLEAN

Following == Polling /\ ~stale

(* Line numbers continue across polls: the next number, with the complete  *)
(* lines still pending, always counts the newlines consumed of the file    *)
(* that is followed.  next and pending are set by follow_initial,          *)
(* take_complete_lines and the Truncated arm, offset by poll_growth: no    *)
(* single function keeps them together.                                    *)
NumberingMatchesFile ==
  args.mode = "lines" /\ Following =>
    /\ offset <= Len(Content)
    /\ next - 1 + Cardinality(NlAt(pending))
         = Cardinality(NlAt(SubSeq(Content, 1, offset)))

(* A line is decoded whole, or in two pieces if it was unfinished when the *)
(* command started; a piece that ends within a character loses it.         *)
Decoded(line) ==
  {Lossy(line)} \cup
    {Lossy(Lossy(SubSeq(line, 1, i)) \o SubSeq(line, i + 1, Len(line))) : i \in DOMAIN line}
SameText(shown, line) == shown \in UNION {{text, StripCr(text)} : text \in Decoded(line)}

IsPrefixOf(x, y) == Len(x) <= Len(y) /\ SubSeq(y, 1, Len(x)) = x

(* Every line completed in the file since printing of this content began   *)
(* is printed under its own number, rows are in order, and a number is     *)
(* printed twice only when an unfinished line was completed (src/fs/       *)
(* tail.rs, "a trailing partial line completes with its original number"). *)
LinesFaithful ==
  args.mode = "lines" /\ Following =>
    LET rows == SubSeq(out, epoch + 1, Len(out))
        Printed(k) == \E i \in DOMAIN rows :
                        /\ rows[i].num = k
                        /\ SameText(rows[i].body, LineAt(Content, k))
    IN /\ \A k \in base + 1 .. next - 1 : Printed(k)
       /\ \A i \in 1 .. Len(rows) - 1 :
            \/ rows[i + 1].num = rows[i].num + 1
            \/ /\ rows[i + 1].num = rows[i].num
               /\ IsPrefixOf(rows[i].body, rows[i + 1].body)

(* Lines mode: the rows are the file's lines under their numbers.          *)
RowsMatchFile == NumberingMatchesFile /\ LinesFaithful

(* Numbering starts again only when the file was rewritten under the       *)
(* follower, never because it grew.                                        *)
RestartNeedsRewrite == [][next' < next => rewrites > 0]_vars

(* Bytes mode: what polling prints is the file from where polling began to *)
(* what was consumed, every byte once and in order, whatever is appended   *)
(* between the stat and the read of a poll.                                *)
BytesContiguous ==
  args.mode = "bytes" /\ Following =>
    SubSeq(out, epoch + 1, Len(out)) = SubSeq(Content, base + 1, offset)

(* A follower with a window ends, however the file changes.                *)
Terminates == args.window = "finite" ~> outcome # "running"

(* Without a window, data in the followed file is eventually consumed as   *)
(* long as the file is not rewritten and the reader stays.                 *)
CatchesUp ==
  (pc = "loop" /\ args.window = "none" /\ offset < Len(Content))
    ~> (rewrites > 0 \/ ~reader
        \/ (pc = "loop" /\ offset = Len(Content)
            /\ (args.mode = "lines" => NlAt(pending) = {})))

(* What the help text promises of bytes mode, "prints the last N and then  *)
(* polls the file every 250ms for appended data": while nothing is         *)
(* rewritten, the output ends where the consumed part of the file ends.    *)
NoBytesSkipped ==
  args.mode = "bytes" /\ Polling /\ rewrites = 0 /\ out # <<>> =>
    /\ Len(out) <= offset
    /\ out = SubSeq(Content, offset - Len(out) + 1, offset)
=============================================================================
