------------------------------ MODULE ShellText ------------------------------
(***************************************************************************)
(* The scanners the hook reads a command with: strip_heredocs and          *)
(* strip_redirections (src/hook/shell_text.rs), split_pipeline, tokenize   *)
(* and extract_nested (src/hook/claude_code.rs).  Each walks the text by   *)
(* itself and keeps its own account of quotes and escapes.                 *)
(*                                                                         *)
(* The machine writes a script one piece of shell syntax at a time --      *)
(* words in every quoting, separators, redirections, here-documents,       *)
(* comments, continuations -- and keeps beside the text the commands the   *)
(* shell would read in it.                                                 *)
(*                                                                         *)
(* A character is a string: itself, "sp", "nl", "tab", "sq", "dq", "bs", "tick"*)
(* or "nbsp", the second byte of a two-byte character such as the one     *)
(* whose first byte is here "C3"; taken for a character of its own, that   *)
(* byte is a space (U+00A0).                                               *)
(***************************************************************************)
EXTENDS Integers, Sequences, FiniteSets
LOCAL INSTANCE SequencesExt
LOCAL INSTANCE FiniteSetsExt

CONSTANTS
  MaxPieces,     \* bound: how many pieces a script is written with
  WordPieces,    \* the words tried: [text, word, sub], as written, as read, and
                 \* the substitutions in them
  Continuations  \* what is written to go on in the next line

VARIABLES
  text,     \* the script
  cmds,     \* the commands in it, each a sequence of words; the last is being written
  subs,     \* the substitutions in it, each its text
  heredocs, \* the here-documents whose body is to come: [mark, quoted, dash]
  comment,  \* the line ends in a comment
  pieces    \* how many pieces were written

vars == <<text, cmds, subs, heredocs, comment, pieces>>

AsciiSpace == {"sp", "tab", "nl"}
Whitespace == AsciiSpace \cup {"nbsp"}
ends_word == AsciiSpace \cup {";", "|", "&", "<", ">", "(", ")"}
Digit == {"1", "2"}

At(s, i) == IF i \in DOMAIN s THEN s[i] ELSE "end"
Least(S, default) == IF S = {} THEN default ELSE Min(S)
StartsWith(s, i, prefix) == \A k \in DOMAIN prefix : At(s, i + k - 1) = prefix[k]

-----------------------------------------------------------------------------
(* The quoting every scanner tracks: after each character the scanner is   *)
(* in no quotes, in single or double ones, or behind a backslash in none   *)
(* or in double ones.                                                      *)
QuoteStep(q, c) ==
  CASE q = "single" -> IF c = "sq" THEN "none" ELSE "single"
    [] q = "double" -> IF c = "bs" THEN "double-bs" ELSE IF c = "dq" THEN "none" ELSE "double"
    [] q = "double-bs" -> "double"
    [] q = "none-bs" -> "none"
    [] OTHER -> CASE c = "sq" -> "single" [] c = "dq" -> "double"
                  [] c = "bs" -> "none-bs" [] OTHER -> "none"

(* The state before each character of s, from the i-th, which is in q.     *)
RECURSIVE QuotingFrom(_, _, _)
QuotingFrom(s, i, q) ==
  IF i > Len(s) THEN <<>> ELSE <<q>> \o QuotingFrom(s, i + 1, QuoteStep(q, s[i]))
Quoting(s) == QuotingFrom(s, 1, "none")

(* The places of s that pass a test, in order.                             *)
Places(s, Test(_)) == SelectSeq([i \in DOMAIN s |-> i], Test)

Plain(s) == LET q == Quoting(s)
            IN {i \in DOMAIN s : q[i] = "none" /\ s[i] \notin {"sq", "dq", "bs"}}

(* What is left of s[a .. b] when its quoting is removed.                  *)
Unquoted(s, a, b) ==
  LET q == Quoting(s)
      marks(i) == \/ q[i] = "none" /\ s[i] \in {"sq", "dq"}
                  \/ q[i] = "single" /\ s[i] = "sq"
                  \/ q[i] = "double" /\ s[i] = "dq"
                  \/ q[i] \in {"none", "double"} /\ s[i] = "bs" /\ i < Len(s)
      kept == Places(s, LAMBDA i : i \in a .. b /\ ~marks(i))
  IN [k \in DOMAIN kept |-> s[kept[k]]]

From(s, i) == SubSeq(s, i, Len(s))

(* parse_word: where the word at i ends (the place after it).              *)
WordEnd(s, i) ==
  LET rest == From(s, i)
  IN i - 1 + Least({k \in Plain(rest) : rest[k] \in ends_word}, Len(rest) + 1)

SkipBlanks(s, i) == Least({k \in i .. Len(s) : s[k] \notin {"sp", "tab"}}, Len(s) + 1)

at_word_start(s, i) == i = 1 \/ s[i - 1] \in AsciiSpace

(* balanced: the place of the bracket that closes the one at i, or 0.      *)
balanced(s, i, open, close) ==
  LET rest  == From(s, i)
      plain == Plain(rest)
      depth(k) == Cardinality({j \in plain : j <= k /\ rest[j] = open})
                    - Cardinality({j \in plain : j <= k /\ rest[j] = close})
      end == Least({k \in plain : rest[k] = close /\ depth(k) = 0}, 0)
  IN IF end = 0 THEN 0 ELSE i - 1 + end

(* backtick_span: the backtick that closes the one at i, or 0.             *)
backtick_span(s, i) ==
  LET escaped[k \in i .. Len(s)] == k > i + 1 /\ s[k - 1] = "bs" /\ ~escaped[k - 1]
  IN Least({k \in i + 1 .. Len(s) : s[k] = "tick" /\ ~escaped[k]}, 0)

-----------------------------------------------------------------------------
(* strip_heredocs.                                                         *)

RECURSIVE body_substitutions(_, _)
body_substitutions(body, i) ==
  LET paren == IF At(body, i) = "$" /\ At(body, i + 1) = "(" THEN balanced(body, i + 1, "(", ")") ELSE 0
      span  == IF At(body, i) = "tick" THEN backtick_span(body, i) ELSE 0
  IN IF i > Len(body) THEN <<>>
     ELSE IF body[i] = "bs" THEN body_substitutions(body, i + 2)
     ELSE IF paren # 0
       THEN (IF body[i + 2] = "(" THEN <<>> ELSE SubSeq(body, i, paren) \o <<"nl">>)
              \o body_substitutions(body, paren + 1)
     ELSE IF span # 0
       THEN SubSeq(body, i, span) \o <<"nl">> \o body_substitutions(body, span + 1)
     ELSE body_substitutions(body, i + 1)

LineEnd(s, i) == Least({k \in i .. Len(s) : s[k] = "nl"}, Len(s) + 1)

Untabbed(line) == From(line, Least({k \in DOMAIN line : line[k] # "tab"}, Len(line) + 1))

(* The line that closes a here-document whose body starts at i: its first  *)
(* place, or one past the end of the text.                                 *)
(* mistake: tabs are stripped from the delimiter line of every document    *)
RECURSIVE Delimiter_Untabbed(_, _, _)
Delimiter_Untabbed(s, i, hd) ==
  LET end == LineEnd(s, i)
  IN IF i > Len(s) THEN Len(s) + 1
     ELSE IF Untabbed(SubSeq(s, i, end - 1)) = hd.mark THEN i
     ELSE Delimiter_Untabbed(s, end + 1, hd)

RECURSIVE Delimiter(_, _, _)
Delimiter(s, i, hd) ==
  LET end  == LineEnd(s, i)
      line == SubSeq(s, i, end - 1)
  IN IF i > Len(s) THEN Len(s) + 1
     ELSE IF (IF hd.dash THEN Untabbed(line) ELSE line) = hd.mark THEN i
     ELSE Delimiter(s, end + 1, hd)

(* The bodies of the pending documents, from i: what is kept of them, and  *)
(* where the text goes on.                                                 *)
RECURSIVE Bodies(_, _, _)
Bodies(s, i, pending) ==
  IF pending = <<>> THEN [kept |-> <<>>, next |-> i]
  ELSE LET hd   == Head(pending)
           last == Delimiter(s, i, hd)
           rest == Bodies(s, LineEnd(s, last) + 1, Tail(pending))
       IN [kept |-> (IF hd.quoted THEN <<>> ELSE body_substitutions(SubSeq(s, i, last - 1), 1))
                      \o rest.kept,
           next |-> rest.next]

RECURSIVE Strip(_, _, _, _)
Strip(s, i, q, pending) ==
  LET keep(n, q2)   == SubSeq(s, i, i + n - 1) \o Strip(s, i + n, q2, pending)
      continuation  == s[i] = "bs" /\ At(s, i + 1) = "nl"
      arithmetic    == IF StartsWith(s, i, <<"$", "(", "(">>) THEN balanced(s, i + 1, "(", ")") ELSE 0
      dash          == At(s, i + 2) = "-"
      mark          == SkipBlanks(s, IF dash THEN i + 3 ELSE i + 2)
      end           == WordEnd(s, mark)
      delimiter     == Unquoted(From(s, mark), 1, end - mark)
      heredoc       == StartsWith(s, i, <<"<", "<">>) /\ delimiter # <<>>
      bodies        == Bodies(s, i + 1, pending)
  IN IF i > Len(s) THEN <<>>
     ELSE IF q \in {"none", "double"} /\ continuation THEN Strip(s, i + 2, q, pending)
     ELSE IF s[i] = "bs" /\ q # "single" THEN keep(2, q)
     ELSE IF q # "none" \/ s[i] \in {"sq", "dq"} THEN keep(1, QuoteStep(q, s[i]))
     ELSE IF s[i] = "#" /\ at_word_start(s, i) THEN Strip(s, LineEnd(s, i), q, pending)
     ELSE IF arithmetic # 0 THEN keep(arithmetic - i + 1, q)
     ELSE IF StartsWith(s, i, <<"<", "<", "<">>) THEN keep(3, q)
     ELSE IF heredoc
       THEN <<"sp">> \o Strip(s, end, q,
              Append(pending, [mark |-> delimiter, dash |-> dash,
                               quoted |-> delimiter # SubSeq(s, mark, end - 1)]))
     ELSE IF s[i] = "nl" /\ pending # <<>>
       THEN <<"nl">> \o bodies.kept \o Strip(s, bodies.next, q, <<>>)
     ELSE keep(1, q)

strip_heredocs(s) == Strip(s, 1, "none", <<>>)

-----------------------------------------------------------------------------
(* strip_redirections, split_pipeline, tokenize.                           *)

RedirectLength(s, i) ==
  CASE StartsWith(s, i, <<"<", "<", "<">>) \/ StartsWith(s, i, <<"<", "<", "-">>) -> 3
    [] \E op \in {<<"<", "<">>, <<"<", ">">>, <<"<", "&">>, <<">", "&">>, <<">", ">">>, <<">", "|">>} :
         StartsWith(s, i, op) -> 2
    [] OTHER -> 1

IsInput(s, i) == StartsWith(s, i, <<"<", ">">>) \/ (s[i] = "<" /\ RedirectLength(s, i) = 1)

(* An fd number or an & at the start of a word belongs to the operator.    *)
(* mistake: digits before the operator are taken wherever they stand       *)
OperatorStart_MidWord(s, i, copied) ==
  LET digits == {k \in copied .. i : \A j \in k .. i - 1 : s[j] \in Digit}
      first  == Min(digits)
  IN IF first = i /\ i > copied /\ s[i - 1] = "&" THEN i - 1 ELSE first

OperatorStart(s, i, copied) ==
  LET digits == {k \in copied .. i : \A j \in k .. i - 1 : s[j] \in Digit}
      first  == IF Min(digits) = i /\ i > copied /\ s[i - 1] = "&" THEN i - 1 ELSE Min(digits)
  IN IF at_word_start(s, first) THEN first ELSE i

RECURSIVE Redirect(_, _, _, _)
Redirect(s, i, q, copied) ==
  LET is_op  == q = "none" /\ s[i] \in {"<", ">"} /\ At(s, i + 1) # "("
      word   == SkipBlanks(s, i + RedirectLength(s, i))
      end    == WordEnd(s, word)
      kept   == IF IsInput(s, i) /\ end > word
                THEN SubSeq(s, word, end - 1) \o <<"sp">> ELSE <<>>
  IN IF i > Len(s) THEN From(s, copied)
     ELSE IF is_op
       THEN SubSeq(s, copied, OperatorStart(s, i, copied) - 1) \o <<"sp">> \o kept
              \o Redirect(s, end, q, end)
     ELSE IF s[i] = "bs" /\ q # "single" THEN Redirect(s, i + 2, q, copied)
     ELSE Redirect(s, i + 1, QuoteStep(q, s[i]), copied)

strip_redirections(s) == Redirect(s, 1, "none", 1)

Trim(s) ==
  LET solid == {i \in DOMAIN s : s[i] \notin Whitespace}
  IN IF solid = {} THEN <<>> ELSE SubSeq(s, Min(solid), Max(solid))

(* The & of a redirection separates nothing.                               *)
IsSeparator(s, i) ==
  \/ s[i] \in {"|", ";", "nl"}
  \/ s[i] = "&" /\ At(s, i - 1) \notin {"<", ">"} /\ At(s, i + 1) # ">"

RECURSIVE Split(_, _, _, _)
Split(s, plain, i, from) ==
  IF i > Len(s) THEN <<Trim(From(s, from))>>
  ELSE IF i \in plain /\ IsSeparator(s, i)
    THEN LET next == IF s[i] \in {"|", "&"} /\ At(s, i + 1) = s[i] THEN i + 2 ELSE i + 1
         IN <<Trim(SubSeq(s, from, i - 1))>> \o Split(s, plain, next, next)
  ELSE Split(s, plain, i + 1, from)

split_pipeline(s) == SelectSeq(Split(s, Plain(s), 1, 1), LAMBDA p : p # <<>>)

tokenize(s) ==
  LET plain  == Plain(s)
      gap    == {i \in plain : s[i] \in Whitespace}
      starts == Places(s, LAMBDA i : i \notin gap /\ (i = 1 \/ i - 1 \in gap))
      end(i) == Least({k \in gap : k > i}, Len(s) + 1) - 1
  IN [k \in DOMAIN starts |-> Unquoted(s, starts[k], end(starts[k]))]

(* The loop of classify_depth: the words of each part.                     *)
CommandsOf(s) ==
  LET parts == split_pipeline(strip_heredocs(s))
      words == [k \in DOMAIN parts |-> tokenize(strip_redirections(parts[k]))]
  IN SelectSeq(words, LAMBDA w : w # <<>>)

-----------------------------------------------------------------------------
(* extract_nested: substitutions, subshells, brace groups and backticks.   *)

RECURSIVE Nested(_, _, _)
Nested(s, i, q) ==
  LET opens == CASE s[i] = "$" /\ At(s, i + 1) = "(" -> i + 1
                 [] s[i] = "(" /\ q = "none" -> i
                 [] s[i] = "{" /\ q = "none" /\ At(s, i + 1) \in Whitespace -> i
                 [] OTHER -> 0
      close == CASE opens = 0 -> 0
                 [] s[opens] = "(" -> balanced(s, opens, "(", ")")
                 [] OTHER -> balanced(s, opens, "{", "}")
      span  == IF s[i] = "tick" THEN backtick_span(s, i) ELSE 0
  IN IF i > Len(s) THEN <<>>
     ELSE IF s[i] = "bs" /\ q # "single" /\ i < Len(s) THEN Nested(s, i + 2, q)
     ELSE IF q = "single" \/ s[i] = "dq" \/ (s[i] = "sq" /\ q = "none")
       THEN Nested(s, i + 1, QuoteStep(q, s[i]))
     ELSE IF close # 0
       THEN <<SubSeq(s, opens + 1, close - 1)>> \o Nested(s, close + 1, q)
     ELSE IF span # 0
       THEN <<SubSeq(s, i + 1, span - 1)>> \o Nested(s, span + 1, q)
     ELSE Nested(s, i + 1, q)

extract_nested(s) == Nested(s, 1, "none")

-----------------------------------------------------------------------------
(* Writing a script.                                                       *)

Init == text = <<>> /\ cmds = <<<<>>>> /\ subs = <<>> /\ heredocs = <<>> /\ comment = FALSE /\ pieces = 0

Write(s) ==
  /\ pieces < MaxPieces /\ pieces' = pieces + 1
  /\ text' = text \o s
AddWord(w) ==
  /\ cmds' = [cmds EXCEPT ![Len(cmds)] = Append(@, w.word)]
  /\ subs' = subs \o w.sub

PutWord(w) ==
  /\ ~comment
  /\ Write(<<"sp">> \o w.text)
  /\ AddWord(w)
  /\ UNCHANGED <<heredocs, comment>>

Separator(s) ==
  /\ ~comment
  /\ Write(s)
  /\ cmds' = Append(cmds, <<>>)
  /\ UNCHANGED <<subs, heredocs, comment>>

(* A redirection, and the file it reads if it is one of input.             *)
Output(s) ==
  /\ ~comment
  /\ Write(s)
  /\ UNCHANGED <<cmds, subs, heredocs, comment>>

Input(s, file) ==
  /\ ~comment
  /\ Write(s \o file.text)
  /\ AddWord(file)
  /\ UNCHANGED <<heredocs, comment>>

HereDoc(op, hd) ==
  /\ ~comment
  /\ Write(<<"sp", "<", "<">> \o op \o (IF hd.quoted THEN <<"sq">> \o hd.mark \o <<"sq">> ELSE hd.mark))
  /\ heredocs' = Append(heredocs, hd)
  /\ UNCHANGED <<cmds, subs, comment>>

Comment ==
  /\ ~comment
  /\ Write(<<"sp", "#", "sq", "|", "<", "<", "E">>)
  /\ comment' = TRUE
  /\ UNCHANGED <<cmds, subs, heredocs>>

Continuation(s) ==
  /\ ~comment
  /\ Write(s)
  /\ UNCHANGED <<cmds, subs, heredocs, comment>>

(* A newline, and then the body of every document that waits for one, the  *)
(* same in each: each of its substitutions stands in a line of its own.    *)
Newline(body) ==
  /\ LET docs == SelectSeq(heredocs, LAMBDA hd : ~hd.quoted)
     IN /\ Write(<<"nl">> \o FlattenSeq([k \in DOMAIN heredocs |->
                 body.text \o (IF heredocs[k].dash THEN <<"tab">> ELSE <<>>)
                   \o heredocs[k].mark \o <<"nl">>]))
        /\ cmds' = cmds \o FlattenSeq([k \in DOMAIN docs |-> body.runs]) \o <<<<>>>>
        /\ subs' = subs \o FlattenSeq([k \in DOMAIN docs |-> body.sub])
  /\ heredocs = <<>> => body.text = <<>>
  /\ heredocs' = <<>> /\ comment' = FALSE

Separators == {<<"|", "|">>, <<"&", "sp">>, <<";">>}
Outputs == {<<"sp", ">", ">", "dq", "f", "sp", "g", "dq", "sp", "2", ">", "&", "1">>,
            <<"sp", "&", ">", "sp", "f">>,
            <<"sp", "<", "<", "<", "sp", "sq", "w", "|", "sq">>}
Inputs == {<<"<", "sp">>, <<"sp", "<", ">", "sp">>}
Docs == {[mark |-> <<"E">>, quoted |-> q, dash |-> d] : <<q, d>> \in
           {<<FALSE, FALSE>>, <<FALSE, TRUE>>, <<TRUE, FALSE>>}}

(* Bodies, and what runs of each in a document that is not quoted.         *)
Line(t, runs, sub) == [text |-> t, runs |-> runs, sub |-> sub]
Body ==
  {Line(<<>>, <<>>, <<>>),
   Line(<<"sq", "|", "x", "nl", "E", "E", "nl", "sp", "E", "nl">>, <<>>, <<>>),
   Line(<<"sp", "$", "(", "f", ")", "nl">>, <<<<<<"$", "(", "f", ")">>>>>>, <<<<"f">>>>),
   Line(<<"tick", "f", "tick", "bs", "$", "(", "g", ")", "nl">>,
        <<<<<<"tick", "f", "tick">>>>>>, <<<<"f">>>>),
   Line(<<"$", "(", "(", "1", ")", ")", "nl">>, <<>>, <<>>)}
(* A tab before the mark ends a <<- document and is text in any other.     *)
TabLine == Line(<<"tab", "E", "nl", "$", "(", "f", ")", "nl">>,
                <<<<<<"$", "(", "f", ")">>>>>>, <<<<"f">>>>)

Written == pieces = MaxPieces /\ UNCHANGED vars

Next ==
  \/ \E w \in WordPieces : PutWord(w)
  \/ \E s \in Separators : Separator(s)
  \/ \E s \in Outputs : Output(s)
  \/ \E s \in Inputs : Input(s, [text |-> <<"f">>, word |-> <<"f">>, sub |-> <<>>])
  \/ \E hd \in Docs : HereDoc(IF hd.dash THEN <<"-">> ELSE <<>>, hd)
  \/ Comment
  \/ \E s \in Continuations : Continuation(s)
  \/ \E body \in Body : Newline(body)
  \/ Len(heredocs) = 1 /\ ~heredocs[1].dash /\ Newline(TabLine)
  \/ Written

Spec == Init /\ [][Next]_vars

-----------------------------------------------------------------------------
(* Properties.                                                             *)

(* The scanners together read the commands the shell reads: whatever is    *)
(* quoted, escaped, commented out, redirected to or said in a document is  *)
(* neither a command nor a word of one, and no command, word or input file *)
(* is lost, split or joined to another.                                    *)
CommandsAreRead ==
  CommandsOf(text) = SelectSeq(cmds, LAMBDA c : c # <<>>)

(* Substitutions are looked for in what strip_heredocs leaves: the ones in *)
(* words, in double quotes and in unquoted documents are all found, each   *)
(* whole, and none in single quotes, quoted documents and comments.        *)
SubstitutionsAreFound == extract_nested(strip_heredocs(text)) = subs
=============================================================================
