--------------------------------- MODULE GhApi ---------------------------------
(***************************************************************************)
(* What an invocation of the gh binary asks for (src/gh/client.rs): the    *)
(* chokepoint of `sak gh` asks it before it starts gh, and the hook before *)
(* it redirects a command to `sak gh`.                                     *)
(*                                                                         *)
(* A word of a command line is a record: the dashes it begins with, its    *)
(* name, the letters of a short cluster and the value joined to it.  A     *)
(* GraphQL document is a sequence of lexemes: "block" is three quotes,     *)
(* "bsblock" the same behind a backslash.                                  *)
(***************************************************************************)
EXTENDS Integers, Sequences, FiniteSets, SequencesExt

CONSTANT None  \* no value, no flag, no document

(* The value of a word, and a field given as key=document; at marks a      *)
(* document that is to be read from a file.  A document is its text and    *)
(* what GraphQL finds defined in it, None in what is not a document.       *)
Val(text) == [text |-> text, key |-> None, doc |-> None, at |-> FALSE]
Field(key, doc, at) == [text |-> "field", key |-> key, doc |-> doc, at |-> at]
Word(v) == [dash |-> 0, name |-> v.text, letters |-> <<>>, val |-> v]
Long(name, v) == [dash |-> 2, name |-> name, letters |-> <<>>, val |-> v]
Short(letters, v) == [dash |-> 1, name |-> None, letters |-> letters, val |-> v]
DashDash == Long("", None)
Minus == Short(<<>>, None)

-----------------------------------------------------------------------------
(* client.rs, graphql_operation_types: the scan of a document.  mode is    *)
(* what the scan is inside of, back that a backslash was read in a string. *)

IsName(l) == l \in {"query", "mutation", "subscription", "fragment", "f"}
Scan(s, l) ==
  CASE s.mode = "comment" -> IF l = "nl" THEN [s EXCEPT !.mode = "text"] ELSE s
    [] s.mode = "block" -> IF l = "block" THEN [s EXCEPT !.mode = "text"] ELSE s
    [] s.mode = "string" ->
         IF s.back THEN [s EXCEPT !.back = FALSE]
         ELSE CASE l = "bs" -> [s EXCEPT !.back = TRUE] [] l = "quote" -> [s EXCEPT !.mode = "text"]
                [] l = "nl" -> [s EXCEPT !.mode = "error"] [] OTHER -> s
    [] s.mode = "error" -> s
    [] l = "#" -> [s EXCEPT !.mode = "comment"]
    [] l = "block" -> [s EXCEPT !.mode = "block"]
    [] l = "quote" -> [s EXCEPT !.mode = "string"]
    [] l = "(" -> [s EXCEPT !.parens = @ + 1]
    [] l = ")" -> IF s.parens = 0 THEN [s EXCEPT !.mode = "error"] ELSE [s EXCEPT !.parens = @ - 1]
    [] l = "{" /\ s.parens = 0 ->
         IF s.depth = 0 /\ s.expect
         THEN [s EXCEPT !.depth = 1, !.ops = Append(@, "query"), !.expect = FALSE] ELSE [s EXCEPT !.depth = @ + 1]
    [] l = "}" /\ s.parens = 0 ->
         IF s.depth = 0 THEN [s EXCEPT !.mode = "error"] ELSE [s EXCEPT !.depth = @ - 1, !.expect = @ \/ s.depth = 1]
    [] IsName(l) /\ s.depth = 0 /\ s.parens = 0 /\ s.expect -> [s EXCEPT !.ops = Append(@, l), !.expect = FALSE]
    [] OTHER -> s
Scanned(doc) ==
  FoldLeft(Scan, [mode |-> "text", back |-> FALSE, depth |-> 0, parens |-> 0, expect |-> TRUE, ops |-> <<>>], doc)
(* Only the first operation, as a scanner would that stops at it.          *)
graphql_operation_types_First(doc) ==
  LET s == Scanned(doc)
  IN IF s.mode \notin {"text", "comment"} \/ s.depth # 0 \/ s.parens # 0 \/ s.ops = <<>> THEN None ELSE <<s.ops[1]>>
graphql_operation_types(doc) ==
  LET s == Scanned(doc)
  IN IF s.mode \notin {"text", "comment"} \/ s.depth # 0 \/ s.parens # 0 THEN None ELSE s.ops

-----------------------------------------------------------------------------
(* client.rs, api_method: what a vector of arguments asks for.             *)

API_VALUE_FLAGS ==
  [X |-> "method", H |-> "header", F |-> "field", f |-> "raw-field", q |-> "jq", t |-> "template", p |-> "preview"]
LongValueFlags == {API_VALUE_FLAGS[l] : l \in DOMAIN API_VALUE_FLAGS} \cup {"input", "cache", "hostname"}
API_BODY_FLAGS == {"field", "raw-field", "input"}

(* A word read: the flag that waits for the next word as its value, the    *)
(* flags and plain words so far.                                           *)
FlagOf(t) ==
  LET values == SelectSeq(t.letters, LAMBDA l : l \in DOMAIN API_VALUE_FLAGS)
  IN IF t.dash = 2 THEN (IF t.name \in LongValueFlags THEN t.name ELSE None)
     ELSE IF values = <<>> THEN None ELSE API_VALUE_FLAGS[values[1]]
AsValue(t) == IF t.dash = 0 THEN t.val ELSE Val("flag")
ReadWord(s, t) ==
  LET flag == FlagOf(t)
  IN CASE s.wait # None -> [s EXCEPT !.wait = None, !.out = Append(@, [flag |-> s.wait, val |-> AsValue(t)])]
       [] s.wait = None /\ (s.plain \/ t.dash = 0 \/ t = Minus) -> [s EXCEPT !.out = Append(@, [flag |-> "word", val |-> AsValue(t)])]
       [] s.wait = None /\ ~s.plain /\ t = DashDash -> [s EXCEPT !.plain = TRUE]
       [] OTHER ->
            IF flag = None THEN s
            ELSE IF t.val # None THEN [s EXCEPT !.out = Append(@, [flag |-> flag, val |-> t.val])]
            ELSE [s EXCEPT !.wait = flag]
Parsed(words) == FoldLeft(ReadWord, [wait |-> None, plain |-> FALSE, out |-> <<>>], words)
GivenTo(out, flags) == {out[i].val : i \in {i \in DOMAIN out : out[i].flag \in flags}}
IsGet(v) == v.text \in {"GET", "get"}
api_method(words) ==
  LET out == Parsed(words).out
      methods == GivenTo(out, {"method"})
      queries == {v \in GivenTo(out, {"field", "raw-field"}) : v.key = "query"}
      unseen == GivenTo(out, {"input"}) \cup {v \in GivenTo(out, {"field"}) : v.key = "query" /\ v.at}
      kinds == {graphql_operation_types(v.doc.text) : v \in queries \ unseen}
  IN CASE \E v \in methods : ~IsGet(v) -> "NonGet"
       [] Parsed(words).wait # None -> "Dangling"
       [] Val("graphql") \in GivenTo(out, {"word"}) ->
            IF unseen # {} \/ None \in kinds THEN "GraphQlUnverifiable"
            ELSE IF \E k \in kinds : ~(ToSet(k) \subseteq {"query", "fragment"}) THEN "GraphQlWrite"
            ELSE IF methods # {} THEN "Get" ELSE "GraphQl"
       [] methods = {} /\ GivenTo(out, API_BODY_FLAGS) # {} -> "ImplicitPost"
       [] OTHER -> "Get"
check_api_method(words) == api_method(words) \in {"Get", "GraphQl"}

(* local_bin.rs, pair_allowed over READ_ONLY_VERBS.                        *)
READ_ONLY_VERBS ==
  {<<"pr", "list">>, <<"pr", "view">>, <<"pr", "diff">>, <<"issue", "list">>, <<"issue", "view">>, <<"run", "list">>,
   <<"run", "view">>, <<"release", "list">>, <<"release", "view">>, <<"repo", "view">>, <<"workflow", "list">>, <<"api", None>>}
pair_allowed(noun, verb) == \E p \in READ_ONLY_VERBS : p[1] = noun /\ p[2] \in {None, verb}
invoke(noun, verb, words) == pair_allowed(noun, verb) /\ (noun = "api" => check_api_method(words))
=============================================================================
