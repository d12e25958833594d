---------------------------- MODULE HookClassifier ----------------------------
(***************************************************************************)
(* The classifier of the PreToolUse hook (src/hook/claude_code.rs): which  *)
(* reads it finds in a command the shell would run, and whether it finds   *)
(* the inline SAK_HOOK_BYPASS=1 marker.                                    *)
(*                                                                         *)
(* A command is a sequence of parts, what split_pipeline leaves of it; a   *)
(* part has words and the commands of its substitutions (extract_nested);  *)
(* the script of `sh -c` is a word that holds a command.  The machine      *)
(* composes a command one construct of the shell at a time, and keeps      *)
(* beside it what the shell makes of it: the simple commands that run and  *)
(* the markers, each with the number of constructs around it.              *)
(***************************************************************************)
EXTENDS Integers, Sequences, FiniteSets
LOCAL INSTANCE SequencesExt

CONSTANTS
  MAX_DEPTH,  \* how deep the classifier recurses (12 in the code)
  MaxLayers   \* bound: how many constructs are composed

VARIABLES
  text,    \* the command
  runs,    \* the simple commands in it that run: [words, depth, first, tail]
  marks,   \* the markers in it: [depth, first, lead]
  layers   \* how many constructs it is made of

vars == <<text, runs, marks, layers>>

Word(w) == [w |-> w, script |-> <<>>]
Words(ws) == [i \in DOMAIN ws |-> Word(ws[i])]
ScriptWord(cmd) == [w |-> "script", script |-> cmd]
Part(words, subs) == [words |-> words, subs |-> subs]

Flags == {"-c", "-ec", "-u", "-E", "-n", "-s", "-p", "-v", "-pv", "-C", "--", "-exec"}
Assignments == {"MARK=1", "MARK=0", "FOO=1"}
is_shell_wrapper == {"sh", "bash"}

(* Rows of WRAPPERS: the options that take a value, and how many operands  *)
(* precede the command.                                                    *)
Wrapper(arg_flags, skip) == [arg_flags |-> arg_flags, skip |-> skip]
WRAPPERS ==
  [sudo |-> Wrapper({"-u"}, 0), env |-> Wrapper({"-u", "-C"}, 0),
   xargs |-> Wrapper({"-n", "-s"}, 0), timeout |-> Wrapper({"-s"}, 1),
   nice |-> Wrapper({"-n"}, 0), command |-> Wrapper({}, 0)]

-----------------------------------------------------------------------------
(* The classifier.                                                         *)

strip_env_assignments(ws) ==
  LET rest == {i \in DOMAIN ws : ws[i].w \notin Assignments}
  IN IF rest = {} THEN <<>>
     ELSE SubSeq(ws, CHOOSE i \in rest : \A j \in rest : i <= j, Len(ws))

RECURSIVE PastOptions(_, _, _)
PastOptions(wrapper, args, skipped) ==
  IF args = <<>> THEN <<>>
  ELSE LET a == Head(args).w IN
    IF a = "--" THEN Tail(args)
    ELSE IF a \in Flags
      THEN PastOptions(wrapper,
             IF a \in wrapper.arg_flags /\ Len(args) > 1 THEN Tail(Tail(args))
             ELSE Tail(args), skipped)
    ELSE IF skipped < wrapper.skip THEN PastOptions(wrapper, Tail(args), skipped + 1)
    ELSE args

(* `command -v` looks its operands up and runs nothing.                    *)
command_is_lookup(args) ==
  \E i \in DOMAIN args :
    /\ args[i].w \in {"-v", "-pv"}
    /\ \A j \in 1 .. i : args[j].w \in Flags \ {"--"}

(* What a wrapper runs; <<>> when it is not one, or runs nothing.          *)
(* mistake: a lookup is peeled like an execution                           *)
strip_command_wrapper_Lookup(base, args) ==
  IF base \notin DOMAIN WRAPPERS THEN <<>>
  ELSE strip_env_assignments(PastOptions(WRAPPERS[base], args, 0))

strip_command_wrapper(base, args) ==
  IF base \notin DOMAIN WRAPPERS \/ (base = "command" /\ command_is_lookup(args))
  THEN <<>>
  ELSE strip_env_assignments(PastOptions(WRAPPERS[base], args, 0))

(* The operand after the first option that holds a c.                      *)
shell_c_arg(args) ==
  LET cs == {i \in DOMAIN args : args[i].w \in {"-c", "-ec"}}
      c  == CHOOSE i \in cs : \A j \in cs : i <= j
  IN IF cs = {} \/ c = Len(args) THEN <<>> ELSE args[c + 1].script

find_exec_command(args) ==
  LET xs == {i \in DOMAIN args : args[i].w = "-exec"}
      x  == CHOOSE i \in xs : \A j \in xs : i <= j
      ends == {i \in DOMAIN args : i > x /\ args[i].w = ";"} \cup {Len(args) + 1}
  IN IF xs = {} THEN <<>>
     ELSE SubSeq(args, x + 1, (CHOOSE i \in ends : \A j \in ends : i <= j) - 1)

strip_git_global_flags(args) ==
  IF Len(args) > 1 /\ args[1].w = "-C" THEN Tail(Tail(args)) ELSE args

(* Two rows of the rule tables: `cat` with an operand, `git status`.       *)
check_registries(tool, args) ==
  IF tool = "cat" /\ \E i \in DOMAIN args : args[i].w \notin Flags THEN "cat"
  ELSE IF tool = "git" /\ LET rest == strip_git_global_flags(args)
                          IN rest # <<>> /\ rest[1].w = "status" THEN "git"
  ELSE "none"

First(results) ==
  LET hits == SelectSeq(results, LAMBDA r : r # "none")
  IN IF hits = <<>> THEN "none" ELSE Head(hits)

nested(cmd) == FlattenSeq([i \in DOMAIN cmd |-> cmd[i].subs])

RECURSIVE classify_depth(_, _), check(_, _)

classify_depth(cmd, depth) ==
  IF depth > MAX_DEPTH THEN "none"
  ELSE First([i \in DOMAIN nested(cmd) |-> classify_depth(nested(cmd)[i], depth + 1)]
             \o [i \in DOMAIN cmd |-> check(strip_env_assignments(cmd[i].words), depth)])

check(words, depth) ==
  IF words = <<>> \/ depth > MAX_DEPTH THEN "none"
  ELSE LET base == Head(words).w
           args == Tail(words)
           rest == strip_command_wrapper(base, args)
           exec == find_exec_command(args)
       IN IF base \in is_shell_wrapper
            THEN classify_depth(shell_c_arg(args), depth + 1)
          ELSE IF base = "find" /\ exec # <<>> THEN check(exec, depth + 1)
          ELSE IF rest # <<>>
            THEN check(IF base = "xargs" THEN Append(rest, Word("f")) ELSE rest, depth + 1)
          ELSE check_registries(base, args)

classify(cmd) == classify_depth(cmd, 0)

RECURSIVE bypass_depth(_, _), tokens_carry_bypass(_, _)

bypass_depth(cmd, depth) ==
  /\ depth <= MAX_DEPTH
  /\ \/ \E i \in DOMAIN nested(cmd) : bypass_depth(nested(cmd)[i], depth + 1)
     \/ \E i \in DOMAIN cmd : tokens_carry_bypass(cmd[i].words, depth)

HoldsMarker(ws) == \E i \in DOMAIN ws : ws[i].w = "MARK=1"

(* What a wrapper drops on the way to its command is a prefix of its args. *)
tokens_carry_bypass(words, depth) ==
  LET rest  == strip_env_assignments(words)
      base  == Head(rest).w
      args  == Tail(rest)
      inner == strip_command_wrapper(base, args)
  IN /\ words # <<>> /\ depth <= MAX_DEPTH
     /\ \/ HoldsMarker(SubSeq(words, 1, Len(words) - Len(rest)))
        \/ /\ rest # <<>> /\ base \in is_shell_wrapper
           /\ bypass_depth(shell_c_arg(args), depth + 1)
        \/ /\ rest # <<>> /\ base \notin is_shell_wrapper /\ inner # <<>>
           /\ \/ HoldsMarker(SubSeq(args, 1, Len(args) - Len(inner)))
              \/ tokens_carry_bypass(inner, depth + 1)

bypass_requested(cmd) == bypass_depth(cmd, 0)

decide(cmd) ==
  IF classify(cmd) = "none" THEN "allow"
  ELSE IF bypass_requested(cmd) THEN "escalate" ELSE "block"

-----------------------------------------------------------------------------
(* What the shell makes of a command.                                      *)

(* The simple commands a command starts from, and what they read.          *)
Simples == {<<"cat", "f">>, <<"cat">>, <<"git", "status">>, <<"git", "-C", "d", "status">>,
            <<"git", "add", "f">>, <<"echo", "f">>}

IsRead(words) == \/ words[1] = "cat" /\ Len(words) > 1
                 \/ words[1] = "git" /\ words[2] \in {"status", "-C"}

(* "first": inside the first part, so constructs put around that part are  *)
(* around it too; "tail": what is appended to the part is its operand.     *)
Run(words, first, tail) == [words |-> words, depth |-> 0, first |-> first, tail |-> tail]

Init ==
  /\ \E s \in Simples : /\ text = <<Part(Words(s), <<>>)>>
                        /\ runs = {Run(s, TRUE, TRUE)}
  /\ marks = {}
  /\ layers = 0

Deeper(x) == [x EXCEPT !.depth = @ + 1]
FirstWords == text[1].words
StartsWithAssignment == Head(FirstWords).w \in Assignments
PutFirst(ws) == text' = [text EXCEPT ![1].words = Words(ws) \o @]
Layer == layers < MaxLayers /\ layers' = layers + 1

Wraps ==
  {<<"sudo">>, <<"sudo", "-u", "bob">>, <<"sudo", "-E">>, <<"env", "--">>, <<"env", "FOO=1">>,
   <<"env", "MARK=1">>, <<"env", "MARK=0">>, <<"env", "-C", "d", "MARK=1">>, <<"xargs">>,
   <<"xargs", "-n", "1">>, <<"timeout", "5">>, <<"timeout", "-s", "KILL", "5">>,
   <<"nice", "-n", "5">>, <<"command">>, <<"command", "-p">>}

HasMarker(ws) == "MARK=1" \in {ws[i] : i \in DOMAIN ws}

(* sudo, env, xargs, timeout, ... before the first part.  Only sudo and    *)
(* env take assignments.                                                   *)
Prefix(ws) ==
  /\ Layer
  /\ StartsWithAssignment => ws[1] \in {"sudo", "env"} /\ "--" \notin {ws[i] : i \in DOMAIN ws}
  /\ PutFirst(ws)
  /\ runs' = {IF ~r.first THEN r
              ELSE IF ws[1] = "xargs" /\ r.tail
                THEN [Deeper(r) EXCEPT !.words = Append(@, "f")]
              ELSE Deeper(r) : r \in runs}
  /\ marks' = {IF m.first /\ ~m.lead THEN Deeper(m) ELSE [m EXCEPT !.lead = FALSE] : m \in marks}
                \cup (IF HasMarker(ws) THEN {[depth |-> 0, first |-> TRUE, lead |-> FALSE]} ELSE {})

Lookup(ws) ==
  /\ Layer /\ ~StartsWithAssignment
  /\ PutFirst(ws)
  /\ runs' = {r \in runs : ~r.first}
  /\ marks' = {m \in marks : ~m.first}

Assign(a) ==
  /\ Layer
  /\ PutFirst(<<a>>)
  /\ marks' = marks \cup (IF a = "MARK=1" THEN {[depth |-> 0, first |-> TRUE, lead |-> TRUE]} ELSE {})
  /\ UNCHANGED runs

(* sh -c '...', in single quotes.                                          *)
Shell(sh) ==
  /\ Layer
  /\ text' = <<Part(Words(sh) \o <<ScriptWord(text)>>, <<>>)>>
  /\ runs' = {[Deeper(r) EXCEPT !.first = TRUE, !.tail = FALSE] : r \in runs}
  /\ marks' = {[Deeper(m) EXCEPT !.first = TRUE, !.lead = FALSE] : m \in marks}

(* echo "$(...)", and the same for a group or a backtick.                  *)
Substitute(tool) ==
  /\ Layer
  /\ text' = <<Part(Words(<<tool, "$()">>), <<text>>)>>
  /\ runs' = {[Deeper(r) EXCEPT !.first = FALSE, !.tail = FALSE] : r \in runs}
               \cup {Run(<<tool, "$()">>, TRUE, TRUE)}
  /\ marks' = {[Deeper(m) EXCEPT !.first = FALSE, !.lead = FALSE] : m \in marks}

(* find -exec ... \;  A marker is not looked for in there.                 *)
Exec ==
  /\ Layer /\ ~StartsWithAssignment
  /\ \A i \in DOMAIN FirstWords : FirstWords[i].w # ";"
  /\ text' = [text EXCEPT ![1].words = Words(<<"find", "-exec">>) \o @ \o Words(<<";">>)]
  /\ runs' = {IF r.first THEN [Deeper(r) EXCEPT !.tail = FALSE] ELSE r : r \in runs}
  /\ marks' = {m \in marks : ~m.first}

(* A pipe, ; && or a newline.                                              *)
Then(s) ==
  /\ Layer
  /\ text' = Append(text, Part(Words(s), <<>>))
  /\ runs' = runs \cup {Run(s, FALSE, FALSE)}
  /\ UNCHANGED marks

After(s) ==
  /\ Layer
  /\ text' = <<Part(Words(s), <<>>)>> \o text
  /\ runs' = {[r EXCEPT !.first = FALSE, !.tail = FALSE] : r \in runs} \cup {Run(s, TRUE, TRUE)}
  /\ marks' = {[m EXCEPT !.first = FALSE, !.lead = FALSE] : m \in marks}

Composed == layers = MaxLayers /\ UNCHANGED vars

Next ==
  \/ \E ws \in Wraps : Prefix(ws)
  \/ \E ws \in {<<"command", "-v">>, <<"command", "-pv">>} : Lookup(ws)
  \/ \E a \in Assignments : Assign(a)
  \/ \E sh \in {<<"sh", "-c">>, <<"bash", "-ec">>} : Shell(sh)
  \/ \E tool \in {"echo", "cat"} : Substitute(tool)
  \/ Exec
  \/ \E s \in {<<"cat", "f">>, <<"echo", "f">>} : Then(s)
  \/ After(<<"echo", "f">>)
  \/ Composed

Spec == Init /\ [][Next]_vars

-----------------------------------------------------------------------------
(* Properties.                                                             *)

(* A command is redirected exactly when it runs a read: one is found       *)
(* through every stack of constructs up to MAX_DEPTH ("so a redirectable   *)
(* read can't hide behind a pipeline, a substitution, a subshell, ..."),   *)
(* deeper ones are left alone, and nothing else is taken for a read: not   *)
(* a lookup, a bare cat, an operand or an option's value.                  *)
ReadsAreFound ==
  LET found == {r.words[1] : r \in {x \in runs : IsRead(x.words) /\ x.depth <= MAX_DEPTH}}
  IN IF found = {} THEN classify(text) = "none" ELSE classify(text) \in found

(* The marker is seen wherever an assignment can stand, whatever part of   *)
(* the command it prefixes, and no other value or position counts.         *)
MarkersAreFound ==
  bypass_requested(text) <=> \E m \in marks : m.depth <= MAX_DEPTH
=============================================================================
