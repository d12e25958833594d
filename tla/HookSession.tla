----------------------------- MODULE HookSession -----------------------------
(***************************************************************************)
(* `sak hook claude-code` and `sak hook muse-code` (src/hook/mod.rs and    *)
(* the two adapters) at work: one short-lived process for each tool call,  *)
(* several at a time, started and sometimes killed by a harness that feeds *)
(* them the call and acts on their answer; the user a harness asks; and    *)
(* the bypass log all of them append to (src/hook/bypass_log.rs).          *)
(*                                                                         *)
(* What the classifier decides of a command is a constant here; the module *)
(* HookClassifier says how it decides.                                     *)
(***************************************************************************)
EXTENDS Integers, Sequences, FiniteSets

CONSTANTS
  Calls,      \* the invocations of the hook
  Commands,   \* the commands the model writes
  Verdict,    \* claude_code::decide: [Commands -> {"allow", "block", "escalate"}]
  Requests,   \* the invocations tried
  MaxFlips    \* bound: how often the disk fills up or is freed

Answers == {"none", "allow", "block", "ask"}

(* How the command reaches the hook: standard input holds a payload, is    *)
(* empty, is not JSON, is not UTF-8 or is a terminal; or --check.          *)
Vias == {"payload", "empty", "malformed", "notutf8", "tty", "check"}
RequestType == [via : Vias, harness : {"claude", "muse"}, shell : BOOLEAN, cmd : Commands]

ASSUME SessionAssumption ==
  /\ Verdict \in [Commands -> {"allow", "block", "escalate"}]
  /\ Requests \subseteq RequestType
  /\ MaxFlips \in Nat

VARIABLES
  bypass,    \* SAK_HOOK_BYPASS is set in the environment of the hooks
  statedir,  \* the log's directory can be made and written
  request,   \* [Calls -> Requests]
  fed,       \* the calls whose payload is written and standard input closed
  pc,        \* [Calls -> "start", "decide", "log", "write", "rest", "ask", "answered", "killed"]
  answer,    \* [Calls -> Answers]: exit 0, exit 2, or exit 0 with the ask decision
  fate,      \* [Calls -> "pending", "ran", "refused", "approved"]: what became of the tool call
  log,       \* the log: [call, piece], a "line", or the "head" or "tail" of one
  full,      \* the disk is full
  flips      \* how often it changed

setting == <<bypass, statedir, request>>
disk == <<full, flips>>
vars == <<setting, fed, pc, answer, fate, log, disk>>

Init ==
  /\ bypass \in BOOLEAN /\ statedir \in BOOLEAN
  /\ request \in [Calls -> Requests]
  /\ fed = {}
  /\ pc = [c \in Calls |-> "start"]
  /\ answer = [c \in Calls |-> "none"]
  /\ fate = [c \in Calls |-> "pending"]
  /\ log = <<>>
  /\ full = FALSE /\ flips = 0

-----------------------------------------------------------------------------
(* The hook process.                                                       *)

Goto(c, place) ==
  /\ pc' = [pc EXCEPT ![c] = place]
  /\ UNCHANGED <<setting, fed, answer, fate, disk>>

Reply(c, a) ==
  /\ pc' = [pc EXCEPT ![c] = "answered"]
  /\ answer' = [answer EXCEPT ![c] = a]
  /\ UNCHANGED <<setting, fed, fate, log, disk>>

Bypassed(c) == pc[c] = "start" /\ bypass /\ Reply(c, "allow")

CheckFlag(c) ==
  /\ pc[c] = "start" /\ ~bypass /\ request[c].via = "check"
  /\ Goto(c, "decide") /\ UNCHANGED log

(* mistake: a terminal is read like a pipe, and nobody types an end of file *)
Terminal_Reads(c) ==
  /\ pc[c] = "start" /\ ~bypass /\ request[c].via = "tty" /\ c \in fed
  /\ Reply(c, "allow")

(* A terminal is not waited for.                                           *)
Terminal(c) ==
  /\ pc[c] = "start" /\ ~bypass /\ request[c].via = "tty"
  /\ Reply(c, "allow")

IsCommand(c) == request[c].via = "payload" /\ request[c].shell

(* Standard input is read to its end; text that is not UTF-8 is an error,  *)
(* which main turns into exit code 2.                                      *)
ReadStdin(c) ==
  /\ pc[c] = "start" /\ ~bypass /\ request[c].via \notin {"check", "tty"}
  /\ c \in fed
  /\ IF IsCommand(c) THEN Goto(c, "decide") /\ UNCHANGED log
     ELSE Reply(c, IF request[c].via = "notutf8" THEN "block" ELSE "allow")

(* mistake: the marker lets the command through                            *)
Decide_MarkerAllows(c) ==
  /\ pc[c] = "decide"
  /\ Reply(c, IF Verdict[request[c].cmd] = "block" THEN "block" ELSE "allow")

(* Only the escalation of a real payload is logged.                        *)
Decide(c) ==
  /\ pc[c] = "decide"
  /\ IF Verdict[request[c].cmd] # "escalate" THEN Reply(c, Verdict[request[c].cmd])
     ELSE /\ Goto(c, IF request[c].via = "check" THEN "ask" ELSE "log")
          /\ UNCHANGED log

OpenLog(c) ==
  /\ pc[c] = "log"
  /\ Goto(c, IF statedir THEN "write" ELSE "ask")
  /\ UNCHANGED log

(* mistake: a failed write is an error of the hook                         *)
WriteLog_Fails(c) ==
  /\ pc[c] = "write"
  /\ IF full THEN Reply(c, "block")
     ELSE Goto(c, "ask") /\ log' = Append(log, [call |-> c, piece |-> "line"])

(* mistake: the line and its end are written one after the other           *)
WriteLog_Twice(c) ==
  /\ pc[c] = "write"
  /\ \/ Goto(c, "rest") /\ log' = Append(log, [call |-> c, piece |-> "head"])
     \/ full /\ Goto(c, "ask") /\ UNCHANGED log

(* write_all on the appending file: the line in one write; or as much of   *)
(* it as a full disk takes, and then the rest; or nothing.                 *)
WriteLog(c) ==
  /\ pc[c] = "write"
  /\ \/ ~full /\ Goto(c, "ask") /\ log' = Append(log, [call |-> c, piece |-> "line"])
     \/ full /\ Goto(c, "rest") /\ log' = Append(log, [call |-> c, piece |-> "head"])
     \/ full /\ Goto(c, "ask") /\ UNCHANGED log

WriteRest(c) ==
  /\ pc[c] = "rest"
  /\ Goto(c, "ask")
  /\ log' = IF full THEN log ELSE Append(log, [call |-> c, piece |-> "tail"])

Ask(c) ==
  /\ pc[c] = "ask"
  /\ Reply(c, IF request[c].harness = "claude" THEN "ask" ELSE "block")

Hook(c) ==
  \/ Bypassed(c) \/ CheckFlag(c) \/ Terminal(c) \/ ReadStdin(c) \/ Decide(c)
  \/ OpenLog(c) \/ WriteLog(c) \/ WriteRest(c) \/ Ask(c)

-----------------------------------------------------------------------------
(* The harness, the user and the disk.                                     *)

FromHarness(c) == request[c].via \notin {"check", "tty"}

Feed(c) ==
  /\ FromHarness(c) /\ c \notin fed /\ pc[c] # "killed"
  /\ fed' = fed \cup {c}
  /\ UNCHANGED <<setting, pc, answer, fate, log, disk>>

(* A hook that takes too long is killed, at any point.                     *)
Kill(c) ==
  /\ FromHarness(c) /\ pc[c] \notin {"answered", "killed"}
  /\ pc' = [pc EXCEPT ![c] = "killed"]
  /\ UNCHANGED <<setting, fed, answer, fate, log, disk>>

Settle(c, f) ==
  /\ FromHarness(c) /\ fate[c] = "pending"
  /\ fate' = [fate EXCEPT ![c] = f]
  /\ UNCHANGED <<setting, fed, pc, answer, log, disk>>

(* Exit 0 runs the tool call and exit 2 refuses it; the user settles an    *)
(* ask; what a harness makes of a killed hook is its own affair.           *)
Act(c) ==
  \/ answer[c] = "allow" /\ Settle(c, "ran")
  \/ answer[c] = "block" /\ Settle(c, "refused")
  \/ answer[c] = "ask" /\ Settle(c, "approved")
  \/ answer[c] = "ask" /\ Settle(c, "refused")
  \/ pc[c] = "killed" /\ Settle(c, "ran")
  \/ pc[c] = "killed" /\ Settle(c, "refused")

Flip ==
  /\ flips < MaxFlips
  /\ full' = ~full /\ flips' = flips + 1
  /\ UNCHANGED <<setting, fed, pc, answer, fate, log>>

Next ==
  \/ \E c \in Calls : Hook(c) \/ Feed(c) \/ Kill(c) \/ Act(c)
  \/ Flip

Spec == Init /\ [][Next]_vars

(* The system schedules every hook, and a harness writes the payload and   *)
(* closes the pipe.  Nothing obliges the user, the disk or the killer.     *)
FairSpec == Spec /\ \A c \in Calls : WF_vars(Hook(c)) /\ WF_vars(Feed(c))

-----------------------------------------------------------------------------
(* Properties.                                                             *)

TypeOK ==
  /\ bypass \in BOOLEAN /\ statedir \in BOOLEAN
  /\ request \in [Calls -> Requests]
  /\ fed \in SUBSET Calls
  /\ pc \in [Calls -> {"start", "decide", "log", "write", "rest", "ask", "answered", "killed"}]
  /\ answer \in [Calls -> Answers]
  /\ fate \in [Calls -> {"pending", "ran", "refused", "approved"}]
  /\ log \in Seq([call : Calls, piece : {"line", "head", "tail"}])
  /\ full \in BOOLEAN /\ flips \in Nat

(* What the hook is to answer, from its input alone.                       *)
Due(c) ==
  LET r == request[c]
      v == IF IsCommand(c) \/ r.via = "check" THEN Verdict[r.cmd]
           ELSE IF r.via = "notutf8" THEN "block" ELSE "allow"
  IN IF bypass THEN "allow"
     ELSE IF v # "escalate" THEN v
     ELSE IF r.harness = "claude" THEN "ask" ELSE "block"

(* The answer depends on the input and nothing else: not on the log (a log *)
(* "that can't be written never changes the hook's decision",              *)
(* src/hook/bypass_log.rs), its directory, the disk or the other hooks.    *)
DecisionIsItsOwn == \A c \in Calls : answer[c] # "none" => answer[c] = Due(c)

Escalated(c) == ~bypass /\ IsCommand(c) /\ Verdict[request[c].cmd] = "escalate"

(* A command a rule matches runs only when the user turned the hook off,   *)
(* approved that very call, or the harness killed the hook: the model's    *)
(* own marker gets it no further than the question.                        *)
NothingRunsUnasked ==
  \A c \in Calls :
    /\ fate[c] = "ran" /\ pc[c] # "killed" =>
         bypass \/ ~IsCommand(c) \/ Verdict[request[c].cmd] = "allow"
    /\ fate[c] = "approved" => Escalated(c) /\ request[c].harness = "claude"

Pieces(c) == {i \in DOMAIN log : log[i].call = c}

(* The log holds the escalated requests of real payloads and nothing else, *)
(* each at most once; and unless the directory or the disk failed, it has  *)
(* the whole line before the user is asked or the command refused.  No     *)
(* line is torn, nor another glued to it, by hooks alone (it "goes out in  *)
(* a single write, so concurrent hooks don't interleave",                  *)
(* src/hook/bypass_log.rs:45-46): only where the disk failed, and the rest *)
(* of a line is behind its beginning.                                      *)
LogIsTheRecord ==
  \A c \in Calls :
    /\ Pieces(c) # {} => Escalated(c)
    /\ \A i, j \in Pieces(c) : i # j => {log[i].piece, log[j].piece} = {"head", "tail"}
    /\ \A i \in Pieces(c) : /\ log[i].piece # "line" => flips # 0
                            /\ log[i].piece = "tail" => \E j \in Pieces(c) : j < i
    /\ Escalated(c) /\ answer[c] # "none" /\ statedir /\ flips = 0 =>
         \E i \in Pieces(c) : log[i].piece = "line"

(* No invocation hangs: not without standard input, nor on a terminal.     *)
EveryCallAnswered == \A c \in Calls : <>(pc[c] \in {"answered", "killed"})

(* What src/hook/mod.rs says of its input: "empty/malformed fail-open".    *)
MalformedFailsOpen ==
  \A c \in Calls :
    request[c].via \in {"empty", "malformed", "notutf8"} => answer[c] \in {"none", "allow"}
=============================================================================
