---------------------------- MODULE HookSessionMC ----------------------------
(* Values of HookSession's constants for TLC: two invocations that meet at *)
(* the log, over every kind of input.                                      *)
EXTENDS HookSession

MCVerdict == [plain |-> "allow", read |-> "block", marked |-> "escalate"]
MCCommands == DOMAIN MCVerdict

Request(via, harness, shell, cmd) == [via |-> via, harness |-> harness, shell |-> shell, cmd |-> cmd]
MCRequests ==
  {Request("payload", h, TRUE, c) : h \in {"claude", "muse"}, c \in MCCommands}
    \cup {Request("payload", "claude", FALSE, "marked")}
    \cup {Request(v, "claude", TRUE, "marked") : v \in Vias \ {"payload"}}
=============================================================================
