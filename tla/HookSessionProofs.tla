-------------------------- MODULE HookSessionProofs --------------------------
(***************************************************************************)
(* Proofs about HookSession, for any number of hooks, any commands and any *)
(* classifier.  Each property needs to know how far a hook is: Flow ties   *)
(* the answer to the path taken, Fates the tool call to the answer, and    *)
(* Logged the log to the path.                                             *)
(***************************************************************************)
EXTENDS HookSession, TLAPS

Places == {"start", "decide", "log", "write", "rest", "ask", "answered", "killed"}
Piece == [call : Calls, piece : {"line", "head", "tail"}]

(* The type invariant holds of every session.                              *)
LEMMA InitTypes == Init => TypeOK
<1> SUFFICES ASSUME Init PROVE TypeOK
  OBVIOUS
<1>1. /\ bypass \in BOOLEAN /\ statedir \in BOOLEAN
      /\ request \in [Calls -> Requests] /\ fed \in SUBSET Calls
      /\ full \in BOOLEAN /\ flips \in Nat
  BY DEF Init
<1>2. pc \in [Calls -> {"start", "decide", "log", "write", "rest", "ask", "answered", "killed"}]
  BY DEF Init
<1>3. /\ answer \in [Calls -> Answers]
      /\ fate \in [Calls -> {"pending", "ran", "refused", "approved"}]
  BY DEF Init, Answers
<1>4. log \in Seq([call : Calls, piece : {"line", "head", "tail"}])
  BY DEF Init
<1> QED
  BY <1>1, <1>2, <1>3, <1>4 DEF TypeOK

LEMMA StepTypes == TypeOK /\ [Next]_vars => TypeOK'
<1> SUFFICES ASSUME TypeOK, [Next]_vars PROVE TypeOK'
  OBVIOUS
<1> USE SessionAssumption DEF TypeOK, setting, disk, Answers
<1>1. ASSUME NEW c \in Calls, NEW p \in Places, Goto(c, p), UNCHANGED log
      PROVE TypeOK'
  BY <1>1 DEF Goto, Places
<1>2. ASSUME NEW c \in Calls, NEW p \in Places, NEW e \in Piece,
             Goto(c, p), log' = Append(log, e)
      PROVE TypeOK'
  <2>1. log' \in Seq(Piece)
    BY <1>2 DEF Piece
  <2> QED
    BY <1>2, <2>1 DEF Goto, Places, Piece
<1>3. ASSUME NEW c \in Calls, NEW a \in Answers, Reply(c, a)
      PROVE TypeOK'
  BY <1>3 DEF Reply
<1>4. ASSUME NEW c \in Calls, Hook(c) PROVE TypeOK'
  <2>0. /\ request[c] \in RequestType
        /\ Verdict[request[c].cmd] \in {"allow", "block", "escalate"}
    BY DEF RequestType
  <2>1. CASE Bypassed(c)
    BY <2>1, <1>3 DEF Bypassed
  <2>2. CASE CheckFlag(c)
    BY <2>2, <1>1 DEF CheckFlag, Places
  <2>3. CASE Terminal(c)
    BY <2>3, <1>3 DEF Terminal
  <2>4. CASE ReadStdin(c)
    BY <2>4, <1>1, <1>3 DEF ReadStdin, Places
  <2>5. CASE Decide(c)
    BY <2>0, <2>5, <1>1, <1>3 DEF Decide, Places
  <2>6. CASE OpenLog(c)
    BY <2>6, <1>1 DEF OpenLog, Places
  <2>7. CASE WriteLog(c)
    BY <2>7, <1>1, <1>2 DEF WriteLog, Places, Piece
  <2>8. CASE WriteRest(c)
    BY <2>8, <1>1, <1>2 DEF WriteRest, Places, Piece
  <2>9. CASE Ask(c)
    BY <2>9, <1>3 DEF Ask
  <2> QED
    BY <1>4, <2>1, <2>2, <2>3, <2>4, <2>5, <2>6, <2>7, <2>8, <2>9 DEF Hook
<1>5. ASSUME NEW c \in Calls, Feed(c) PROVE TypeOK'
  BY <1>5 DEF Feed
<1>6. ASSUME NEW c \in Calls, Kill(c) PROVE TypeOK'
  BY <1>6 DEF Kill
<1>7. ASSUME NEW c \in Calls, Act(c) PROVE TypeOK'
  BY <1>7 DEF Act, Settle
<1>8. CASE Flip
  BY <1>8 DEF Flip
<1>9. CASE UNCHANGED vars
  BY <1>9 DEF vars
<1> QED
  BY <1>4, <1>5, <1>6, <1>7, <1>8, <1>9 DEF Next

(* The hook keeps its types, however many invocations there are and        *)
(* whatever they are given (src/hook/mod.rs).                              *)
THEOREM SessionTypes == Spec => []TypeOK
BY InitTypes, StepTypes, PTL DEF Spec

-----------------------------------------------------------------------------
(* Where a hook is says what its input was, and what it answered.          *)
AskedFor(c) == /\ ~bypass /\ (IsCommand(c) \/ request[c].via = "check")

Flow(c) ==
  /\ answer[c] # "none" => pc[c] = "answered"
  /\ pc[c] = "answered" => answer[c] = Due(c)
  /\ pc[c] = "decide" => AskedFor(c)
  /\ pc[c] \in {"log", "write", "rest"} => Escalated(c)
  /\ pc[c] = "ask" => AskedFor(c) /\ Verdict[request[c].cmd] = "escalate"

FlowInv == \A c \in Calls : Flow(c)

(* Nothing but its own steps moves a hook, and the setting never changes.  *)
LEMMA FlowStable ==
  ASSUME NEW c, Flow(c), UNCHANGED setting, pc'[c] = pc[c], answer'[c] = answer[c]
  PROVE  Flow(c)'
BY DEF Flow, AskedFor, Escalated, IsCommand, Due, setting

LEMMA StepFlow == TypeOK /\ FlowInv /\ [Next]_vars => FlowInv'
<1> SUFFICES ASSUME TypeOK, FlowInv, [Next]_vars, NEW c \in Calls PROVE Flow(c)'
  BY DEF FlowInv
<1>0. Flow(c)
  BY DEF FlowInv
<1>1. request[c] \in RequestType /\ Verdict[request[c].cmd] \in {"allow", "block", "escalate"}
  BY SessionAssumption DEF TypeOK, RequestType
<1>2. ASSUME NEW d \in Calls, d # c, Hook(d) \/ Kill(d) PROVE Flow(c)'
  <2>1. UNCHANGED setting /\ pc'[c] = pc[c] /\ answer'[c] = answer[c]
    BY <1>2 DEF TypeOK, Hook, Kill, Bypassed, CheckFlag, Terminal, ReadStdin, Decide,
                OpenLog, WriteLog, WriteRest, Ask, Goto, Reply
  <2> QED
    BY <1>0, <2>1, FlowStable
<1>3. ASSUME NEW d \in Calls, Feed(d) \/ Act(d) PROVE Flow(c)'
  <2>1. UNCHANGED <<setting, pc, answer>>
    BY <1>3 DEF Feed, Act, Settle
  <2> QED
    BY <1>0, <2>1, FlowStable
<1>4. CASE Flip \/ UNCHANGED vars
  <2>1. UNCHANGED <<setting, pc, answer>>
    BY <1>4 DEF Flip, vars
  <2> QED
    BY <1>0, <2>1, FlowStable
<1>5. ASSUME NEW p, Goto(c, p), pc[c] # "answered", p # "answered",
             p = "decide" => AskedFor(c),
             p \in {"log", "write", "rest"} => Escalated(c),
             p = "ask" => AskedFor(c) /\ Verdict[request[c].cmd] = "escalate"
      PROVE Flow(c)'
  <2>1. pc'[c] = p /\ answer'[c] = answer[c] /\ UNCHANGED <<bypass, request>>
    BY <1>5 DEF Goto, TypeOK, setting
  <2> QED
    BY <1>0, <1>5, <2>1 DEF Flow, AskedFor, Escalated, IsCommand
<1>6. ASSUME Reply(c, Due(c)) PROVE Flow(c)'
  <2>1. pc'[c] = "answered" /\ answer'[c] = Due(c) /\ UNCHANGED <<bypass, request>>
    BY <1>6 DEF Reply, TypeOK, setting
  <2>2. Due(c)' = Due(c)
    BY <2>1 DEF Due, IsCommand
  <2> QED
    BY <2>1, <2>2 DEF Flow
<1>7. CASE Hook(c)
  <2>1. CASE Bypassed(c)
    BY <2>1, <1>6 DEF Bypassed, Due
  <2>2. CASE CheckFlag(c)
    BY <2>2, <1>5 DEF CheckFlag, AskedFor
  <2>3. CASE Terminal(c)
    <3>1. Due(c) = "allow"
      BY <2>3 DEF Terminal, Due, IsCommand
    <3> QED
      BY <2>3, <3>1, <1>6 DEF Terminal
  <2>4. CASE ReadStdin(c)
    <3>1. CASE IsCommand(c)
      BY <2>4, <3>1, <1>5 DEF ReadStdin, AskedFor
    <3>2. CASE ~IsCommand(c)
      <4>1. Due(c) = IF request[c].via = "notutf8" THEN "block" ELSE "allow"
        BY <2>4, <3>2 DEF ReadStdin, Due
      <4> QED
        BY <2>4, <3>2, <4>1, <1>6 DEF ReadStdin
    <3> QED
      BY <3>1, <3>2
  <2>5. CASE Decide(c)
    <3>1. AskedFor(c)
      BY <2>5, <1>0 DEF Decide, Flow
    <3>2. CASE Verdict[request[c].cmd] # "escalate"
      <4>1. Due(c) = Verdict[request[c].cmd]
        BY <3>1, <3>2 DEF Due, AskedFor
      <4> QED
        BY <2>5, <3>2, <4>1, <1>6 DEF Decide
    <3>3. CASE Verdict[request[c].cmd] = "escalate"
      <4>1. request[c].via # "check" => Escalated(c)
        BY <3>1, <3>3 DEF AskedFor, Escalated
      <4> QED
        BY <2>5, <3>1, <3>3, <4>1, <1>5 DEF Decide
    <3> QED
      BY <3>2, <3>3
  <2>6. CASE OpenLog(c) \/ WriteLog(c) \/ WriteRest(c)
    <3>1. Escalated(c) /\ AskedFor(c) /\ Verdict[request[c].cmd] = "escalate"
      BY <2>6, <1>0 DEF Flow, Escalated, AskedFor, OpenLog, WriteLog, WriteRest
    <3> QED
      BY <2>6, <3>1, <1>5 DEF OpenLog, WriteLog, WriteRest
  <2>7. CASE Ask(c)
    <3>1. AskedFor(c) /\ Verdict[request[c].cmd] = "escalate"
      BY <2>7, <1>0 DEF Ask, Flow
    <3>2. Due(c) = IF request[c].harness = "claude" THEN "ask" ELSE "block"
      BY <3>1 DEF Due, AskedFor
    <3> QED
      BY <2>7, <3>2, <1>6 DEF Ask
  <2> QED
    BY <1>7, <2>1, <2>2, <2>3, <2>4, <2>5, <2>6, <2>7 DEF Hook
<1>8. CASE Kill(c)
  <2>1. pc'[c] = "killed" /\ answer'[c] = answer[c] /\ answer[c] = "none"
    BY <1>8, <1>0 DEF Kill, TypeOK, Flow
  <2> QED
    BY <2>1 DEF Flow
<1> QED
  BY <1>2, <1>3, <1>4, <1>7, <1>8 DEF Next

LEMMA InitFlow == Init => FlowInv
BY DEF Init, FlowInv, Flow

LEMMA AlwaysFlow == Spec => [](TypeOK /\ FlowInv)
<1>1. TypeOK /\ FlowInv /\ [Next]_vars => (TypeOK /\ FlowInv)'
  BY StepTypes, StepFlow
<1> QED
  BY <1>1, InitTypes, InitFlow, PTL DEF Spec

(* The answer of a hook is a function of its own input and environment,    *)
(* whatever the log, the disk and the other hooks do.                      *)
THEOREM DecisionsAreTheirOwn == Spec => []DecisionIsItsOwn
<1>1. FlowInv => DecisionIsItsOwn
  BY DEF FlowInv, Flow, DecisionIsItsOwn
<1> QED
  BY <1>1, AlwaysFlow, PTL

-----------------------------------------------------------------------------
(* A tool call is settled once its hook has answered or is gone.           *)
Fates(c) ==
  /\ fate[c] # "pending" => FromHarness(c) /\ pc[c] \in {"answered", "killed"}
  /\ fate[c] = "ran" => pc[c] = "killed" \/ answer[c] = "allow"
  /\ fate[c] = "approved" => answer[c] = "ask"

FatesInv == \A c \in Calls : Fates(c)

LEMMA StepFates == TypeOK /\ FlowInv /\ FatesInv /\ [Next]_vars => FatesInv'
<1> SUFFICES ASSUME TypeOK, FlowInv, FatesInv, [Next]_vars, NEW c \in Calls PROVE Fates(c)'
  BY DEF FatesInv
<1>0. Fates(c) /\ Flow(c)
  BY DEF FatesInv, FlowInv
<1>1. ASSUME NEW d \in Calls, Hook(d) \/ Kill(d) PROVE Fates(c)'
  <2>1. /\ UNCHANGED <<request, fate>> /\ pc[d] \notin {"answered", "killed"}
        /\ d # c => pc'[c] = pc[c] /\ answer'[c] = answer[c]
    BY <1>1 DEF TypeOK, setting, Hook, Kill, Bypassed, CheckFlag, Terminal, ReadStdin,
                Decide, OpenLog, WriteLog, WriteRest, Ask, Goto, Reply
  <2>2. CASE d = c
    BY <1>0, <2>1, <2>2 DEF Fates, FromHarness
  <2>3. CASE d # c
    BY <1>0, <2>1, <2>3 DEF Fates, FromHarness
  <2> QED
    BY <2>2, <2>3
<1>2. ASSUME NEW d \in Calls, Feed(d) PROVE Fates(c)'
  BY <1>0, <1>2 DEF Feed, Fates, FromHarness, setting
<1>3. ASSUME NEW d \in Calls, NEW f, Settle(d, f), f \in {"ran", "refused", "approved"},
             pc[d] \in {"answered", "killed"},
             f = "ran" => pc[d] = "killed" \/ answer[d] = "allow",
             f = "approved" => answer[d] = "ask"
      PROVE Fates(c)'
  <2>1. UNCHANGED <<request, pc, answer>>
    BY <1>3 DEF Settle, setting
  <2>2. CASE d = c
    <3>1. fate'[c] = f /\ FromHarness(c)
      BY <1>3, <2>2 DEF Settle, TypeOK
    <3> QED
      BY <1>3, <2>1, <2>2, <3>1 DEF Fates, FromHarness
  <2>3. CASE d # c
    <3>1. fate'[c] = fate[c]
      BY <1>3, <2>3 DEF Settle, TypeOK
    <3> QED
      BY <1>0, <2>1, <3>1 DEF Fates, FromHarness
  <2> QED
    BY <2>2, <2>3
<1>4. ASSUME NEW d \in Calls, Act(d) PROVE Fates(c)'
  <2>1. answer[d] # "none" => pc[d] = "answered"
    BY DEF FlowInv, Flow
  <2> QED
    BY <1>3, <1>4, <2>1 DEF Act
<1>5. CASE Flip \/ UNCHANGED vars
  BY <1>0, <1>5 DEF Flip, vars, setting, Fates, FromHarness
<1> QED
  BY <1>1, <1>2, <1>4, <1>5 DEF Next

LEMMA InitFates == Init => FatesInv
BY DEF Init, FatesInv, Fates

LEMMA FatesSuffice ==
  ASSUME TypeOK, FlowInv, FatesInv PROVE NothingRunsUnasked
<1> SUFFICES ASSUME NEW c \in Calls
    PROVE /\ fate[c] = "ran" /\ pc[c] # "killed" =>
               bypass \/ ~IsCommand(c) \/ Verdict[request[c].cmd] = "allow"
          /\ fate[c] = "approved" => Escalated(c) /\ request[c].harness = "claude"
  BY DEF NothingRunsUnasked
<1>0. Fates(c) /\ Flow(c)
  BY DEF FatesInv, FlowInv
<1>1. Verdict[request[c].cmd] \in {"allow", "block", "escalate"}
  BY SessionAssumption DEF TypeOK, RequestType
<1>2. ASSUME fate[c] = "ran", pc[c] # "killed"
      PROVE bypass \/ ~IsCommand(c) \/ Verdict[request[c].cmd] = "allow"
  <2>1. Due(c) = "allow"
    BY <1>0, <1>2 DEF Fates, Flow
  <2> QED
    BY <2>1 DEF Due
<1>3. ASSUME fate[c] = "approved"
      PROVE Escalated(c) /\ request[c].harness = "claude"
  <2>1. Due(c) = "ask" /\ FromHarness(c)
    BY <1>0, <1>3 DEF Fates, Flow
  <2> QED
    BY <1>1, <2>1 DEF Due, FromHarness, Escalated
<1> QED
  BY <1>2, <1>3

(* No command a rule matches runs unless the user exported the bypass,     *)
(* approved the call, or the harness killed the hook.                      *)
THEOREM NothingRunsByItself == Spec => []NothingRunsUnasked
<1>1. FlowInv /\ TypeOK /\ FatesInv /\ [Next]_vars => (TypeOK /\ FlowInv /\ FatesInv)'
  BY StepTypes, StepFlow, StepFates
<1>2. Init => TypeOK /\ FlowInv /\ FatesInv
  BY InitTypes, InitFlow, InitFates
<1>3. TypeOK /\ FlowInv /\ FatesInv => NothingRunsUnasked
  BY FatesSuffice
<1> QED
  BY <1>1, <1>2, <1>3, PTL DEF Spec

-----------------------------------------------------------------------------
(* What the log holds of a hook, given how far the hook is.                *)
Logged(c) ==
  /\ Pieces(c) # {} => Escalated(c) /\ pc[c] \in {"rest", "ask", "answered", "killed"}
  /\ pc[c] = "rest" => /\ flips # 0
                       /\ Pieces(c) # {}
                       /\ \A i, j \in Pieces(c) : i = j /\ log[i].piece = "head"
  /\ \A i, j \in Pieces(c) : i # j => {log[i].piece, log[j].piece} = {"head", "tail"}
  /\ \A i \in Pieces(c) : /\ log[i].piece # "line" => flips # 0
                          /\ log[i].piece = "tail" => \E j \in Pieces(c) : j < i
  /\ Escalated(c) /\ pc[c] \in {"ask", "answered"} /\ statedir /\ flips = 0 =>
       \E i \in Pieces(c) : log[i].piece = "line"

LoggedInv == (flips = 0 => ~full) /\ \A c \in Calls : Logged(c)

LEMMA LogGrows ==
  ASSUME TypeOK, NEW d \in Calls, NEW k \in {"line", "head", "tail"},
         log' = Append(log, [call |-> d, piece |-> k])
  PROVE  /\ \A i \in DOMAIN log : log'[i] = log[i]
         /\ log'[Len(log) + 1] = [call |-> d, piece |-> k]
         /\ DOMAIN log' = DOMAIN log \cup {Len(log) + 1}
         /\ Len(log) + 1 \notin DOMAIN log
BY DEF TypeOK

LEMMA StepLogged == TypeOK /\ FlowInv /\ LoggedInv /\ [Next]_vars => LoggedInv'
<1> SUFFICES ASSUME TypeOK, FlowInv, LoggedInv, [Next]_vars PROVE LoggedInv'
  OBVIOUS
<1>1. ASSUME NEW c \in Calls, UNCHANGED <<setting, log, flips>>,
             pc'[c] = pc[c] \/ pc'[c] = "killed"
      PROVE Logged(c)'
  <2>1. Logged(c)
    BY DEF LoggedInv
  <2>2. Pieces(c)' = Pieces(c) /\ Escalated(c)' = Escalated(c)
    BY <1>1 DEF Pieces, Escalated, IsCommand, setting
  <2> QED
    BY <1>1, <2>1, <2>2 DEF Logged, setting
<1>2. ASSUME NEW c \in Calls, NEW d \in Calls, c # d, NEW k \in {"line", "head", "tail"},
             log' = Append(log, [call |-> d, piece |-> k]),
             UNCHANGED <<setting, flips>>, pc'[c] = pc[c]
      PROVE Logged(c)'
  <2>1. Logged(c)
    BY DEF LoggedInv
  <2>2. /\ Pieces(c)' = Pieces(c) /\ Escalated(c)' = Escalated(c)
        /\ \A i \in Pieces(c) : log'[i] = log[i]
    BY <1>2, LogGrows DEF Pieces, Escalated, IsCommand, setting
  <2>3. /\ Pieces(c)' # {} => Escalated(c)' /\ pc'[c] \in {"rest", "ask", "answered", "killed"}
        /\ pc'[c] = "rest" => /\ flips' # 0
                              /\ Pieces(c)' # {}
                              /\ \A i, j \in Pieces(c)' : i = j /\ log'[i].piece = "head"
    <3>1. Pieces(c)' # {} => Escalated(c)' /\ pc'[c] \in {"rest", "ask", "answered", "killed"}
      BY <1>2, <2>1, <2>2 DEF Logged
    <3>2. pc[c] = "rest" => /\ flips # 0 /\ Pieces(c) # {}
                            /\ \A i, j \in Pieces(c) : i = j /\ log[i].piece = "head"
      BY <2>1 DEF Logged
    <3>3. pc'[c] = pc[c] /\ flips' = flips
      BY <1>2
    <3>4. pc'[c] = "rest" => \A i, j \in Pieces(c)' : i = j /\ log'[i].piece = "head"
      BY <2>2, <3>2, <3>3
    <3> QED
      BY <2>2, <3>1, <3>2, <3>3, <3>4
  <2>4. \A i, j \in Pieces(c)' : i # j => {log'[i].piece, log'[j].piece} = {"head", "tail"}
    BY <2>1, <2>2 DEF Logged
  <2>5. Escalated(c)' /\ pc'[c] \in {"ask", "answered"} /\ statedir' /\ flips' = 0 =>
          \E i \in Pieces(c)' : log'[i].piece = "line"
    BY <1>2, <2>1, <2>2 DEF Logged, setting
  <2>6. \A i \in Pieces(c)' : /\ log'[i].piece # "line" => flips' # 0
                              /\ log'[i].piece = "tail" => \E j \in Pieces(c)' : j < i
    <3>1. \A i \in Pieces(c) : /\ log[i].piece # "line" => flips # 0
                               /\ log[i].piece = "tail" => \E j \in Pieces(c) : j < i
      BY <2>1 DEF Logged
    <3>2. TAKE i \in Pieces(c)'
    <3>3. i \in Pieces(c) /\ log'[i].piece = log[i].piece
      BY <2>2, <3>2
    <3>4. log[i].piece # "line" => flips' # 0
      BY <1>2, <3>1, <3>3
    <3>5. log[i].piece = "tail" => \E j \in Pieces(c)' : j < i
      BY <2>2, <3>1, <3>3
    <3> QED
      BY <3>3, <3>4, <3>5
  <2> QED
    BY <2>3, <2>4, <2>5, <2>6 DEF Logged
<1>3. ASSUME NEW d \in Calls, Hook(d), UNCHANGED log PROVE LoggedInv'
  <2>1. /\ UNCHANGED <<setting, full, flips>> /\ pc[d] \notin {"answered", "killed"}
        /\ \A c \in Calls : c # d => pc'[c] = pc[c]
    BY <1>3 DEF TypeOK, disk, Hook, Bypassed, CheckFlag, Terminal, ReadStdin, Decide,
                OpenLog, WriteLog, WriteRest, Ask, Goto, Reply
  <2>2. \A c \in Calls : c # d => Logged(c)'
    BY <1>1, <1>3, <2>1
  <2>3. Logged(d) /\ Flow(d)
    BY DEF LoggedInv, FlowInv
  <2>4. Pieces(d)' = Pieces(d) /\ Escalated(d)' = Escalated(d)
    BY <1>3, <2>1 DEF Pieces, Escalated, IsCommand, setting
  <2>5. pc[d] \in {"start", "decide", "log", "write"} => Pieces(d) = {}
    BY <2>3 DEF Logged
  <2>6. /\ pc'[d] # "rest"
        /\ Pieces(d) # {} => pc'[d] \in {"ask", "answered"}
        /\ Escalated(d) /\ pc'[d] \in {"ask", "answered"} /\ statedir /\ flips = 0
             => pc[d] = "ask"
    <3>1. CASE Bypassed(d) \/ Terminal(d) \/ ReadStdin(d) \/ CheckFlag(d)
      BY <1>3, <2>5, <3>1 DEF Bypassed, Terminal, ReadStdin, CheckFlag, Goto, Reply, TypeOK,
                              Escalated, IsCommand
    <3>2. CASE Decide(d)
      BY <2>5, <3>2 DEF Decide, Goto, Reply, TypeOK, Escalated, IsCommand
    <3>3. CASE OpenLog(d)
      BY <2>5, <3>3 DEF OpenLog, Goto, TypeOK
    <3>4. CASE WriteLog(d)
      <4>1. full
        BY <1>3, <3>4, LogGrows DEF WriteLog, Goto, TypeOK
      <4> QED
        BY <1>3, <2>5, <3>4, <4>1, LogGrows DEF WriteLog, Goto, TypeOK, LoggedInv
    <3>5. CASE WriteRest(d)
      <4>1. full
        BY <1>3, <3>5, LogGrows DEF WriteRest, TypeOK
      <4> QED
        BY <3>5, <4>1 DEF WriteRest, Goto, TypeOK, LoggedInv
    <3>6. CASE Ask(d)
      BY <3>6 DEF Ask, Reply, TypeOK
    <3> QED
      BY <1>3, <3>1, <3>2, <3>3, <3>4, <3>5, <3>6 DEF Hook
  <2>7. Logged(d)'
    BY <1>3, <2>1, <2>3, <2>4, <2>6 DEF Logged, setting
  <2> QED
    BY <2>1, <2>2, <2>7 DEF LoggedInv
<1>4. ASSUME NEW d \in Calls, WriteLog(d), ~UNCHANGED log PROVE LoggedInv'
  <2>1. PICK k \in {"line", "head"} :
          /\ log' = Append(log, [call |-> d, piece |-> k])
          /\ k = "line" => Goto(d, "ask")
          /\ k = "head" => full /\ Goto(d, "rest")
    BY <1>4 DEF WriteLog
  <2>2. /\ UNCHANGED <<setting, full, flips>> /\ pc[d] = "write"
        /\ \A c \in Calls : c # d => pc'[c] = pc[c]
        /\ pc'[d] = IF k = "line" THEN "ask" ELSE "rest"
    BY <1>4, <2>1 DEF WriteLog, Goto, TypeOK, disk
  <2>3. \A c \in Calls : c # d => Logged(c)'
    BY <1>2, <2>1, <2>2
  <2>4. Pieces(d) = {} /\ Escalated(d)
    BY <2>2 DEF LoggedInv, Logged, FlowInv, Flow
  <2>5. Pieces(d)' = {Len(log) + 1} /\ log'[Len(log) + 1].piece = k
    BY <2>1, <2>4, LogGrows DEF Pieces
  <2>6. Escalated(d)'
    BY <2>2, <2>4 DEF Escalated, IsCommand, setting
  <2>7. Logged(d)'
    <3>1. k = "head" => flips' # 0
      BY <2>1, <2>2 DEF LoggedInv
    <3> QED
      BY <2>2, <2>5, <2>6, <3>1 DEF Logged
  <2> QED
    BY <2>2, <2>3, <2>7 DEF LoggedInv
<1>5. ASSUME NEW d \in Calls, WriteRest(d), ~UNCHANGED log PROVE LoggedInv'
  <2>1. /\ log' = Append(log, [call |-> d, piece |-> "tail"])
        /\ UNCHANGED <<setting, full, flips>> /\ pc[d] = "rest" /\ pc'[d] = "ask"
        /\ \A c \in Calls : c # d => pc'[c] = pc[c]
    BY <1>5 DEF WriteRest, Goto, TypeOK, disk
  <2>2. \A c \in Calls : c # d => Logged(c)'
    BY <1>2, <2>1
  <2>3. /\ Escalated(d) /\ Logged(d)
        /\ \A i, j \in Pieces(d) : i = j /\ log[i].piece = "head"
    BY <2>1 DEF LoggedInv, Logged, FlowInv, Flow
  <2>4. /\ Pieces(d)' = Pieces(d) \cup {Len(log) + 1}
        /\ \A i \in Pieces(d) : log'[i] = log[i]
        /\ log'[Len(log) + 1].piece = "tail"
    BY <2>1, LogGrows DEF Pieces
  <2>5. Escalated(d)'
    BY <2>1, <2>3 DEF Escalated, IsCommand, setting
  <2>6. flips # 0
    BY <2>1, <2>3 DEF Logged
  <2>7. \A i, j \in Pieces(d)' : i # j => {log'[i].piece, log'[j].piece} = {"head", "tail"}
    <3> TAKE i, j \in Pieces(d)'
    <3> HAVE i # j
    <3>1. CASE i \in Pieces(d)
      <4>1. log'[i].piece = "head" /\ log'[j].piece = "tail"
        BY <2>3, <2>4, <3>1
      <4> QED
        BY <4>1
    <3>2. CASE i = Len(log) + 1
      <4>1. log'[i].piece = "tail" /\ log'[j].piece = "head"
        BY <2>3, <2>4, <3>2
      <4> QED
        BY <4>1
    <3> QED
      BY <2>4, <3>1, <3>2
  <2>8. \A i \in Pieces(d)' : log'[i].piece = "tail" => \E j \in Pieces(d)' : j < i
    <3>1. PICK j \in Pieces(d) : log[j].piece = "head"
      BY <2>1, <2>3 DEF Logged
    <3>2. j < Len(log) + 1
      BY <3>1 DEF Pieces, TypeOK
    <3> QED
      BY <2>3, <2>4, <3>1, <3>2
  <2>9. Logged(d)'
    BY <2>1, <2>5, <2>6, <2>7, <2>8 DEF Logged
  <2> QED
    BY <2>1, <2>2, <2>9 DEF LoggedInv
<1>6. ASSUME NEW d \in Calls, Feed(d) \/ Act(d) PROVE LoggedInv'
  <2>1. UNCHANGED <<setting, log, pc, full, flips>>
    BY <1>6 DEF Feed, Act, Settle, disk
  <2> QED
    BY <1>1, <2>1 DEF LoggedInv
<1>7. ASSUME NEW d \in Calls, Kill(d) PROVE LoggedInv'
  <2>1. /\ UNCHANGED <<setting, log, full, flips>>
        /\ \A c \in Calls : pc'[c] = pc[c] \/ pc'[c] = "killed"
    BY <1>7 DEF Kill, disk, TypeOK
  <2> QED
    BY <1>1, <2>1 DEF LoggedInv
<1>8. CASE Flip
  <2>1. UNCHANGED <<setting, log, pc>> /\ flips' # 0
    BY <1>8 DEF Flip, TypeOK
  <2> SUFFICES ASSUME NEW c \in Calls PROVE Logged(c)'
    BY <2>1 DEF LoggedInv
  <2>2. Logged(c)
    BY DEF LoggedInv
  <2>3. Pieces(c)' = Pieces(c) /\ Escalated(c)' = Escalated(c)
    BY <2>1 DEF Pieces, Escalated, IsCommand, setting
  <2> QED
    BY <2>1, <2>2, <2>3 DEF Logged
<1>9. CASE UNCHANGED vars
  BY <1>1, <1>9 DEF vars, disk, LoggedInv
<1> QED
  <2>1. ASSUME NEW d \in Calls, Hook(d) PROVE LoggedInv'
    <3>1. UNCHANGED log \/ WriteLog(d) \/ WriteRest(d)
      BY <2>1 DEF Hook, Bypassed, CheckFlag, Terminal, ReadStdin, Decide, OpenLog, Ask, Reply
    <3> QED
      BY <2>1, <3>1, <1>3, <1>4, <1>5
  <2> QED
    BY <2>1, <1>6, <1>7, <1>8, <1>9 DEF Next

LEMMA InitLogged == Init => LoggedInv
BY DEF Init, LoggedInv, Logged, Pieces

(* The log is a faithful record of the bypasses models ask for.            *)
THEOREM LogIsFaithful == Spec => []LogIsTheRecord
<1>1. TypeOK /\ FlowInv /\ LoggedInv /\ [Next]_vars => (TypeOK /\ FlowInv /\ LoggedInv)'
  BY StepTypes, StepFlow, StepLogged
<1>2. Init => TypeOK /\ FlowInv /\ LoggedInv
  BY InitTypes, InitFlow, InitLogged
<1>3. FlowInv /\ LoggedInv => LogIsTheRecord
  BY DEF FlowInv, Flow, LoggedInv, Logged, LogIsTheRecord
<1> QED
  BY <1>1, <1>2, <1>3, PTL DEF Spec
=============================================================================
