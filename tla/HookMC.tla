-------------------------------- MODULE HookMC -------------------------------
(* The hook, each part over its own instances: its processes at work       *)
(* (HookSession, with the values of HookSessionMC), and the two readers of *)
(* a command's text, the scanners over scripts of characters (ShellText)   *)
(* and the classifier over commands of words (HookClassifier).             *)
EXTENDS HookSessionMC

(* Words for ShellText: plain, in both kinds of quotes, escaped, empty, and *)
(* with characters that mean something only elsewhere.                      *)
W(t, w, sub) == [text |-> t, word |-> w, sub |-> sub]
Words ==
  {W(<<"a", "#", "2">>, <<"a", "#", "2">>, <<>>),
   W(<<"sq", "a", "|", "tick", "bs", "sq", "b">>, <<"a", "|", "tick", "bs", "b">>, <<>>),
   W(<<"dq", "#", "<", "<", "E", ";", "bs", "dq", "sp", "dq">>,
     <<"#", "<", "<", "E", ";", "dq", "sp">>, <<>>),
   W(<<"bs", ">", "bs", "sp", "a">>, <<">", "sp", "a">>, <<>>),
   W(<<"dq", "sq", "$", "(", "g", "sq", ")", "sq", ")", "dq">>,
     <<"sq", "$", "(", "g", "sq", ")", "sq", ")">>, <<<<"g", "sq", ")", "sq">>>>),
   W(<<"sq", "sq">>, <<>>, <<>>)}
(* A line is gone on with after a space.                                    *)
AfterSpace == {<<"sp", "bs", "nl">>}

CONSTANTS MaxPieces, MAX_DEPTH, MaxLayers

VARIABLES
  subject,
  text, cmds, subs, heredocs, comment, pieces,  \* ShellText
  words, runs, marks, layers                    \* HookClassifier
scannerVars == <<text, cmds, subs, heredocs, comment, pieces>>
classifierVars == <<words, runs, marks, layers>>
hookVars == <<vars, subject, scannerVars, classifierVars>>

S == INSTANCE ShellText WITH WordPieces <- Words, Continuations <- AfterSpace
C == INSTANCE HookClassifier WITH text <- words

(* The parts that are not looked at: every hook has ended, no text is read. *)
NoSession ==
  /\ bypass = FALSE /\ statedir = FALSE /\ log = <<>> /\ full = FALSE /\ flips = 0
  /\ request = [c \in Calls |-> Request("check", "claude", TRUE, "plain")]
  /\ fed = Calls /\ pc = [c \in Calls |-> "answered"]
  /\ answer = [c \in Calls |-> "none"] /\ fate = [c \in Calls |-> "pending"]
NoWords == words = <<>> /\ runs = {} /\ marks = {} /\ layers = 0

HookInit ==
  \/ subject = "session" /\ Init /\ S!Init /\ NoWords
  \/ subject = "scanners" /\ S!Init /\ NoSession /\ NoWords
  \/ subject = "classifier" /\ C!Init /\ S!Init /\ NoSession
HookNext ==
  \/ subject = "session" /\ Next /\ UNCHANGED <<subject, scannerVars, classifierVars>>
  \/ subject = "scanners" /\ S!Next /\ UNCHANGED <<subject, vars, classifierVars>>
  \/ subject = "classifier" /\ C!Next /\ UNCHANGED <<subject, vars, scannerVars>>
(* The fairness of HookSession's FairSpec.                                 *)
HookSpec == HookInit /\ [][HookNext]_hookVars /\ \A c \in Calls : WF_vars(Hook(c)) /\ WF_vars(Feed(c))

(* What ShellText promises of the scanners (src/hook/shell_text.rs and     *)
(* src/hook/claude_code.rs): they read the commands the shell reads, and   *)
(* find the substitutions in them.                                         *)
CommandsAreRead == subject = "scanners" => S!CommandsAreRead
SubstitutionsAreFound == subject = "scanners" => S!SubstitutionsAreFound
(* What HookClassifier promises, of the commands the classifier is shown:  *)
(* src/hook/claude_code.rs finds the reads a command runs, and its markers.*)
CallsAreFound == subject = "classifier" => C!ReadsAreFound /\ C!MarkersAreFound
=============================================================================
