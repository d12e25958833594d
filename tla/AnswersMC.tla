------------------------------ MODULE AnswersMC ------------------------------
(* Families of commands that answer once, each over its own instances: the *)
(* triage of a cluster's pods (PodTriage), the chains of certificates      *)
(* (CertChain, which this module extends), the files that hold them        *)
(* (CertFiles), the histories of repositories (GitHistory), the requests   *)
(* to GitHub (GhRequests), the rule tables of the hook (HookRules) and the *)
(* servers of metrics and logs (Metrics).                                  *)
(* Families use the same variables where they mean the same.               *)
EXTENDS CertChain

CONSTANTS None, NoLimit, MaxSteps, MaxMoves, MaxPhrases, MaxObserved

VARIABLES
  subject,
  pods, events, steps, asked, rows, exit,            \* PodTriage
  looked, infos, at, told, status,                   \* CertFiles
  repo, cmd, head, start, frontier, seen, remaining, acc, phase, printed, code, moves, \* GitHistory
  request, sent, table, ended,                       \* GhRequests, Metrics
  use, args,                                         \* HookRules; args of GhRequests too
  observed, fresh, reply, first                      \* Metrics

podVars == <<pods, events, steps, asked, rows, exit>>
chainVars == vars
fileVars == <<looked, infos, at, told, status>>
gitVars == <<repo, cmd, head, start, frontier, seen, remaining, acc, phase, printed, code, moves>>
ghVars == <<request, sent, table, ended>>
ruleVars == <<use, args>>
metricVars == <<observed, fresh, reply, first>>
all == <<subject, podVars, chainVars, fileVars, gitVars, ghVars, ruleVars, metricVars>>

Values == INSTANCE AnswerValuesMC
Pod == INSTANCE PodTriage WITH
  Pods <- Values!MCPods, Objects <- Values!MCObjects, Events <- Values!MCEvents,
  Contexts <- {"app", "batch"}, Served <- Values!MCServed, Builtins <- Values!MCBuiltins,
  Documents <- Values!MCDocuments, Rights <- Values!MCRights, Rank <- Values!PodRank,
  Default <- "app", Commands <- Values!PodCommands, cmd <- asked, code <- exit

ChainJobs == Values!MCJobs
File == INSTANCE CertFiles WITH
  Commands <- Values!CertCommands, Fields <- Values!MCFields, Day <- 4,
  cmd <- looked, printed <- told, code <- status

Git == INSTANCE GitHistory WITH
  Repos <- Values!MCRepos, Commands <- Values!GitCommands, Day <- 4,
  Rank <- Values!GitRank, Place <- Values!MCPlace

Gh == INSTANCE GhRequests WITH
  Phrases <- Values!MCPhrases, Held <- Values!MCHeld, Requests <- Values!MCRequests,
  GhDefault <- 2, cmd <- request, rows <- table, code <- ended

Rules == INSTANCE HookRules WITH Uses <- Values!MCUses

Metric == INSTANCE Metrics WITH
  Commands <- Values!MetricCommands, Data <- Values!MCData, Buckets <- Values!MCBuckets,
  Deployments <- Values!MCDeployments, Value <- Values!MCValue, Rank <- Values!MCRank,
  Now <- 5000, Nanos <- 100, MaxNumber <- Values!Largest,
  cmd <- request, rows <- table, code <- ended

(* The variables of the families that are not looked at.                   *)
NoPods == pods = None /\ events = None /\ steps = None /\ asked = None
    /\ rows = None /\ exit = None
NoChains == job = None /\ order = <<>> /\ reports = <<>> /\ exited = "running"
NoFiles == looked = None /\ infos = None /\ at = None /\ told = None
    /\ status = None
NoHistories == repo = None /\ cmd = None /\ head = None /\ start = None
    /\ frontier = None /\ seen = None /\ remaining = None /\ acc = None
    /\ phase = None /\ printed = None /\ code = None /\ moves = None
NoRequests == request = None /\ sent = None /\ table = None /\ ended = None
NoRules == use = None /\ args = None
NoMetrics == observed = None /\ fresh = None /\ reply = None /\ first = None
NoHooks == NoRequests /\ NoRules /\ NoMetrics

AnswersInit ==
  \/ subject = "pods" /\ Pod!Init /\ NoChains /\ NoFiles /\ NoHistories /\ NoHooks
  \/ subject = "chain" /\ Init /\ NoPods /\ NoFiles /\ NoHistories /\ NoHooks
  \/ subject = "files" /\ File!Init /\ NoPods /\ NoChains /\ NoHistories /\ NoHooks
  \/ subject = "history" /\ Git!Init /\ NoPods /\ NoChains /\ NoFiles /\ NoHooks
  \/ subject = "gh" /\ Gh!Init /\ use = None /\ NoMetrics /\ NoPods /\ NoChains /\ NoFiles /\ NoHistories
  \/ subject = "rules" /\ Rules!Init /\ NoRequests /\ NoMetrics /\ NoPods /\ NoChains /\ NoFiles /\ NoHistories
  \/ subject = "metrics" /\ Metric!Init /\ NoRules /\ NoPods /\ NoChains /\ NoFiles /\ NoHistories
AnswersNext ==
  \/ subject = "pods" /\ Pod!Next /\ UNCHANGED <<subject, chainVars, fileVars, gitVars, ghVars, ruleVars, metricVars>>
  \/ subject = "chain" /\ Next /\ UNCHANGED <<subject, podVars, fileVars, gitVars, ghVars, ruleVars, metricVars>>
  \/ subject = "files" /\ File!Next /\ UNCHANGED <<subject, podVars, chainVars, gitVars, ghVars, ruleVars, metricVars>>
  \/ subject = "history" /\ Git!Next /\ UNCHANGED <<subject, podVars, chainVars, fileVars, ghVars, ruleVars, metricVars>>
  \/ subject = "gh" /\ Gh!Next /\ UNCHANGED <<subject, podVars, chainVars, fileVars, gitVars, use, metricVars>>
  \/ subject = "rules" /\ Rules!Write /\ UNCHANGED <<subject, podVars, chainVars, fileVars, gitVars, ghVars, metricVars>>
  \/ subject = "metrics" /\ Metric!Next /\ UNCHANGED <<subject, podVars, chainVars, fileVars, gitVars, ruleVars>>
AnswersSpec == AnswersInit /\ [][AnswersNext]_all

(* What PodTriage promises of src/k8s: what is said of a pod is so.        *)
TriageIsTrue == subject = "pods" => Pod!TriageIsTrue
(* What CertFiles promises of src/cert: certificates and dates are told.   *)
CertificatesAreTold == subject = "files" => File!CertificatesAreTold
(* What GitHistory promises of src/git: histories and comparisons.         *)
HistoryIsTrue == subject = "history" => Git!HistoryIsTrue /\ Git!ComparisonsAreTrue
(* What GhRequests promises of src/gh: only reads pass the chokepoint, all *)
(* of them do, and an answer is told as it is.                             *)
RequestsAreTrue == subject = "gh" => Gh!RequestsAreTrue
(* What HookRules promises of the tables in every domain's hook.rs: writes *)
(* are left alone, reads are served, programs are denied.                  *)
RulesAreTrue == subject = "rules" => Rules!RulesAreTrue
(* What Metrics promises of src/prom and src/loki: labels, tables, buckets *)
(* and exit codes are those of the server, and the window that was asked.  *)
MetricsAreTrue == subject = "metrics" => Metric!MetricsAreTrue
=============================================================================
