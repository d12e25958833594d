------------------------------ MODULE PodTriage ------------------------------
(***************************************************************************)
(* The commands of `sak k8s` that ask the API server once and print a row  *)
(* for each thing found (src/k8s: get -o table, failing, pending,          *)
(* not-ready, restarts, images, env, events, contexts, kinds, can-i,       *)
(* schema), shown a cluster whose kubelet goes on scheduling, starting,    *)
(* failing and retrying the containers of its pods.  An invocation reads   *)
(* the cluster at one moment; what it says of a pod is derived from the    *)
(* statuses the kubelet had written by then.                               *)
(*                                                                         *)
(* A row is its sort key, a tuple of numbers, and its cells.               *)
(***************************************************************************)
EXTENDS Integers, Sequences, FiniteSets, SequencesExt

CONSTANTS
  Pods,        \* sets of pods to create: [ns, name, policy, init, main]
  Objects,     \* what else is listed: [kind, ns, name, shapes, conditions]
  Events,      \* sets of events: [id, first, last, time, kind, name]
  Contexts,    \* the contexts of the kubeconfig
  Served,      \* what the cluster serves: [version, kind, scope]
  Builtins,    \* [shortname -> kind] (discovery.rs)
  Documents,   \* the OpenAPI documents: [group/version -> set of kinds]
  Rights,      \* the reviews granted: <<resource, namespace, name>>
  Rank,        \* the order of the names
  Default,     \* the kubeconfig's namespace
  None,        \* no namespace, no name, no node, no reason, no time
  NoLimit,
  Commands,    \* [op, kind, ns, all, name, limit, n, a, b]
  MaxSteps     \* bound: how often the kubelet acts

Unbounded(c) == c.limit = NoLimit

VARIABLES pods, events, steps, cmd, rows, code
vars == <<pods, events, steps, cmd, rows, code>>

-----------------------------------------------------------------------------
(* The kubelet.  A container's status: its state, the reason, the exit     *)
(* code and the signal given for it, whether it is ready, how often it was *)
(* restarted and why it ended before.                                      *)

Fresh == [st |-> "waiting", why |-> "PodInitializing", exit |-> 0, sig |-> 0,
          ready |-> FALSE, restarts |-> 0, last |-> None]

Created(p) ==
  [ns |-> p.ns, name |-> p.name, policy |-> p.policy, node |-> None, reason |-> None,
   deleting |-> FALSE, want |-> [init |-> p.init, main |-> p.main], init |-> <<>>, main |-> <<>>]

Ended(cs) == cs.st = "terminated"
Succeeded(cs) == Ended(cs) /\ cs.exit = 0
EachOf(p) == {<<f, i>> : f \in {"init", "main"}, i \in 1..2} \cap
             ({<<"init", i>> : i \in DOMAIN p.init} \cup {<<"main", i>> : i \in DOMAIN p.main})
Initialized(p) == p.node # None /\ \A i \in DOMAIN p.init : Succeeded(p.init[i])
MayRun(p, f, i) ==
  IF f = "main" THEN Initialized(p)
  ELSE \A j \in 1..(i - 1) : Succeeded(p.init[j])

Those(p, states) == {i \in DOMAIN p.main : p.main[i].st \in states}
Begun(p) == Those(p, {"running", "terminated"}) \cup {i \in DOMAIN p.main : p.main[i].restarts > 0}
Broken(p) == p.policy = "Never" /\ \E i \in DOMAIN p.init : Ended(p.init[i]) /\ ~Succeeded(p.init[i])
Phase(p) ==
  CASE p.reason = "Evicted" -> "Failed"
    [] p.reason # "Evicted" /\ ~Initialized(p) -> IF Broken(p) THEN "Failed" ELSE "Pending"
    [] p.reason # "Evicted" /\ Initialized(p) /\ Begun(p) # DOMAIN p.main -> "Pending"
    [] OTHER ->
         IF Those(p, {"running"}) # {} \/ p.policy = "Always" THEN "Running"
         ELSE IF \A i \in DOMAIN p.main : Succeeded(p.main[i]) THEN "Succeeded" ELSE "Failed"

Ready(p) == Phase(p) = "Running" /\ \A i \in DOMAIN p.main : p.main[i].ready

Act(p, q) ==
  /\ cmd = None /\ steps < MaxSteps
  /\ pods' = (pods \ {p}) \cup q /\ steps' = steps + 1
  /\ UNCHANGED <<events, cmd, rows, code>>

Bind(p) ==
  /\ p.node = None /\ ~p.deleting
  /\ Act(p, {[p EXCEPT !.node = "n1", !.init = [i \in 1..p.want.init |-> Fresh],
                       !.main = [i \in 1..p.want.main |-> Fresh]]})

Start(p, f, i) ==
  /\ p[f][i].st = "waiting" /\ MayRun(p, f, i) /\ p.reason = None
  /\ Act(p, {[p EXCEPT ![f][i] = [@ EXCEPT !.st = "running", !.why = None]]})

BecomeReady(p, i) ==
  /\ p.main[i].st = "running" /\ ~p.main[i].ready
  /\ Act(p, {[p EXCEPT !.main[i].ready = TRUE]})

End(p, f, i, exit, sig, why) ==
  /\ p[f][i].st = "running"
  /\ Act(p, {[p EXCEPT ![f][i] = [@ EXCEPT !.st = "terminated", !.exit = exit, !.sig = sig,
                                            !.why = why, !.ready = FALSE]]})

BackOff(p, f, i) ==
  /\ Ended(p[f][i]) /\ p.policy = "Always" /\ (f = "init" => ~Succeeded(p[f][i]))
  /\ Act(p, {[p EXCEPT ![f][i] = [@ EXCEPT !.st = "waiting", !.why = "CrashLoopBackOff",
                                            !.restarts = @ + 1, !.last = p[f][i].why]]})

Evict(p) ==
  /\ p.node # None /\ p.reason = None
  /\ Act(p, {[p EXCEPT !.reason = "Evicted", !.init = <<>>, !.main = <<>>]})
Delete(p) == ~p.deleting /\ Act(p, {[p EXCEPT !.deleting = TRUE]})
LoseNode(p) == p.node # None /\ p.reason = None /\ Act(p, {[p EXCEPT !.reason = "NodeLost"]})
Gone(p) == p.deleting /\ Act(p, {})

Ends == {<<0, 0, "Completed">>, <<1, 0, "Error">>, <<137, 9, None>>}
Kubelet ==
  \E p \in pods :
    \/ Bind(p) \/ Evict(p) \/ Delete(p) \/ LoseNode(p) \/ Gone(p)
    \/ \E fi \in EachOf(p) :
         \/ Start(p, fi[1], fi[2]) \/ BackOff(p, fi[1], fi[2])
         \/ \E e \in Ends : End(p, fi[1], fi[2], e[1], e[2], e[3])
    \/ \E i \in DOMAIN p.main : BecomeReady(p, i)

-----------------------------------------------------------------------------
(* podtable.rs: the columns of `get -o table`.                             *)

Told(cs) ==
  IF cs.why # None THEN <<cs.why>> ELSE IF cs.sig # 0 THEN <<"Signal", cs.sig>> ELSE <<"ExitCode", cs.exit>>
(* The first init container that has not ended well says how far it got.   *)
Initializing_Ended(p) == \E i \in DOMAIN p.init : ~Ended(p.init[i])
Initializing(p) == \E i \in DOMAIN p.init : ~Succeeded(p.init[i])
init_reason(p) ==
  LET i == CHOOSE i \in DOMAIN p.init :
             ~Succeeded(p.init[i]) /\ \A j \in 1..(i - 1) : Succeeded(p.init[j])
      cs == p.init[i]
  IN CASE Ended(cs) -> <<"Init">> \o Told(cs)
       [] cs.st = "waiting" /\ cs.why \notin {None, "PodInitializing"} -> <<"Init", cs.why>>
       [] OTHER -> <<"Init", "at", i - 1, Len(p.init)>>

Stopped(cs) == Ended(cs) \/ (cs.st = "waiting" /\ cs.why # None)
(* The statuses are walked from the last to the first, the first listed    *)
(* container that waits or has ended gives the reason.                     *)
MainReason(p) ==
  LET stopped == {i \in DOMAIN p.main : Stopped(p.main[i])}
  IN IF stopped # {} THEN Told(p.main[CHOOSE i \in stopped : \A j \in stopped : i <= j])
     ELSE <<IF p.reason # None THEN p.reason ELSE Phase(p)>>
HasRunning(p) == \E i \in DOMAIN p.main : p.main[i].ready /\ p.main[i].st = "running"

pod_status(p) ==
  CASE p.deleting -> <<IF p.reason = "NodeLost" THEN "Unknown" ELSE "Terminating">>
    [] ~p.deleting /\ Initializing(p) -> init_reason(p)
    [] ~p.deleting /\ ~Initializing(p) /\ MainReason(p) = <<"Completed">> /\ HasRunning(p) ->
         <<IF Ready(p) THEN "Running" ELSE "NotReady">>
    [] OTHER -> MainReason(p)

Sum(f, statuses) == FoldSeq(LAMBDA cs, n : n + cs[f], 0, statuses)
pod_restarts(p) == Sum("restarts", IF Initializing(p) THEN p.init ELSE p.main)
pod_ready(p) == <<Cardinality({i \in DOMAIN p.main : p.main[i].ready}), p.want.main>>

Minute == 60
Hour == 3600
Days == 24 * Hour
Year == 365 * Days
(* An age as a list of <<number, unit in seconds>>.                        *)
Parts(secs, large, small) ==
  LET rest == (secs % large) \div small
  IN <<<<secs \div large, large>>>> \o (IF rest = 0 THEN <<>> ELSE <<<<rest, small>>>>)
Whole(secs, unit) == <<<<secs \div unit, unit>>>>
human_duration(secs) ==
  CASE secs < -1 -> <<>>
    [] secs = -1 -> <<<<0, 1>>>>
    [] secs \in 0..(2 * Minute - 1) -> Whole(secs, 1)
    [] secs \in (2 * Minute)..(10 * Minute - 1) -> Parts(secs, Minute, 1)
    [] secs \in (10 * Minute)..(3 * Hour - 1) -> Whole(secs, Minute)
    [] secs \in (3 * Hour)..(8 * Hour - 1) -> Parts(secs, Hour, Minute)
    [] secs \in (8 * Hour)..(2 * Days - 1) -> Whole(secs, Hour)
    [] secs \in (2 * Days)..(8 * Days - 1) -> Parts(secs, Days, Hour)
    [] secs \in (8 * Days)..(2 * Year - 1) -> Whole(secs, Days)
    [] secs \in (2 * Year)..(8 * Year - 1) -> Parts(secs, Year, Days)
    [] OTHER -> Whole(secs, Year)

-----------------------------------------------------------------------------
(* The commands.  Each is the set of its rows.                             *)

Row(key, cells) == [key |-> key, cells |-> cells]
InScope(o, c) == o.ns = None \/ c.all \/ o.ns = (IF c.ns = None THEN Default ELSE c.ns)
Scoped(c) == {p \in pods : InScope(p, c)}
Place(o) == <<Rank[o.ns], Rank[o.name]>>
Nsname(o) == <<o.ns, o.name>>

emit_table(c) ==
  {Row(Place(p), <<Nsname(p), pod_ready(p), pod_status(p), pod_restarts(p), human_duration(c.n), p.node>>) :
     p \in Scoped(c)}

container_status_reason(p) ==
  LET why == SelectSeq(p.main, LAMBDA cs : cs.st # "running" /\ cs.why # None)
  IN IF why = <<>> THEN None ELSE Head(why).why
failing(c) ==
  {Row(Place(p), <<Nsname(p), Phase(p), IF p.reason # None THEN p.reason ELSE container_status_reason(p)>>) :
     p \in {p \in Scoped(c) : Phase(p) \notin {"Running", "Succeeded"}}}

(* The scheduler's message stands in the PodScheduled condition.           *)
Unscheduled(p) == p.node = None
pending(c) ==
  {Row(Place(p), <<Nsname(p), IF Unscheduled(p) THEN "no node fits" ELSE None>>) :
     p \in {p \in Scoped(c) : Phase(p) = "Pending"}}

Truth(b) == IF b THEN "True" ELSE "False"
Conditions(o) ==
  IF "want" \in DOMAIN o THEN [Ready |-> Truth(Ready(o)), PodScheduled |-> Truth(~Unscheduled(o))]
  ELSE o.conditions
Listed(c) == IF c.kind = "pod" THEN Scoped(c) ELSE {o \in Objects : o.kind = c.kind /\ InScope(o, c)}
unmet(o, c) == c.a \in DOMAIN Conditions(o) => Conditions(o)[c.a] # c.b
not_ready(c) ==
  {Row(Place(o), <<Nsname(o), IF c.a \in DOMAIN Conditions(o) THEN Conditions(o)[c.a] ELSE None>>) :
     o \in {o \in Listed(c) : unmet(o, c)}}

restarts(c) ==
  UNION {{Row(<<-p.main[i].restarts>> \o Place(p) \o <<i>>, <<Nsname(p), i, p.main[i].restarts, p.main[i].last>>) :
            i \in {i \in DOMAIN p.main : p.main[i].restarts >= c.n}} : p \in Scoped(c)}

(* The first of the three paths there is holds the containers: a CronJob's *)
(* template, a workload's, the pod's own.                                  *)
walk_containers(o) ==
  LET there == SelectSeq(o.shapes, LAMBDA s : s.there)
  IN IF there = <<>> THEN <<>> ELSE Head(there).containers
images(c) ==
  UNION {{Row(Place(o) \o <<Rank[walk_containers(o)[i].name]>>,
              <<Nsname(o), walk_containers(o)[i].name, walk_containers(o)[i].image>>) :
            i \in DOMAIN walk_containers(o)} : o \in Listed(c)}

(* The source of a variable: its value before any reference.               *)
Sources == <<"value", "configMap", "secret", "field", "resource">>
render_env_value(entry) ==
  LET given == SelectSeq(Sources, LAMBDA s : s \in entry.from)
  IN IF given = <<>> THEN None ELSE Head(given)
Named(c) == {o \in Objects : o.kind = c.kind /\ o.name = c.name
                               /\ o.ns = (IF c.ns = None THEN Default ELSE c.ns)}
env(c) ==
  UNION {UNION {{Row(<<i, j>>, <<walk_containers(o)[i].name, walk_containers(o)[i].env[j].name,
                                render_env_value(walk_containers(o)[i].env[j])>>) :
                   j \in DOMAIN walk_containers(o)[i].env} : i \in DOMAIN walk_containers(o)} : o \in Named(c)}

(* A time is <<second, fraction>>; the fraction is None when the text has  *)
(* none, and the text's "Z" then sorts behind any fraction's ".".          *)
When(e) == IF e.last # None THEN e.last ELSE IF e.time # None THEN e.time ELSE e.first
Text(t) ==
  IF t = None THEN <<1, 0, 0>> ELSE IF t[2] = None THEN <<-t[1], 0, 0>> ELSE <<-t[1], 1, -t[2]>>
canonical(kind) == IF kind \in DOMAIN Builtins THEN Builtins[kind] ELSE kind
event_matches(e, c) == c.kind = None \/ (e.kind = canonical(c.kind) /\ e.name = c.name)
event_rows(c) ==
  {Row(Text(When(e)) \o <<Rank[e.name], e.id>>, <<When(e), e.kind, e.name>>) :
     e \in {e \in events : InScope(e, c) /\ event_matches(e, c)}}

contexts(c) == {Row(<<Rank[x]>>, <<x>>) : x \in Contexts}
kinds(c) == {Row(<<Rank[k.version], Rank[k.kind]>>, <<k.version, k.kind, k.scope>>) : k \in Served}

review_namespace(c) == IF c.all THEN None ELSE IF c.ns = None THEN Default ELSE c.ns
can_i(c) ==
  IF \E r \in Rights : r[1] = c.kind /\ r[2] \in {None, review_namespace(c)} /\ r[3] \in {None, c.name}
  THEN {Row(<<0>>, <<"yes">>)} ELSE {}

(* a: the group and version asked for, or None.                            *)
Gv(c) == IF c.a # None THEN c.a ELSE CHOOSE v \in DOMAIN Documents : Documents[v].of = Builtins[c.kind]
SchemaKind(c) == IF c.a # None THEN c.kind ELSE canonical(c.kind)
Described(c) ==
  /\ c.a # None \/ (c.b = None /\ c.kind \in DOMAIN Builtins)
  /\ Gv(c) \in DOMAIN Documents /\ SchemaKind(c) \in Documents[Gv(c)].kinds
schema(c) == {Row(<<0>>, <<Gv(c), SchemaKind(c)>>)}

Found(c) ==
  CASE c.op = "table" -> emit_table(c) [] c.op = "failing" -> failing(c)
    [] c.op = "pending" -> pending(c) [] c.op = "not-ready" -> not_ready(c)
    [] c.op = "restarts" -> restarts(c) [] c.op = "images" -> images(c)
    [] c.op = "env" -> env(c) [] c.op = "events" -> event_rows(c)
    [] c.op = "contexts" -> contexts(c) [] c.op = "kinds" -> kinds(c)
    [] c.op = "can-i" -> can_i(c) [] OTHER -> schema(c)

(* What is refused before or after the first request: a namespace for a    *)
(* kind that has none, a kind without a pod template, half a name.         *)
Templated == {"deploy", "cronjob", "pod"}
ScopeIsWrong(c) == (c.ns # None \/ c.all) /\ \E o \in Objects : o.kind = c.kind /\ o.ns = None
Refused(c) ==
  CASE c.op \in {"not-ready", "images"} -> ScopeIsWrong(c)
    [] c.op = "env" -> c.kind \notin Templated
    [] c.op = "events" -> (c.kind = None) # (c.name = None)
    [] c.op = "can-i" -> c.b # None /\ c.name # None
    [] c.op = "schema" -> ~Described(c)
    [] OTHER -> FALSE

Less(a, b) == \E k \in DOMAIN a : a[k] < b[k] /\ \A l \in 1..(k - 1) : a[l] = b[l]
Before(x, y) == Less(x.key, y.key)
Sorted(found) == SetToSortSeq(found, Before)
Cut(s, c) == IF Unbounded(c) \/ c.limit >= Len(s) THEN s ELSE SubSeq(s, 1, c.limit)

(* contexts and kinds answer "found" where the limit stops them.           *)
ExitOf(c, found) ==
  IF found = {} THEN 1 ELSE IF c.limit = 0 /\ c.op \notin {"contexts", "kinds"} THEN 1 ELSE 0

Answer(c) ==
  /\ cmd = None /\ cmd' = c /\ ~Refused(c)
  /\ rows' = Cut(Sorted(Found(c)), c) /\ code' = ExitOf(c, Found(c))
  /\ UNCHANGED <<pods, events, steps>>

Fail(c) ==
  /\ cmd = None /\ cmd' = c /\ (Refused(c) \/ c.op # "contexts")
  /\ rows' = <<>> /\ code' = 2
  /\ UNCHANGED <<pods, events, steps>>

Init ==
  /\ pods \in {{Created(p) : p \in P} : P \in Pods} /\ events \in Events
  /\ steps = 0 /\ cmd = None /\ rows = <<>> /\ code = -1

Next == Kubelet \/ \E c \in Commands : Answer(c) \/ Fail(c)

Spec == Init /\ [][Next]_vars
-----------------------------------------------------------------------------
(* Properties.                                                             *)

Answered(op) == cmd # None /\ cmd.op = op /\ code # 2
Printed == {rows[i] : i \in DOMAIN rows}
PodOf(row) == CHOOSE p \in pods : Nsname(p) = row.cells[1]

(* The STATUS column against what the kubelet did: nothing is Running      *)
(* while one of its containers waits or has ended, nothing Completed while *)
(* one still serves, Init only and always before the containers may run,   *)
(* and a reason is always that of one of its containers (podtable.rs,      *)
(* pod_status and init_reason).                                            *)
StatusIsTrue(p, s) ==
  IF p.deleting THEN s \in {<<"Terminating">>, <<"Unknown">>}
  ELSE /\ (s[1] = "Init") = (p.init # <<>> /\ ~Initialized(p))
       /\ s = <<"Running">> => /\ \A i \in DOMAIN p.main : p.main[i].st = "running"
                               /\ p.node # None
       /\ s = <<"Completed">> => \A i \in DOMAIN p.main : ~p.main[i].ready
       /\ s = <<"NotReady">> => /\ \E i \in DOMAIN p.main : p.main[i].ready
                                /\ \E i \in DOMAIN p.main : ~p.main[i].ready
       /\ s \in {<<"CrashLoopBackOff">>, <<"Error">>} => \E i \in DOMAIN p.main : <<p.main[i].why>> = s
       /\ s = <<"Init", "CrashLoopBackOff">> => \E i \in DOMAIN p.init : p.init[i].restarts > 0

(* The age column never says more than the age, and at most an eighth less *)
(* (podtable.rs, human_duration).                                          *)
AgeIsTrue(secs, parts) ==
  LET told == FoldSeq(LAMBDA x, n : n + x[1] * x[2], 0, parts)
  IN secs >= 0 => told <= secs /\ 8 * (secs - told) <= told
TableIsTrue ==
  Answered("table") =>
    \A row \in Printed : StatusIsTrue(PodOf(row), row.cells[3]) /\ AgeIsTrue(cmd.n, row.cells[5])

(* What --limit leaves out is never worse than what is shown: no container *)
(* in scope was restarted more often than one printed (restarts.rs), and   *)
(* no event is newer, by a second, than one printed or than one printed    *)
(* before it (events.rs, sort_rows_desc).                                  *)
WorstFirst ==
  /\ Answered("restarts") =>
       \A row \in Printed, p \in Scoped(cmd) : \A i \in DOMAIN p.main :
         p.main[i].restarts > row.cells[3] => \E other \in Printed : other.cells[1] = Nsname(p) /\ other.cells[2] = i
  /\ Answered("events") =>
       LET asked == {e \in events : InScope(e, cmd) /\ event_matches(e, cmd)}
           second(e) == IF When(e) = None THEN -1 ELSE When(e)[1]
           told(i) == IF rows[i].cells[1] = None THEN -1 ELSE rows[i].cells[1][1]
       IN /\ \A i, j \in DOMAIN rows : i < j => told(i) >= told(j)
          /\ \A e \in asked, i \in DOMAIN rows :
               second(e) > told(i) => \E j \in 1..(i - 1) : told(j) = second(e)

(* The commands agree on one cluster: a pod that `not-ready` leaves out is *)
(* one that the table shows Running, unless it is leaving or its node is   *)
(* lost, and that neither `failing` nor `pending` names; and a pod left    *)
(* out of `failing` never shows a step of its initialization or Pending.   *)
CommandsAgree ==
  LET named == {row.cells[1] : row \in Printed}
      left == {p \in Scoped(cmd) : Nsname(p) \notin named}
      by(op) == {row.cells[1] : row \in Found([cmd EXCEPT !.op = op])}
  IN /\ Answered("not-ready") /\ cmd.kind = "pod" /\ cmd.a = "Ready" /\ Unbounded(cmd) =>
          \A p \in left : /\ pod_status(p) = <<"Running">> \/ p.deleting \/ p.reason = "NodeLost"
                          /\ Nsname(p) \notin by("failing") \cup by("pending")
     /\ Answered("failing") /\ Unbounded(cmd) =>
          \A p \in left : p.deleting \/ pod_status(p)[1] \notin {"Init", "Pending"}

(* Exit 1 is said only where nothing matched or --limit 0 hid it, and      *)
(* where something is printed the answer is 0 (the listing commands).      *)
ExitIsTrue ==
  cmd # None /\ code # 2 => /\ rows # <<>> => code = 0
                            /\ code = 1 => Found(cmd) = {} \/ cmd.limit = 0

TriageIsTrue == cmd # None => TableIsTrue /\ WorstFirst /\ CommandsAgree /\ ExitIsTrue
=============================================================================
