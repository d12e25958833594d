------------------------------- MODULE Cluster -------------------------------
(***************************************************************************)
(* The commands of `sak k8s` that ask the API server more than once        *)
(* (src/k8s: get, owners, describe, children, endpoints, logs, top nodes): *)
(* one invocation, call by call, while controllers and users go on         *)
(* creating, adopting and deleting the objects it asks about, and while    *)
(* any call may fail.  Every call reads the cluster as it is at that       *)
(* moment; what was read before may no longer be so.                       *)
(*                                                                         *)
(* Rows are not cut here: --limit is the BoundedWriter's business.         *)
(***************************************************************************)
EXTENDS Integers, Sequences, FiniteSets

CONSTANTS
  Kinds,          \* the kinds the cluster serves, one for each group/version/kind
  Bare,           \* [Kinds -> STRING]: the kind without group and version
  ClusterScoped,  \* the kinds that live outside the namespaces
  Default,        \* the kubeconfig's namespace
  None,           \* no namespace, no name
  Templates,      \* what may be created: objects without uid and owners
  Clusters,       \* the clusters an invocation may find: sets of objects
  FreshUid,       \* the first uid none of them has used
  Commands,       \* the invocations tried
  MaxChanges      \* bound: how often the cluster changes

MAX_HOPS == 8          \* owners.rs
MAX_OWNER_HOPS == 5    \* describe.rs

Builtins == {k \in Kinds : Bare[k] = k}

child_kinds ==
  [k \in {"Deployment", "StatefulSet", "DaemonSet", "ReplicaSet", "Job", "CronJob", "Service"} |->
     CASE k = "Deployment" -> "ReplicaSet" [] k = "CronJob" -> "Job"
       [] k = "Service" -> "EndpointSlice" [] OTHER -> "Pod"]

(* items: the containers of a Pod, the addresses of an EndpointSlice, the  *)
(* readings of a NodeMetrics, what a Node can give, as far as they can be  *)
(* understood;                                                             *)
(* label: <<Service>> of an EndpointSlice, <<kind, name>> an Event is      *)
(* about, <<>> of anything else.                                           *)
Reference == [kind : Kinds, name : STRING, uid : Nat, controller : BOOLEAN]
Object == [kind : Kinds, ns : STRING \cup {None}, name : STRING, label : Seq(STRING),
           items : SUBSET STRING, uid : Nat, refs : Seq(Reference)]
Key(o) == [kind |-> o.kind, ns |-> o.ns, name |-> o.name]

(* What the API server sees to: kinds are served outside the namespaces or *)
(* inside them, and no two objects share a key or a uid.                   *)
Consistent(objects) ==
  /\ objects \subseteq Object
  /\ \A o \in objects : o.ns = None <=> o.kind \in ClusterScoped
  /\ \A o, p \in objects : Key(o) = Key(p) \/ o.uid = p.uid => o = p

Ops == {"get", "owners", "describe", "children", "endpoints", "logs", "top"}

ASSUME ClusterAssumption ==
  /\ Bare \in [Kinds -> STRING]
  /\ \A k \in Kinds : Bare[k] \in DOMAIN child_kinds => child_kinds[Bare[k]] \in Builtins
  /\ ClusterScoped \subseteq Kinds /\ Default # None
  /\ \A t \in Templates :
       /\ t \in [kind : Kinds, ns : STRING \cup {None}, name : STRING, label : Seq(STRING),
                 items : SUBSET STRING]
       /\ t.ns = None <=> t.kind \in ClusterScoped
  /\ FreshUid \in Nat /\ MaxChanges \in Nat
  /\ \A objects \in Clusters : Consistent(objects) /\ \A o \in objects : o.uid < FreshUid

(* A name is required but by get and by top nodes, which takes none; all   *)
(* namespaces (get) or all containers (logs) exclude one.                  *)
ASSUME CommandAssumption ==
  \A c \in Commands :
    /\ c.op \in Ops /\ \E k \in Kinds : Bare[k] = c.kind
    /\ c.op \notin {"get", "top"} => c.name # None
    /\ c.op = "top" => c.name = None
    /\ c.op = "get" /\ c.all => c.ns = None
    /\ c.op = "logs" /\ c.all => c.container = None

VARIABLES
  objs,     \* the objects of the cluster
  fresh,    \* the next uid: none is given out twice
  changes,  \* how often the cluster changed
  cmd,      \* the invocation
  pc,       \* the call it makes next: "start", "fetch", "hop", "events", "list", "log", "nodes", "done"
  cur,      \* the object it read last: a set of at most one
  chain,    \* the ancestors found (owners) or printed (describe): [kind, name]
  rows,     \* the other rows
  todo,     \* the containers whose logs are still to be read, the nodes whose usage was
  exit,     \* 0, 1, 2, or -1 while it runs
  failed,   \* a call of it failed
  ever,     \* the objects there at some moment since it started, as they were
  always    \* the objects there and unchanged at every moment since

world == <<objs, fresh, changes>>
run == <<pc, cur, chain, rows, todo, exit, failed>>
vars == <<world, cmd, run, ever, always>>

Init ==
  /\ objs \in Clusters
  /\ fresh = FreshUid
  /\ changes = 0
  /\ cmd \in Commands
  /\ pc = "start" /\ exit = -1
  /\ cur = {} /\ chain = <<>> /\ rows = {} /\ todo = {}
  /\ failed = FALSE
  /\ ever = {} /\ always = {}

-----------------------------------------------------------------------------
(* The cluster.                                                            *)

ChangeTo(objects) ==
  /\ pc # "done" /\ changes < MaxChanges
  /\ objs' = objects /\ changes' = changes + 1
  /\ ever' = IF pc = "start" THEN ever ELSE ever \cup objects
  /\ always' = always \cap objects
  /\ UNCHANGED <<cmd, run>>

Create(t) ==
  /\ \A o \in objs : Key(o) # Key(t)
  /\ fresh' = fresh + 1
  /\ ChangeTo(objs \cup {[kind |-> t.kind, ns |-> t.ns, name |-> t.name, label |-> t.label,
                          items |-> t.items, uid |-> fresh, refs |-> <<>>]})

Delete(o) == ChangeTo(objs \ {o}) /\ UNCHANGED fresh

(* An owner reference added to o.  Owners live where o does, or outside    *)
(* the namespaces; one owner at most is marked as the controller.          *)
Adopt(o, owner, controller) ==
  /\ owner # o /\ owner.ns \in {None, o.ns} /\ Len(o.refs) < 2
  /\ \A i \in DOMAIN o.refs : o.refs[i].uid # owner.uid /\ ~(controller /\ o.refs[i].controller)
  /\ ChangeTo((objs \ {o}) \cup
       {[o EXCEPT !.refs = Append(@, [kind |-> owner.kind, name |-> owner.name,
                                      uid |-> owner.uid, controller |-> controller])]})
  /\ UNCHANGED fresh

Change ==
  \/ \E t \in Templates : Create(t)
  \/ \E o \in objs : Delete(o)
  \/ \E o, owner \in objs, c \in BOOLEAN : Adopt(o, owner, c)

-----------------------------------------------------------------------------
(* discovery.rs and client.rs.                                             *)

(* A spelling of the table stands for the builtin kind; any other for the  *)
(* first discovered one it fits.                                           *)
resolve(kind) == IF kind \in Builtins THEN kind ELSE CHOOSE k \in Kinds : Bare[k] = kind

(* A kind is served outside the namespaces or inside them, not both: a     *)
(* wrong namespace is a 404.                                               *)
get_dyn(kind, ns, name) == {o \in objs : o.kind = kind /\ o.ns = ns /\ o.name = name}
list_dyn(kind, ns) == {o \in objs : o.kind = kind /\ ns \in {None, o.ns}}

Kind ==
  CASE cmd.op = "endpoints" -> "Service" [] cmd.op = "logs" -> "Pod" [] OTHER -> resolve(cmd.kind)

Everywhere == cmd.op = "get" /\ cmd.all
Namespace ==
  IF Kind \in ClusterScoped \/ Everywhere THEN None ELSE IF cmd.ns # None THEN cmd.ns ELSE Default

Exit(code) == pc' = "done" /\ exit' = code
Goto(next) == pc' = next /\ exit' = exit

(* Rows gathered and then printed: none is "not found".                    *)
Answer(found) == rows' = found /\ Exit(IF found = {} THEN 1 ELSE 0)

quiet == <<world, cmd, ever, always>>

(* A namespace, or all of them, for a kind that has none.                  *)
Misplaced ==
  /\ cmd.op \in {"get", "owners", "children"} /\ Kind \in ClusterScoped
  /\ cmd.ns # None \/ Everywhere

Begin ==
  /\ pc = "start"
  /\ ever' = objs /\ always' = objs
  /\ \/ Misplaced /\ Exit(2) /\ todo' = {}
     \/ /\ ~Misplaced
        /\ todo' = IF cmd.op = "logs" /\ cmd.container # None THEN {cmd.container} ELSE {}
        /\ Goto(IF todo' # {} THEN "log" ELSE IF cmd.name = None THEN "list" ELSE "fetch")
  /\ UNCHANGED <<world, cmd, cur, chain, rows, failed>>

Fetched == get_dyn(Kind, Namespace, cmd.name)

Missing ==
  /\ pc = "fetch" /\ Fetched = {}
  /\ Exit(IF cmd.op = "endpoints" THEN 2 ELSE 1)
  /\ UNCHANGED <<quiet, cur, chain, rows, todo, failed>>

-----------------------------------------------------------------------------
(* get.rs                                                                  *)

GetOne ==
  /\ cmd.op = "get" /\ pc = "fetch" /\ Fetched # {}
  /\ Answer({Key(o) : o \in Fetched})
  /\ UNCHANGED <<quiet, cur, chain, todo, failed>>

GetList ==
  /\ cmd.op = "get" /\ pc = "list"
  /\ Answer({Key(o) : o \in list_dyn(Kind, Namespace)})
  /\ UNCHANGED <<quiet, cur, chain, todo, failed>>

-----------------------------------------------------------------------------
(* owners.rs: the first reference, resolved by its group, version and      *)
(* kind; nothing is printed before the walk is over.                       *)

(* mistake: an owner is looked up where the object is                    *)
owner_namespace_Childs(kind) == Namespace

owner_namespace(kind) == IF kind \in ClusterScoped THEN None ELSE Namespace

Current == CHOOSE o \in cur : TRUE
Hop(ref) == [kind |-> ref.kind, name |-> ref.name]

WalkFrom ==
  /\ cmd.op \in {"owners", "describe"} /\ pc = "fetch" /\ Fetched # {}
  /\ cur' = Fetched /\ Goto("hop")
  /\ UNCHANGED <<quiet, chain, rows, todo, failed>>

HasHop == Current.refs # <<>> /\ Len(chain) < MAX_HOPS
next_hop == Current.refs[1]
HopRead == get_dyn(next_hop.kind, owner_namespace(next_hop.kind), next_hop.name)

OwnersHop ==
  /\ cmd.op = "owners" /\ pc = "hop" /\ HasHop
  /\ HopRead # {}
  /\ cur' = HopRead /\ chain' = Append(chain, Hop(next_hop))
  /\ Goto("hop") /\ UNCHANGED <<quiet, rows, todo, failed>>

OwnersEnd ==
  /\ cmd.op = "owners" /\ pc = "hop"
  /\ HasHop => HopRead = {}
  /\ Exit(IF chain = <<>> THEN 1 ELSE 0)
  /\ UNCHANGED <<quiet, cur, chain, rows, todo, failed>>

-----------------------------------------------------------------------------
(* describe.rs: the controller, or the first reference; its row is printed *)
(* before it is looked up, by the kind alone, and a lookup that fails ends *)
(* the section and no more.                                                *)

OwnerRef ==
  LET refs == Current.refs
      marked == {i \in DOMAIN refs : refs[i].controller}
  IN  IF marked = {} THEN refs[1] ELSE refs[CHOOSE i \in marked : \A j \in marked : i <= j]

HasOwner == Current.refs # <<>> /\ Len(chain) < MAX_OWNER_HOPS

(* mistake: only the hop that leads nowhere is counted                   *)
DescribeHop_Uncounted ==
  /\ cmd.op = "describe" /\ pc = "hop" /\ HasOwner
  /\ LET kind == resolve(Bare[OwnerRef.kind])
         owner == get_dyn(kind, owner_namespace(kind), OwnerRef.name)
     IN  \/ /\ owner = {} /\ cur' = cur /\ Goto("events")
            /\ chain' = Append(chain, Hop(OwnerRef))
         \/ /\ owner # {} /\ cur' = owner /\ Goto("hop") /\ chain' = chain
  /\ UNCHANGED <<quiet, rows, todo, failed>>

DescribeHop ==
  /\ cmd.op = "describe" /\ pc = "hop" /\ HasOwner
  /\ chain' = Append(chain, Hop(OwnerRef))
  /\ LET kind == resolve(Bare[OwnerRef.kind])
         owner == get_dyn(kind, owner_namespace(kind), OwnerRef.name)
     IN  IF owner = {} THEN cur' = cur /\ Goto("events") ELSE cur' = owner /\ Goto("hop")
  /\ UNCHANGED <<quiet, rows, todo, failed>>

OwnerLookupFails ==
  /\ cmd.op = "describe" /\ pc = "hop" /\ HasOwner
  /\ chain' = Append(chain, Hop(OwnerRef))
  /\ Goto("events") /\ failed' = TRUE
  /\ UNCHANGED <<quiet, cur, rows, todo>>

OwnersPrinted ==
  /\ cmd.op = "describe" /\ pc = "hop" /\ ~HasOwner
  /\ Goto("events") /\ UNCHANGED <<quiet, cur, chain, rows, todo, failed>>

(* All events of the namespace, kept when they name the object's kind and  *)
(* name (and the newest ten of these printed: no cluster here has more).   *)
fetch_events_for ==
  {Key(e) : e \in {e \in list_dyn("Event", Namespace) : e.label = <<Bare[Kind], cmd.name>>}}

DescribeEvents ==
  /\ cmd.op = "describe" /\ pc = "events"
  /\ rows' = fetch_events_for /\ Exit(0)
  /\ UNCHANGED <<quiet, cur, chain, todo, failed>>

-----------------------------------------------------------------------------
(* children.rs: the parent, for its uid, then every object of the kind its *)
(* children have.  A Service's slices carry its name instead.              *)

ParentRead ==
  /\ cmd.op = "children" /\ pc = "fetch" /\ Fetched # {}
  /\ IF Bare[Kind] \in DOMAIN child_kinds THEN Goto("list") ELSE Exit(2)
  /\ cur' = Fetched
  /\ UNCHANGED <<quiet, chain, rows, todo, failed>>

is_service_slice(o, service) == o.label = <<service>>
(* mistake: only the first reference counts                              *)
is_child_of_First(o, uid) == o.refs # <<>> /\ o.refs[1].uid = uid

is_child_of(o, uid) == \E i \in DOMAIN o.refs : o.refs[i].uid = uid

ChildrenListed ==
  /\ cmd.op = "children" /\ pc = "list"
  /\ LET kind == resolve(child_kinds[Bare[Kind]])
         kept(o) == IF kind = "EndpointSlice" THEN is_service_slice(o, cmd.name)
                                              ELSE is_child_of(o, Current.uid)
     IN  Answer({Key(o) : o \in {o \in list_dyn(kind, Namespace) : kept(o)}})
  /\ UNCHANGED <<quiet, cur, chain, todo, failed>>

-----------------------------------------------------------------------------
(* endpoints.rs: the Service, only to know that it exists, then its slices.*)

ServiceRead ==
  /\ cmd.op = "endpoints" /\ pc = "fetch" /\ Fetched # {}
  /\ Goto("list") /\ UNCHANGED <<quiet, cur, chain, rows, todo, failed>>

endpoint_rows(slices) == UNION {s.items : s \in slices}

SlicesListed ==
  /\ cmd.op = "endpoints" /\ pc = "list"
  /\ Answer(endpoint_rows({s \in list_dyn("EndpointSlice", Namespace) : is_service_slice(s, cmd.name)}))
  /\ UNCHANGED <<quiet, cur, chain, todo, failed>>

-----------------------------------------------------------------------------
(* logs.rs: the pod, for its containers, then one request for each, whose  *)
(* lines (some or none) are printed as they come.  Which container comes   *)
(* first is left open.                                                     *)

PodRead ==
  /\ cmd.op = "logs" /\ pc = "fetch" /\ Fetched # {}
  /\ \E pod \in Fetched :
       IF pod.items # {} /\ (cmd.all \/ Cardinality(pod.items) = 1)
         THEN todo' = pod.items /\ Goto("log")
         ELSE todo' = {} /\ Exit(2)
  /\ UNCHANGED <<quiet, cur, chain, rows, failed>>

LogRead ==
  /\ cmd.op = "logs" /\ pc = "log"
  /\ \E c \in todo :
       /\ \E pod \in Fetched : c \in pod.items
       /\ todo' = todo \ {c}
       /\ rows' \in {rows, rows \cup {c}}
       /\ IF todo' # {} THEN Goto("log") ELSE Exit(IF rows' = {} THEN 1 ELSE 0)
  /\ UNCHANGED <<quiet, cur, chain, failed>>

(* The pod or the container is gone: an error, not an absence.             *)
LogRefused ==
  /\ cmd.op = "logs" /\ pc = "log"
  /\ \E c \in todo : \A pod \in Fetched : c \notin pod.items
  /\ Exit(2) /\ UNCHANGED <<quiet, cur, chain, rows, todo, failed>>

-----------------------------------------------------------------------------
(* top.rs: the usage of every node that has readings, then the nodes for   *)
(* what they can give.  Without it the shares are left blank.              *)

read_names(kind) == {o.name : o \in {o \in list_dyn(kind, None) : o.items # {}}}
Usage(known) == {[node |-> r, share |-> r \in known] : r \in todo}

UsageListed ==
  /\ cmd.op = "top" /\ pc = "list"
  /\ todo' = read_names("NodeMetrics") /\ Goto("nodes")
  /\ UNCHANGED <<quiet, cur, chain, rows, failed>>

NodesListed ==
  /\ cmd.op = "top" /\ pc = "nodes"
  /\ Answer(Usage(read_names("Node")))
  /\ UNCHANGED <<quiet, cur, chain, todo, failed>>

NodesFail ==
  /\ cmd.op = "top" /\ pc = "nodes"
  /\ Answer(Usage({})) /\ failed' = TRUE
  /\ UNCHANGED <<quiet, cur, chain, todo>>

-----------------------------------------------------------------------------
(* Any other call that fails ends the command.                             *)
(* mistake: a failed call reads as an absence                            *)
CallFails_NotFound ==
  /\ \/ pc \in {"fetch", "events", "list", "log"}
     \/ pc = "hop" /\ cmd.op = "owners" /\ HasHop
  /\ Exit(1) /\ failed' = TRUE
  /\ UNCHANGED <<quiet, cur, chain, rows, todo>>

CallFails ==
  /\ \/ pc \in {"fetch", "events", "list", "log"}
     \/ pc = "hop" /\ cmd.op = "owners" /\ HasHop
  /\ Exit(2) /\ failed' = TRUE
  /\ UNCHANGED <<quiet, cur, chain, rows, todo>>

Step ==
  \/ Begin \/ Missing \/ GetOne \/ GetList
  \/ WalkFrom \/ OwnersHop \/ OwnersEnd
  \/ DescribeHop \/ OwnerLookupFails \/ OwnersPrinted \/ DescribeEvents
  \/ ParentRead \/ ChildrenListed \/ ServiceRead \/ SlicesListed
  \/ PodRead \/ LogRead \/ LogRefused
  \/ UsageListed \/ NodesListed \/ NodesFail \/ CallFails

Next == Step \/ Change

(* Every call returns or fails: the client gives up on a silent server     *)
(* when its read timeout has passed.                                       *)
Spec == Init /\ [][Next]_vars /\ WF_vars(Step)

-----------------------------------------------------------------------------
(* Properties.  The cluster may have changed between two calls, so what a  *)
(* command says is held against the moments it ran through: what was there *)
(* all the time (always) and what was there at some time (ever).           *)

Of(objects, kind, ns, name) == {o \in objects : o.kind = kind /\ o.ns = ns /\ o.name = name}
Targets(objects) == Of(objects, Kind, Namespace, cmd.name)
Answered == pc = "done" /\ exit \in {0, 1}

ClusterTypeOK ==
  /\ \A o \in objs \cup cur : o.kind \in Kinds /\ o.uid < fresh
  /\ \A o, p \in objs : Key(o) = Key(p) \/ o.uid = p.uid => o = p
  /\ fresh \in Nat /\ changes \in 0 .. MaxChanges
  /\ cmd \in Commands
  /\ pc \in {"start", "fetch", "hop", "events", "list", "log", "nodes", "done"}
  /\ exit \in -1 .. 2 /\ (exit = -1 <=> pc # "done")
  /\ Cardinality(cur) <= 1 /\ (pc = "hop" => cur # {})
  /\ \A i \in DOMAIN chain : chain[i].kind \in Kinds
  /\ always \subseteq ever /\ failed \in BOOLEAN

(* The objects that are linked as the two rows say: o names the row as its *)
(* owner.                                                                  *)
Names(o, hop) == \E i \in DOMAIN o.refs : Hop(o.refs[i]) = hop
(* An owner is in the namespace of what it owns, or outside of all.        *)
Near(objects, hop) ==
  {o \in objects : o.kind = hop.kind /\ o.name = hop.name /\ o.ns \in {None, Namespace}}
At(objects, i) ==
  IF i = 0 THEN Targets(objects)
  ELSE Near(objects, chain[i])

(* Every ancestor printed was, at some moment of the run, named as an      *)
(* owner by the object of the row before it (owners.rs:103-150,            *)
(* describe.rs:298-362).                                                   *)
ChainIsReal ==
  pc = "done" => \A i \in DOMAIN chain : \E o \in At(ever, i - 1) : Names(o, chain[i])

(* A walk ends where the chain did at some moment, or at its bound: never  *)
(* below an owner that was there, and named, all the time.  Nor does it    *)
(* report the object itself missing then.                                  *)
Walked == cmd.op \in {"owners", "describe"} /\ Answered /\ ~failed
Bound == IF cmd.op = "owners" THEN MAX_HOPS ELSE MAX_OWNER_HOPS
Leads(o, objects) ==
  \E i \in DOMAIN o.refs :
    /\ i = 1 \/ (cmd.op = "describe" /\ o.refs[i].controller)
    /\ Near(objects, o.refs[i]) # {}
ChainIsWhole ==
  Walked /\ Len(chain) < Bound =>
    \A o \in At(always, Len(chain)) : ~Leads(o, always)

(* The chain as it is shown, over a cluster that is one.                   *)
ChainIsTrue == ClusterTypeOK /\ ChainIsReal /\ ChainIsWhole

(* What a list is made of: the objects a set of them would have it show.   *)
(* A slice is its Service's by its label, anything else by an owner's uid. *)
OwnedAs(o, p) ==
  IF o.kind = "EndpointSlice" THEN o.label = <<p.name>>
  ELSE \E i \in DOMAIN o.refs : o.refs[i].uid = p.uid
Holders(objects) == IF cmd.op = "children" THEN Targets(objects) ELSE {}
Shown(objects, parents) ==
  CASE cmd.op = "get" /\ cmd.name # None -> {Key(o) : o \in Targets(objects)}
    [] cmd.op = "get" /\ cmd.name = None ->
         {Key(o) : o \in {o \in objects : o.kind = Kind /\ (Everywhere \/ o.ns = Namespace)}}
    [] cmd.op = "children" ->
         {Key(o) : o \in {o \in objects : /\ Bare[Kind] \in DOMAIN child_kinds
                                         /\ o.kind = child_kinds[Bare[Kind]] /\ Namespace \in {None, o.ns}
                                         /\ \E p \in parents : OwnedAs(o, p)}}
    [] cmd.op = "endpoints" ->
         UNION {s.items : s \in {s \in objects : /\ s.kind = "EndpointSlice" /\ Namespace \in {None, s.ns}
                                                /\ s.label = <<cmd.name>>}}
    [] OTHER -> {}

(* A list (get.rs:167-193, children.rs:117-160, endpoints.rs:189-199)      *)
(* shows all that was there throughout, of the parent that was there       *)
(* throughout, and nothing that was at no moment; a list that shows        *)
(* nothing (exit 1) is therefore no list of what was always there.  A      *)
(* node's usage is shown likewise, with its share if the node was there    *)
(* (top.rs:350-418).                                                       *)
Nodes(objects) == {o.name : o \in {o \in objects : o.kind = "Node" /\ o.items # {}}}
Metered(objects) == {o.name : o \in {o \in objects : o.kind = "NodeMetrics" /\ o.items # {}}}
ListsAreTrue ==
  /\ Answered /\ cmd.op \in {"get", "children", "endpoints"} =>
       /\ Shown(always, Holders(always)) \subseteq rows
       /\ rows \subseteq Shown(ever, Holders(ever))
  /\ Answered /\ cmd.op = "top" =>
       /\ \A n \in Metered(always) :
            \E r \in rows : r.node = n /\ (n \in Nodes(always) /\ ~failed => r.share)
       /\ \A r \in rows : r.node \in Metered(ever) /\ (r.share => r.node \in Nodes(ever))

(* What is said to be absent was absent, or empty, at some moment.  An     *)
(* error has a cause: a call that failed, or what the command refuses: a   *)
(* namespace for a kind without, a parent without known children, no such  *)
(* container or several, a Service (or a pod, once its containers are known) that    *)
(* was missing at some moment (endpoints.rs:169-187, logs.rs:101-134).     *)
Refused ==
  \/ Misplaced
  \/ cmd.op = "children" /\ Bare[Kind] \notin DOMAIN child_kinds
  \/ cmd.op = "endpoints" /\ Targets(always) = {}
  \/ cmd.op = "logs" /\ Targets(always) = {}
  \/ cmd.op = "logs" /\ \E pod \in Targets(ever) :
                           IF cmd.container # None THEN cmd.container \notin pod.items
                           ELSE pod.items = {} \/ (~cmd.all /\ Cardinality(pod.items) # 1)

ExitsAreTrue ==
  /\ pc = "done" /\ exit = 1 => CASE cmd.op = "describe" -> Targets(always) = {}
                                 [] OTHER -> rows = {} /\ chain = <<>>
  /\ pc = "done" /\ exit = 2 => failed \/ Refused
  /\ pc = "done" /\ exit = 0 /\ cmd.name # None => Targets(ever) # {}

(* Every invocation comes to an end, around every cycle of owners          *)
(* (owners.rs:24, describe.rs:38).                                         *)
WalkEnds == <>(pc = "done")
=============================================================================
