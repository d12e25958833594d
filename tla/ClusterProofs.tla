----------------------------- MODULE ClusterProofs -----------------------------
(***************************************************************************)
(* What holds of every cluster, every command and every course of events   *)
(* around it: the chains, lists and exit codes of the commands that ask    *)
(* the API server more than once.                                          *)
(***************************************************************************)
EXTENDS Cluster, NumbersProofs

Link == [kind : Kinds, name : STRING]
Walks == {"owners", "describe"}

(* The cluster is one, and the run has seen it: what was there all the     *)
(* time is there now, and what is there now was there at some time.        *)
WorldInv ==
  /\ Consistent(objs) /\ fresh \in Nat /\ \A o \in objs : o.uid < fresh
  /\ changes \in 0 .. MaxChanges /\ cmd \in Commands
  /\ always \subseteq ever
  /\ pc = "start" => always = {}
  /\ pc # "start" => always \subseteq objs /\ objs \subseteq ever

(* Where a run can be, and what it holds there.                            *)
RunInv ==
  /\ pc \in {"start", "fetch", "hop", "events", "list", "log", "nodes", "done"}
  /\ exit \in -1 .. 2 /\ (exit = -1 <=> pc # "done") /\ failed \in BOOLEAN
  /\ cur \subseteq Object /\ (\A o \in cur : o.uid < fresh) /\ (\A o, p \in cur : o = p)
  /\ chain \in Seq(Link) /\ (pc \in {"start", "fetch"} => chain = <<>>)
  /\ cmd.op \notin Walks => chain = <<>>
  /\ pc \notin {"log", "done"} \/ cmd.op = "owners" => rows = {}
  /\ pc = "fetch" => cmd.name # None /\ (cmd.op = "logs" => cmd.container = None)
  /\ pc = "hop" => cmd.op \in Walks /\ cur # {}
  /\ pc = "events" => cmd.op = "describe"
  /\ pc = "list" => cmd.op \in {"get", "children", "endpoints", "top"}
  /\ pc = "list" /\ cmd.op = "get" => cmd.name = None
  /\ pc = "log" => cmd.op = "logs"
  /\ pc = "nodes" => cmd.op = "top"

(* The chain so far was there, and the object in hand is its end: whatever *)
(* was at its end all the time is that object.                             *)
ChainInv ==
  /\ \A i \in DOMAIN chain : \E o \in At(ever, i - 1) : Names(o, chain[i])
  /\ pc = "hop" => /\ cur \subseteq At(ever, Len(chain))
                   /\ At(always, Len(chain)) \subseteq cur
  /\ pc \in {"events", "done"} /\ cmd.op \in Walks /\ exit # 2 /\ ~failed /\ Len(chain) < Bound =>
       \A o \in At(always, Len(chain)) : ~Leads(o, always)

(* What an earlier call found is still known when the last one answers.    *)
HeldInv ==
  /\ pc \in {"hop", "events"} => Targets(ever) # {}
  /\ pc = "list" /\ cmd.op = "children" =>
       /\ cur # {} /\ cur \subseteq Targets(ever) /\ Targets(always) \subseteq cur
       /\ Bare[Kind] \in DOMAIN child_kinds
  /\ pc = "list" /\ cmd.op = "endpoints" => Targets(ever) # {}
  /\ pc = "log" /\ cmd.container = None =>
       Targets(ever) # {} /\ \A pod \in Targets(always) : todo \subseteq pod.items
  /\ pc = "log" /\ cmd.container # None => todo \subseteq {cmd.container}
  /\ pc = "nodes" => Metered(always) \subseteq todo /\ todo \subseteq Metered(ever)

(* No two kinds the cluster serves are spelled alike.                      *)
Unambiguous == \A j, k \in Kinds : Bare[j] = Bare[k] => j = k

Inv == WorldInv /\ RunInv /\ HeldInv /\ ListsAreTrue /\ ExitsAreTrue
ChainOK == cmd.op = "describe" => Unambiguous

-----------------------------------------------------------------------------
(* The cluster.                                                            *)

LEMMA AdoptedIsObject ==
  ASSUME NEW o \in Object, NEW ref \in Reference
  PROVE  LET n == [o EXCEPT !.refs = Append(@, ref)]
         IN  n \in Object /\ n.uid = o.uid /\ Key(n) = Key(o) /\ n.ns = o.ns /\ n.kind = o.kind
  <1> DEFINE n == [o EXCEPT !.refs = Append(@, ref)]
  <1>1. Append(o.refs, ref) \in Seq(Reference)
    BY DEF Object
  <1>2. n \in Object
    BY <1>1 DEF Object
  <1> QED BY <1>2 DEF Object, Key

LEMMA ChangeIsOne ==
  ASSUME WorldInv, Change
  PROVE  \E objects : /\ ChangeTo(objects) /\ Consistent(objects)
                      /\ fresh' \in Nat /\ fresh <= fresh'
                      /\ \A o \in objects : o.uid < fresh'
  <1>1. CASE \E t \in Templates : Create(t)
    <2>1. PICK t \in Templates : Create(t)
      BY <1>1
    <2> DEFINE new == [kind |-> t.kind, ns |-> t.ns, name |-> t.name, label |-> t.label,
                       items |-> t.items, uid |-> fresh, refs |-> <<>>]
    <2>2. new \in Object /\ (new.ns = None <=> new.kind \in ClusterScoped) /\ Key(new) = Key(t)
      BY ClusterAssumption DEF Object, WorldInv, Key
    <2>3. ChangeTo(objs \cup {new}) /\ fresh' = fresh + 1 /\ \A o \in objs : Key(o) # Key(t)
      BY <2>1 DEF Create
    <2>4. \A o \in objs : o.uid # fresh /\ o.uid \in Nat
      BY DEF WorldInv, Consistent, Object
    <2>5. Consistent(objs \cup {new})
      BY <2>2, <2>3, <2>4 DEF WorldInv, Consistent
    <2>6. \A o \in objs \cup {new} : o.uid < fresh + 1
      BY <2>4 DEF WorldInv
    <2> QED BY <2>3, <2>5, <2>6 DEF WorldInv
  <1>2. CASE \E o \in objs : Delete(o)
    <2>1. PICK o \in objs : ChangeTo(objs \ {o}) /\ fresh' = fresh
      BY <1>2 DEF Delete
    <2> QED BY <2>1 DEF WorldInv, Consistent
  <1>3. CASE \E o, owner \in objs, c \in BOOLEAN : Adopt(o, owner, c)
    <2>1. PICK o \in objs, owner \in objs, c \in BOOLEAN : Adopt(o, owner, c)
      BY <1>3
    <2> DEFINE ref == [kind |-> owner.kind, name |-> owner.name, uid |-> owner.uid, controller |-> c]
               n == [o EXCEPT !.refs = Append(@, ref)]
    <2>2. o \in Object /\ owner \in Object
      BY DEF WorldInv, Consistent
    <2>3. ref \in Reference
      BY <2>2 DEF Object, Reference
    <2>4. n \in Object /\ n.uid = o.uid /\ Key(n) = Key(o) /\ n.ns = o.ns /\ n.kind = o.kind
      BY <2>2, <2>3, AdoptedIsObject
    <2> HIDE DEF n, ref
    <2>5. ChangeTo((objs \ {o}) \cup {n}) /\ fresh' = fresh
      BY <2>1 DEF Adopt, n, ref
    <2>6. Consistent((objs \ {o}) \cup {n})
      BY <2>4 DEF WorldInv, Consistent
    <2> QED BY <2>4, <2>5, <2>6 DEF WorldInv
  <1> QED BY <1>1, <1>2, <1>3 DEF Change

LEMMA WorldStep ==
  ASSUME WorldInv, [Next]_vars
  PROVE  WorldInv'
  <1>1. CASE Begin
    BY <1>1 DEF WorldInv, Begin, world, Exit, Goto
  <1>2. CASE Step /\ ~Begin
    <2>1. UNCHANGED quiet /\ pc # "start" /\ pc' # "start"
      BY <1>2 DEF Step, Missing, GetOne, GetList, WalkFrom, OwnersHop, OwnersEnd, DescribeHop,
         OwnerLookupFails, OwnersPrinted, DescribeEvents, ParentRead, ChildrenListed, ServiceRead,
         SlicesListed, PodRead, LogRead, LogRefused, UsageListed, NodesListed, NodesFail, CallFails,
         Exit, Goto, Answer
    <2> QED BY <2>1 DEF WorldInv, quiet, world
  <1>3. CASE Change
    <2>1. PICK objects : /\ ChangeTo(objects) /\ Consistent(objects)
                         /\ fresh' \in Nat /\ fresh <= fresh'
                         /\ \A o \in objects : o.uid < fresh'
      BY <1>3, ChangeIsOne
    <2>2. changes' \in 0 .. MaxChanges
      BY <2>1, ClusterAssumption DEF ChangeTo, WorldInv
    <2> QED BY <2>1, <2>2 DEF ChangeTo, WorldInv, run
  <1>4. CASE UNCHANGED vars
    BY <1>4 DEF WorldInv, vars, world, run
  <1> QED BY <1>1, <1>2, <1>3, <1>4 DEF Next

(* What the API server answers to a get.                                   *)
LEMMA GetIsOne ==
  ASSUME WorldInv, NEW kind, NEW ns, NEW name
  PROVE  LET got == get_dyn(kind, ns, name)
         IN  got \subseteq objs /\ got \subseteq Object /\ \A o, p \in got : o = p
  BY DEF WorldInv, Consistent, get_dyn, Key

(* The reference describe follows is one of the object's.                  *)
LEMMA OwnerRefIsOne ==
  ASSUME NEW o \in Object, o.refs # <<>>, cur = {o}
  PROVE  OwnerRef \in Reference /\ \E i \in DOMAIN o.refs : o.refs[i] = OwnerRef
  <1>1. Current = o /\ o.refs \in Seq(Reference)
    BY DEF Current, Object
  <1> DEFINE refs == o.refs
             marked == {i \in DOMAIN refs : refs[i].controller}
             least == CHOOSE i \in marked : \A j \in marked : i <= j
  <1>2. DOMAIN refs = 1 .. Len(refs) /\ Len(refs) \in Nat /\ 1 \in DOMAIN refs
    BY <1>1
  <1>3. CASE marked = {}
    BY <1>1, <1>2, <1>3 DEF OwnerRef
  <1>4. CASE marked # {}
    <2>1. marked \subseteq Nat /\ marked \subseteq DOMAIN refs
      BY <1>2
    <2>2. OwnerRef = refs[least]
      BY <1>1, <1>4 DEF OwnerRef
    <2> HIDE DEF marked
    <2>3. PICK m \in marked : \A j \in marked : m <= j
      BY <1>4, <2>1, LeastNumber
    <2>4. least \in DOMAIN refs
      BY <2>1, <2>3
    <2>5. refs \in Seq(Reference)
      BY <1>1
    <2> HIDE DEF least
    <2> QED BY <2>2, <2>4, <2>5
  <1> QED BY <1>3, <1>4

(* A Change keeps the run and the command; what was always there shrinks,  *)
(* what was ever there grows.                                              *)
LEMMA ChangeKeeps ==
  ASSUME WorldInv, Change
  PROVE  /\ UNCHANGED <<cmd, run>> /\ pc # "done" /\ fresh <= fresh' /\ fresh' \in Nat
         /\ always' \subseteq always
         /\ IF pc = "start" THEN ever' = ever ELSE ever \subseteq ever'
  BY ChangeIsOne DEF ChangeTo

LEMMA CommandStays ==
  ASSUME WorldInv, [Next]_vars
  PROVE  cmd' = cmd
  <1>1. ASSUME Step PROVE cmd' = cmd
    BY <1>1 DEF Step, Begin, Missing, GetOne, GetList, WalkFrom, OwnersHop, OwnersEnd, DescribeHop,
       OwnerLookupFails, OwnersPrinted, DescribeEvents, ParentRead, ChildrenListed, ServiceRead,
       SlicesListed, PodRead, LogRead, LogRefused, UsageListed, NodesListed, NodesFail, CallFails, quiet
  <1> QED BY <1>1, ChangeKeeps DEF Next, vars

LEMMA CurrentIsOne ==
  ASSUME RunInv, pc = "hop"
  PROVE  /\ Current \in cur /\ cur = {Current} /\ Current \in Object
         /\ Current.refs \in Seq(Reference) /\ (Current.refs # <<>> => next_hop \in Reference)
         /\ (Current.refs # <<>> => OwnerRef \in Reference)
  <1>1. Current \in cur /\ cur = {Current} /\ Current \in Object
    BY DEF RunInv, Current
  <1>2. Current.refs \in Seq(Reference) /\ (Current.refs # <<>> => next_hop \in Reference)
    BY <1>1 DEF next_hop, Object
  <1>3. ASSUME Current.refs # <<>> PROVE OwnerRef \in Reference
    BY <1>1, <1>3, OwnerRefIsOne
  <1> QED BY <1>1, <1>2, <1>3

LEMMA HopIsLink ==
  ASSUME NEW ref \in Reference
  PROVE  Hop(ref) \in Link
  BY DEF Hop, Link, Reference

LEMMA RunStep ==
  ASSUME WorldInv, RunInv, [Next]_vars
  PROVE  RunInv'
  <1> USE DEF Exit, Goto, Answer, quiet, world
  <1>1. CASE Begin
    BY <1>1, CommandAssumption, SMTT(60) DEF Begin, RunInv, WorldInv, Walks, Ops
  <1>2. CASE Missing
    BY <1>2 DEF Missing, RunInv, Walks
  <1>3. CASE GetOne \/ GetList
    BY <1>3 DEF GetOne, GetList, RunInv, Walks
  <1>4. CASE WalkFrom
    <2>1. Fetched \subseteq Object /\ (\A o, p \in Fetched : o = p) /\ (\A o \in Fetched : o.uid < fresh)
      BY GetIsOne DEF Fetched, WorldInv
    <2> QED BY <1>4, <2>1 DEF WalkFrom, RunInv, Walks
  <1>5. CASE OwnersHop
    <2>1. HopRead \subseteq Object /\ (\A o, p \in HopRead : o = p) /\ (\A o \in HopRead : o.uid < fresh)
      BY GetIsOne DEF HopRead, WorldInv
    <2>2. chain' \in Seq(Link)
      BY <1>5, CurrentIsOne, HopIsLink DEF OwnersHop, HasHop, RunInv
    <2> QED BY <1>5, <2>1, <2>2 DEF OwnersHop, RunInv, Walks
  <1>6. CASE OwnersEnd
    BY <1>6 DEF OwnersEnd, RunInv, Walks
  <1>7. CASE DescribeHop \/ OwnerLookupFails
    <2>1. chain' \in Seq(Link)
      <3>1. pc = "hop" /\ Current.refs # <<>> /\ chain' = Append(chain, Hop(OwnerRef))
        BY <1>7 DEF DescribeHop, OwnerLookupFails, HasOwner
      <3>2. Hop(OwnerRef) \in Link
        BY <3>1, CurrentIsOne, HopIsLink
      <3> QED BY <3>1, <3>2 DEF RunInv
    <2>2. CASE DescribeHop
      <3> DEFINE kind == resolve(Bare[OwnerRef.kind])
                 owner == get_dyn(kind, owner_namespace(kind), OwnerRef.name)
      <3>1. owner \subseteq Object /\ (\A o, p \in owner : o = p) /\ (\A o \in owner : o.uid < fresh)
        BY GetIsOne DEF WorldInv
      <3>2. IF owner = {} THEN cur' = cur /\ Goto("events") ELSE cur' = owner /\ Goto("hop")
        BY <2>2 DEF DescribeHop
      <3> HIDE DEF owner
      <3> QED BY <2>1, <2>2, <3>1, <3>2 DEF DescribeHop, RunInv, Walks
    <2>3. CASE OwnerLookupFails
      BY <2>1, <2>3 DEF OwnerLookupFails, RunInv, Walks
    <2> QED BY <1>7, <2>2, <2>3
  <1>8. CASE OwnersPrinted \/ DescribeEvents
    BY <1>8 DEF OwnersPrinted, DescribeEvents, RunInv, Walks
  <1>9. CASE ParentRead
    <2>1. Fetched \subseteq Object /\ (\A o, p \in Fetched : o = p) /\ (\A o \in Fetched : o.uid < fresh)
      BY GetIsOne DEF Fetched, WorldInv
    <2> QED BY <1>9, <2>1 DEF ParentRead, RunInv, Walks
  <1>10. CASE ChildrenListed
    BY <1>10 DEF ChildrenListed, RunInv, Walks
  <1>11. CASE ServiceRead \/ SlicesListed
    BY <1>11 DEF ServiceRead, SlicesListed, RunInv, Walks
  <1>12. CASE PodRead \/ LogRead \/ LogRefused
    BY <1>12 DEF PodRead, LogRead, LogRefused, RunInv, Walks
  <1>13. CASE UsageListed \/ NodesListed \/ NodesFail
    <2>1. ASSUME NEW found, Answer(found), cmd.op = "top", pc = "nodes", cmd' = cmd,
                 UNCHANGED <<fresh, cur, chain>>, failed' \in BOOLEAN
          PROVE  RunInv'
      BY <2>1 DEF RunInv, Walks
    <2>2. CASE UsageListed
      BY <2>2 DEF UsageListed, RunInv, Walks
    <2>3. CASE NodesListed
      BY <2>1, <2>3 DEF NodesListed, RunInv
    <2>4. CASE NodesFail
      BY <2>1, <2>4 DEF NodesFail
    <2> QED BY <1>13, <2>2, <2>3, <2>4
  <1>14. CASE CallFails
    BY <1>14 DEF CallFails, RunInv, Walks
  <1>15. CASE Change
    BY <1>15, ChangeKeeps DEF RunInv, run, WorldInv, Object
  <1>16. CASE UNCHANGED vars
    BY <1>16 DEF vars, run, RunInv
  <1> QED BY <1>1, <1>2, <1>3, <1>4, <1>5, <1>6, <1>7, <1>8, <1>9, <1>10, <1>11, <1>12, <1>13,
             <1>14, <1>15, <1>16 DEF Next, Step

-----------------------------------------------------------------------------
(* The chain of owners.                                                    *)

LEMMA SameCommand ==
  ASSUME cmd' = cmd
  PROVE  /\ Kind' = Kind /\ Namespace' = Namespace /\ Bound' = Bound
         /\ Everywhere' = Everywhere /\ Misplaced' = Misplaced
  BY DEF Kind, Namespace, Everywhere, Misplaced, Bound, resolve

(* An owner is looked for exactly where it can be.                         *)
LEMMA NearIsRead ==
  ASSUME WorldInv, NEW hop
  PROVE  get_dyn(hop.kind, owner_namespace(hop.kind), hop.name) = Near(objs, hop)
  BY DEF WorldInv, Consistent, get_dyn, owner_namespace, Near

LEMMA TargetsAreRead == Fetched = Targets(objs)
  BY DEF Fetched, Targets, Of, get_dyn

LEMMA Monotone ==
  ASSUME NEW A, NEW B, A \subseteq B
  PROVE  /\ Targets(A) \subseteq Targets(B)
         /\ \A hop : Near(A, hop) \subseteq Near(B, hop)
         /\ \A i : At(A, i) \subseteq At(B, i)
         /\ \A o : Leads(o, A) => Leads(o, B)
  <1>1. Targets(A) \subseteq Targets(B) /\ \A hop : Near(A, hop) \subseteq Near(B, hop)
    BY DEF Targets, Of, Near
  <1> QED BY <1>1 DEF At, Leads

(* What stays as it was when the chain and the command do.                 *)
LEMMA SameChain ==
  ASSUME cmd' = cmd, chain' = chain, ever \subseteq ever', always' \subseteq always
  PROVE  /\ \A i : At(ever, i) \subseteq At(ever, i)'
         /\ \A i : At(always, i)' \subseteq At(always, i)
         /\ \A o : Leads(o, always)' => Leads(o, always)
  <1>1. Kind' = Kind /\ Namespace' = Namespace
    BY SameCommand
  <1>2. \A i : At(ever, i)' = At(ever', i) /\ At(always, i)' = At(always', i)
    BY <1>1 DEF At, Near, Targets, Of
  <1>3. \A o : Leads(o, always)' <=> Leads(o, always')
    BY <1>1 DEF Leads, Near
  <1> QED BY <1>2, <1>3, Monotone

(* One more owner, named by the object at the end.                         *)
LEMMA LongerChain ==
  ASSUME NEW ref \in Reference, chain \in Seq(Link), chain' = Append(chain, Hop(ref)),
         cmd' = cmd, ever' = ever, always' = always,
         \A i \in DOMAIN chain : \E o \in At(ever, i - 1) : Names(o, chain[i]),
         NEW last \in At(ever, Len(chain)), \E i \in DOMAIN last.refs : last.refs[i] = ref
  PROVE  /\ \A i \in DOMAIN chain' : \E o \in At(ever, i - 1)' : Names(o, chain'[i])
         /\ Len(chain') = Len(chain) + 1
         /\ At(ever, Len(chain))' = Near(ever, ref)
         /\ At(always, Len(chain))' = Near(always, ref)
  <1>1. Kind' = Kind /\ Namespace' = Namespace
    BY SameCommand
  <1>2. /\ Len(chain) \in Nat /\ Len(chain') = Len(chain) + 1 /\ DOMAIN chain = 1 .. Len(chain)
        /\ DOMAIN chain' = 1 .. Len(chain) + 1
        /\ chain'[Len(chain) + 1] = Hop(ref) /\ \A i \in 1 .. Len(chain) : chain'[i] = chain[i]
    BY HopIsLink
  <1>3. \A i \in 0 .. Len(chain) : At(ever, i)' = At(ever, i)
    <2> TAKE i \in 0 .. Len(chain)
    <2>1. CASE i = 0
      BY <1>1, <2>1 DEF At, Targets, Of
    <2>2. CASE i \in 1 .. Len(chain)
      <3>1. chain'[i] = chain[i] /\ i # 0
        BY <1>2, <2>2
      <3> QED BY <1>1, <3>1 DEF At, Near
    <2> QED BY <1>2, <2>1, <2>2
  <1>4. Names(last, Hop(ref))
    BY DEF Names
  <1>5. \A i \in DOMAIN chain' : \E o \in At(ever, i - 1)' : Names(o, chain'[i])
    <2> TAKE i \in DOMAIN chain'
    <2>1. i - 1 \in 0 .. Len(chain)
      BY <1>2
    <2>2. CASE i = Len(chain) + 1
      BY <1>2, <1>3, <1>4, <2>1, <2>2
    <2>3. CASE i \in 1 .. Len(chain)
      BY <1>2, <1>3, <2>1, <2>3
    <2> QED BY <1>2, <2>2, <2>3
  <1>6. At(ever, Len(chain))' = Near(ever, ref) /\ At(always, Len(chain))' = Near(always, ref)
    BY <1>1, <1>2 DEF At, Near, Hop
  <1> QED BY <1>2, <1>5, <1>6

LEMMA ChainStep ==
  ASSUME WorldInv, RunInv, ChainInv, ChainOK, [Next]_vars
  PROVE  ChainInv'
  <1> USE DEF Exit, Goto, Answer, quiet, world
  <1>0. chain \in Seq(Link) /\ Len(chain) \in Nat
    BY DEF RunInv
  (* Steps that leave the chain alone and read nothing of it. *)
  <1>1. ASSUME cmd' = cmd, chain' = chain, ever \subseteq ever', always' \subseteq always,
               pc' = "hop" => pc = "hop" /\ cur' = cur,
               pc' \in {"events", "done"} /\ cmd.op \in Walks /\ exit' # 2 /\ ~failed' =>
                 pc = "events" /\ exit # 2 /\ ~failed
        PROVE  ChainInv'
    <2>1. /\ Bound' = Bound
          /\ \A i : At(ever, i) \subseteq At(ever, i)'
          /\ \A i : At(always, i)' \subseteq At(always, i)
          /\ \A o : Leads(o, always)' => Leads(o, always)
      BY <1>1, SameChain, SameCommand
    <2> QED BY <1>1, <2>1 DEF ChainInv
  <1>2. CASE Begin
    <2>1. chain = <<>> /\ chain' = <<>> /\ pc' # "hop" /\ pc' # "events" /\ (pc' = "done" => exit' = 2)
      BY <1>2 DEF Begin, RunInv
    <2> QED BY <2>1 DEF ChainInv
  <1>3. CASE Missing
    <2>1. chain = <<>> /\ chain' = <<>> /\ pc' = "done" /\ cmd' = cmd /\ always' = always
          /\ Targets(objs) = {} /\ always \subseteq objs
      BY <1>3, TargetsAreRead DEF Missing, RunInv, WorldInv
    <2>2. Targets(always)' = {}
      BY <2>1, SameCommand, Monotone DEF Targets, Of
    <2> QED BY <2>1, <2>2 DEF ChainInv, At
  <1>4. CASE WalkFrom
    <2>1. chain = <<>> /\ chain' = <<>> /\ pc' = "hop" /\ cmd' = cmd /\ always' = always /\ ever' = ever
          /\ cur' = Targets(objs) /\ always \subseteq objs /\ objs \subseteq ever
      BY <1>4, TargetsAreRead DEF WalkFrom, RunInv, WorldInv
    <2>2. cur' \subseteq Targets(ever)' /\ Targets(always)' \subseteq cur'
      BY <2>1, SameCommand, Monotone DEF Targets, Of
    <2> QED BY <2>1, <2>2 DEF ChainInv, At
  <1>5. CASE OwnersHop
    <2>1. /\ pc = "hop" /\ pc' = "hop" /\ cmd' = cmd /\ always' = always /\ ever' = ever
          /\ Current.refs # <<>> /\ chain' = Append(chain, Hop(next_hop)) /\ cur' = HopRead
          /\ always \subseteq objs /\ objs \subseteq ever
      BY <1>5 DEF OwnersHop, HasHop, WorldInv
    <2>2. /\ next_hop \in Reference /\ Current \in At(ever, Len(chain))
          /\ \E i \in DOMAIN Current.refs : Current.refs[i] = next_hop
      BY <2>1, CurrentIsOne DEF ChainInv, next_hop
    <2>3. cur' = Near(objs, next_hop)
      BY <2>1, NearIsRead DEF HopRead
    <2>4. /\ \A i \in DOMAIN chain' : \E o \in At(ever, i - 1)' : Names(o, chain'[i])
          /\ At(ever, Len(chain))' = Near(ever, next_hop)
          /\ At(always, Len(chain))' = Near(always, next_hop)
      BY <1>0, <2>1, <2>2, LongerChain DEF ChainInv
    <2>5. /\ Near(always, next_hop) \subseteq Near(objs, next_hop)
          /\ Near(objs, next_hop) \subseteq Near(ever, next_hop)
      BY <2>1, Monotone
    <2>6. cur' \subseteq At(ever, Len(chain))' /\ At(always, Len(chain))' \subseteq cur'
      BY <2>3, <2>4, <2>5
    <2> QED BY <2>1, <2>4, <2>6 DEF ChainInv
  <1>6. CASE OwnersEnd
    <2>1. /\ pc = "hop" /\ pc' = "done" /\ chain' = chain /\ cmd' = cmd /\ always' = always /\ ever' = ever
          /\ cmd.op = "owners" /\ always \subseteq objs
          /\ HasHop => HopRead = {}
      BY <1>6 DEF OwnersEnd, WorldInv
    <2>2. /\ \A o \in At(always, Len(chain)) : o = Current
          /\ Current.refs \in Seq(Reference)
      BY <2>1, CurrentIsOne DEF ChainInv
    <2>3. Len(chain) < Bound => ~Leads(Current, always)
      <3>1. CASE Current.refs = <<>>
        BY <3>1 DEF Leads
      <3>2. CASE Current.refs # <<>> /\ Len(chain) < Bound
        <4>1. HopRead = {}
          BY <1>0, <2>1, <3>2 DEF HasHop, Bound
        <4>2. Near(always, next_hop) = {}
          <5>1. HopRead = Near(objs, next_hop)
            BY NearIsRead DEF HopRead
          <5>2. Near(always, next_hop) \subseteq Near(objs, next_hop)
            BY <2>1, Monotone
          <5> QED BY <4>1, <5>1, <5>2
        <4> QED BY <2>1, <4>2 DEF Leads, next_hop
      <3> QED BY <3>1, <3>2
    <2> QED BY <2>1, <2>2, <2>3, SameChain, SameCommand DEF ChainInv
  <1>7. CASE DescribeHop \/ OwnerLookupFails
    <2>1. /\ pc = "hop" /\ cmd' = cmd /\ always' = always /\ ever' = ever /\ cmd.op = "describe"
          /\ Current.refs # <<>> /\ chain' = Append(chain, Hop(OwnerRef))
          /\ always \subseteq objs /\ objs \subseteq ever
      BY <1>7 DEF DescribeHop, OwnerLookupFails, HasOwner, WorldInv
    <2>2. /\ OwnerRef \in Reference /\ Current \in At(ever, Len(chain))
          /\ \E i \in DOMAIN Current.refs : Current.refs[i] = OwnerRef
      BY <2>1, CurrentIsOne, OwnerRefIsOne DEF ChainInv
    <2>3. /\ \A i \in DOMAIN chain' : \E o \in At(ever, i - 1)' : Names(o, chain'[i])
          /\ At(ever, Len(chain))' = Near(ever, OwnerRef)
          /\ At(always, Len(chain))' = Near(always, OwnerRef)
      BY <1>0, <2>1, <2>2, LongerChain DEF ChainInv
    <2>4. CASE DescribeHop
      <3>1. resolve(Bare[OwnerRef.kind]) = OwnerRef.kind
        BY <2>1, <2>2, ClusterAssumption DEF ChainOK, Unambiguous, resolve, Builtins, Reference
      <3>2. IF Near(objs, OwnerRef) = {} THEN pc' = "events"
            ELSE cur' = Near(objs, OwnerRef) /\ pc' = "hop"
        BY <2>4, <3>1, NearIsRead DEF DescribeHop
      <3>3. /\ Near(always, OwnerRef) \subseteq Near(objs, OwnerRef)
            /\ Near(objs, OwnerRef) \subseteq Near(ever, OwnerRef)
        BY <2>1, Monotone
      <3> QED BY <2>1, <2>3, <3>2, <3>3 DEF ChainInv
    <2>5. CASE OwnerLookupFails
      <3>1. pc' = "events" /\ failed'
        BY <2>5 DEF OwnerLookupFails
      <3> QED BY <2>1, <2>3, <3>1 DEF ChainInv
    <2> QED BY <1>7, <2>4, <2>5
  <1>8. CASE OwnersPrinted
    <2>1. /\ pc = "hop" /\ pc' = "events" /\ chain' = chain /\ cmd' = cmd /\ always' = always
          /\ ever' = ever /\ cmd.op = "describe" /\ ~HasOwner
      BY <1>8 DEF OwnersPrinted
    <2>2. \A o \in At(always, Len(chain)) : o = Current
      BY <2>1, CurrentIsOne DEF ChainInv
    <2>3. Len(chain) < Bound => ~Leads(Current, always)
      BY <1>0, <2>1 DEF HasOwner, Bound, Leads
    <2> QED BY <2>1, <2>2, <2>3, SameChain, SameCommand DEF ChainInv
  <1>9. CASE DescribeEvents
    BY <1>1, <1>9 DEF DescribeEvents, RunInv
  <1>10. CASE CallFails
    BY <1>1, <1>10 DEF CallFails
  <1>11. CASE GetOne \/ GetList \/ ParentRead \/ ChildrenListed \/ ServiceRead \/ SlicesListed
              \/ PodRead \/ LogRead \/ LogRefused
    <2>1. cmd' = cmd /\ chain' = chain /\ ever' = ever /\ always' = always /\ cmd.op \notin Walks
          /\ pc' # "hop"
      BY <1>11 DEF GetOne, GetList, ParentRead, ChildrenListed, ServiceRead, SlicesListed,
         PodRead, LogRead, LogRefused, Walks
    <2> QED BY <1>1, <2>1
  <1>12. CASE UsageListed \/ NodesListed \/ NodesFail
    <2>1. cmd' = cmd /\ chain' = chain /\ ever' = ever /\ always' = always /\ cmd.op \notin Walks
          /\ pc' # "hop"
      BY <1>12 DEF UsageListed, NodesListed, NodesFail, Walks
    <2> QED BY <1>1, <2>1
  <1>13. CASE Change
    <2>1. cmd' = cmd /\ chain' = chain /\ ever \subseteq ever' /\ always' \subseteq always
          /\ pc' = pc /\ cur' = cur /\ exit' = exit /\ failed' = failed /\ pc # "done"
      BY <1>13, ChangeKeeps DEF run
    <2> QED BY <1>1, <2>1
  <1>14. CASE UNCHANGED vars
    <2>1. Kind' = Kind /\ Namespace' = Namespace /\ Bound' = Bound
      BY <1>14, SameCommand DEF vars
    <2> QED BY <1>14, <2>1, SameChain DEF vars, run, ChainInv
  <1> QED BY <1>2, <1>3, <1>4, <1>5, <1>6, <1>7, <1>8, <1>9, <1>10, <1>11, <1>12, <1>13, <1>14
          DEF Next, Step

-----------------------------------------------------------------------------
(* What a run holds until it answers.                                      *)

LEMMA MeteredMonotone ==
  ASSUME NEW A, NEW B, A \subseteq B
  PROVE  Metered(A) \subseteq Metered(B) /\ Nodes(A) \subseteq Nodes(B)
  BY DEF Metered, Nodes

(* What is read is between what was always there and what ever was.        *)
LEMMA FetchedBetween ==
  ASSUME WorldInv, pc # "start"
  PROVE  /\ Targets(always) \subseteq Fetched /\ Fetched \subseteq Targets(ever)
         /\ \A o, p \in Fetched : o = p
  <1>1. Targets(always) \subseteq Targets(objs) /\ Targets(objs) \subseteq Targets(ever)
    BY Monotone DEF WorldInv
  <1> QED BY <1>1, TargetsAreRead, GetIsOne DEF Fetched

LEMMA HeldStep ==
  ASSUME WorldInv, RunInv, HeldInv, [Next]_vars
  PROVE  HeldInv'
  <1> USE DEF Exit, Goto, Answer, quiet, world
  <1>1. ASSUME cmd' = cmd
        PROVE  /\ Kind' = Kind
               /\ Targets(ever)' = Targets(ever') /\ Targets(always)' = Targets(always')
    BY <1>1, SameCommand DEF Targets, Of
  <1>2. CASE Begin
    BY <1>2, CommandAssumption DEF Begin, HeldInv, WorldInv, Ops
  <1>3. CASE Missing \/ GetOne \/ GetList \/ OwnersEnd \/ DescribeEvents \/ ChildrenListed
             \/ SlicesListed \/ LogRefused \/ NodesListed \/ NodesFail \/ CallFails
    <2>1. pc' = "done"
      BY <1>3 DEF Missing, GetOne, GetList, OwnersEnd, DescribeEvents, ChildrenListed,
         SlicesListed, LogRefused, NodesListed, NodesFail, CallFails
    <2> QED BY <2>1 DEF HeldInv
  <1>4. CASE WalkFrom \/ ServiceRead
    <2>1. /\ cmd' = cmd /\ ever' = ever /\ pc = "fetch" /\ Fetched # {}
          /\ pc' = "hop" \/ (pc' = "list" /\ cmd.op = "endpoints")
      BY <1>4 DEF WalkFrom, ServiceRead
    <2> QED BY <1>1, <2>1, FetchedBetween DEF HeldInv
  <1>5. CASE OwnersHop \/ DescribeHop \/ OwnerLookupFails \/ OwnersPrinted
    <2>1. cmd' = cmd /\ ever' = ever /\ pc = "hop" /\ pc' \in {"hop", "events"}
      BY <1>5 DEF OwnersHop, DescribeHop, OwnerLookupFails, OwnersPrinted
    <2> QED BY <1>1, <2>1 DEF HeldInv
  <1>6. CASE ParentRead
    <2>1. /\ cmd' = cmd /\ ever' = ever /\ always' = always /\ pc = "fetch" /\ Fetched # {}
          /\ cmd.op = "children" /\ cur' = Fetched
          /\ (pc' = "list" /\ Bare[Kind] \in DOMAIN child_kinds) \/ pc' = "done"
      BY <1>6 DEF ParentRead
    <2> QED BY <1>1, <2>1, FetchedBetween DEF HeldInv
  <1>7. CASE PodRead
    <2>1. /\ cmd' = cmd /\ ever' = ever /\ always' = always /\ pc = "fetch" /\ cmd.op = "logs"
          /\ \E pod \in Fetched : (todo' = pod.items /\ pc' = "log") \/ pc' = "done"
      BY <1>7 DEF PodRead
    <2>2. cmd.container = None
      BY <2>1 DEF RunInv
    <2> QED BY <1>1, <2>1, <2>2, FetchedBetween DEF HeldInv
  <1>8. CASE LogRead
    <2>1. /\ cmd' = cmd /\ ever' = ever /\ always' = always /\ pc = "log" /\ pc' \in {"log", "done"}
          /\ todo' \subseteq todo
      BY <1>8 DEF LogRead
    <2> QED BY <1>1, <2>1 DEF HeldInv
  <1>9. CASE UsageListed
    <2>1. /\ cmd' = cmd /\ ever' = ever /\ always' = always /\ pc = "list" /\ pc' = "nodes"
          /\ todo' = Metered(objs)
      BY <1>9 DEF UsageListed, read_names, Metered, list_dyn
    <2>2. Metered(always) \subseteq Metered(objs) /\ Metered(objs) \subseteq Metered(ever)
      BY <2>1, MeteredMonotone DEF WorldInv
    <2>3. Metered(always)' = Metered(always) /\ Metered(ever)' = Metered(ever)
      BY <2>1 DEF Metered
    <2> QED BY <2>1, <2>2, <2>3 DEF HeldInv
  <1>10. CASE Change \/ UNCHANGED vars
    <2>1. /\ cmd' = cmd /\ ever \subseteq ever' /\ always' \subseteq always
          /\ pc' = pc /\ todo' = todo /\ cur' = cur
      BY <1>10, ChangeKeeps DEF run, vars
    <2>2. Targets(ever) \subseteq Targets(ever)' /\ Targets(always)' \subseteq Targets(always)
      BY <1>1, <2>1, Monotone
    <2>3. Metered(ever) \subseteq Metered(ever)' /\ Metered(always)' \subseteq Metered(always)
      BY <2>1, MeteredMonotone DEF Metered
    <2>4. Kind' = Kind
      BY <1>1, <2>1
    <2> QED BY <2>1, <2>2, <2>3, <2>4 DEF HeldInv
  <1> QED BY <1>2, <1>3, <1>4, <1>5, <1>6, <1>7, <1>8, <1>9, <1>10 DEF Next, Step

-----------------------------------------------------------------------------
(* The answers.                                                            *)

(* An error that a command refuses with is a refusal.                      *)
LEMMA ExitsStep ==
  ASSUME WorldInv, RunInv, HeldInv, ExitsAreTrue, [Next]_vars
  PROVE  ExitsAreTrue'
  <1> USE DEF Exit, Goto, Answer, quiet, world
  <1>1. CASE pc' # "done"
    BY <1>1 DEF ExitsAreTrue
  <1>2. CASE UNCHANGED vars
    <2>1. Kind' = Kind /\ Namespace' = Namespace /\ Misplaced' = Misplaced
      BY <1>2, SameCommand DEF vars
    <2> QED BY <1>2, <2>1 DEF vars, run, ExitsAreTrue, Refused, Targets, Of
  <1>3. ASSUME cmd' = cmd, always' = always, ever' = ever
        PROVE  /\ Targets(ever)' = Targets(ever) /\ Targets(always)' = Targets(always)
               /\ Refused' = Refused
    BY <1>3, SameCommand DEF Targets, Of, Refused
  <1>4. CASE Begin /\ pc' = "done"
    <2>1. cmd' = cmd /\ exit' = 2 /\ Misplaced' = Misplaced /\ Refused
      BY <1>4, SameCommand DEF Begin, Refused
    <2>2. Refused'
      BY <1>4, <2>1 DEF Begin, Refused
    <2> QED BY <2>1, <2>2 DEF ExitsAreTrue
  <1>5. CASE Missing
    <2>1. /\ UNCHANGED <<cmd, always, ever, chain, rows>> /\ pc = "fetch" /\ Fetched = {}
          /\ exit' = IF cmd.op = "endpoints" THEN 2 ELSE 1
          /\ chain = <<>> /\ rows = {}
      BY <1>5 DEF Missing, RunInv
    <2>2. Targets(always) = {}
      BY <2>1, FetchedBetween
    <2> QED BY <1>3, <2>1, <2>2 DEF ExitsAreTrue, Refused
  <1>6. CASE GetOne \/ GetList
    <2>1. /\ UNCHANGED <<cmd, always, ever, chain>> /\ cmd.op = "get" /\ exit' \in {0, 1}
          /\ exit' = 1 => rows' = {}
          /\ (pc = "fetch" /\ Fetched # {}) \/ pc = "list"
      BY <1>6 DEF GetOne, GetList
    <2>2. chain = <<>> /\ (pc = "list" => cmd.name = None)
      BY <2>1 DEF RunInv, Walks
    <2> QED BY <1>3, <2>1, <2>2, FetchedBetween DEF ExitsAreTrue
  <1>7. CASE OwnersEnd \/ DescribeEvents
    <2>1. /\ UNCHANGED <<cmd, always, ever, chain>> /\ pc \in {"hop", "events"}
          /\ \/ exit' = 0
             \/ cmd.op = "owners" /\ exit' = 1 /\ chain = <<>> /\ rows' = rows
      BY <1>7 DEF OwnersEnd, DescribeEvents
    <2>2. Targets(ever) # {} /\ (cmd.op = "owners" => rows = {})
      BY <2>1 DEF HeldInv, RunInv
    <2> QED BY <1>3, <2>1, <2>2 DEF ExitsAreTrue
  <1>8. CASE ParentRead /\ pc' = "done"
    <2>1. UNCHANGED <<cmd, always, ever>> /\ exit' = 2 /\ Refused
      BY <1>8 DEF ParentRead, Refused
    <2> QED BY <1>3, <2>1 DEF ExitsAreTrue
  <1>9. CASE ChildrenListed \/ SlicesListed
    <2>1. /\ UNCHANGED <<cmd, always, ever, chain>> /\ cmd.op \in {"children", "endpoints"}
          /\ exit' \in {0, 1} /\ (exit' = 1 => rows' = {}) /\ pc = "list"
      BY <1>9 DEF ChildrenListed, SlicesListed
    <2>2. chain = <<>> /\ Targets(ever) # {}
      BY <2>1 DEF RunInv, HeldInv, Walks
    <2> QED BY <1>3, <2>1, <2>2 DEF ExitsAreTrue
  <1>10. CASE PodRead /\ pc' = "done"
    <2>1. PICK pod \in Fetched :
            ~(pod.items # {} /\ (cmd.all \/ Cardinality(pod.items) = 1))
      BY <1>10 DEF PodRead
    <2>2. /\ UNCHANGED <<cmd, always, ever>> /\ exit' = 2 /\ pc = "fetch" /\ cmd.op = "logs"
          /\ cmd.container = None
      BY <1>10 DEF PodRead, RunInv
    <2>3. Refused
      BY <2>1, <2>2, FetchedBetween DEF Refused
    <2> QED BY <1>3, <2>2, <2>3 DEF ExitsAreTrue
  <1>11. CASE LogRead
    <2>1. /\ UNCHANGED <<cmd, always, ever, chain>> /\ pc = "log" /\ Fetched # {}
          /\ pc' = "done" => exit' \in {0, 1} /\ (exit' = 1 => rows' = {})
          /\ cmd.op = "logs"
      BY <1>11 DEF LogRead
    <2>2. chain = <<>> /\ Targets(ever) # {}
      BY <2>1, FetchedBetween DEF RunInv, Walks
    <2> QED BY <1>3, <2>1, <2>2 DEF ExitsAreTrue
  <1>12. CASE LogRefused
    <2>1. /\ UNCHANGED <<cmd, always, ever>> /\ pc = "log" /\ cmd.op = "logs" /\ exit' = 2
          /\ \E c \in todo : \A pod \in Fetched : c \notin pod.items
      BY <1>12 DEF LogRefused
    <2>2. Refused
      BY <2>1, FetchedBetween DEF HeldInv, Refused
    <2> QED BY <1>3, <2>1, <2>2 DEF ExitsAreTrue
  <1>13. CASE NodesListed \/ NodesFail
    <2>1. /\ UNCHANGED <<cmd, chain>> /\ cmd.op = "top" /\ exit' \in {0, 1}
          /\ exit' = 1 => rows' = {}
      BY <1>13 DEF NodesListed, NodesFail
    <2>2. chain = <<>> /\ cmd.name = None
      BY <2>1, CommandAssumption DEF RunInv, WorldInv, Walks
    <2> QED BY <2>1, <2>2 DEF ExitsAreTrue
  <1>14. CASE CallFails
    BY <1>14 DEF CallFails, ExitsAreTrue
  <1>15. CASE WalkFrom \/ OwnersHop \/ DescribeHop \/ OwnerLookupFails \/ OwnersPrinted
              \/ ServiceRead \/ UsageListed \/ Change
    BY <1>1, <1>15, ChangeKeeps DEF WalkFrom, OwnersHop, DescribeHop, OwnerLookupFails, OwnersPrinted,
       ServiceRead, UsageListed, run
  <1> QED BY <1>1, <1>2, <1>4, <1>5, <1>6, <1>7, <1>8, <1>9, <1>10, <1>11, <1>12, <1>13, <1>14, <1>15
          DEF Next, Step

(* Children are of a kind the table knows.                                 *)
LEMMA KindIsServed ==
  ASSUME WorldInv, cmd.op = "children", Bare[Kind] \in DOMAIN child_kinds
  PROVE  child_kinds[Bare[Kind]] \in Builtins
  <1>1. Kind \in Kinds
    BY CommandAssumption DEF WorldInv, Kind, resolve, Builtins
  <1> QED BY <1>1, ClusterAssumption

LEMMA ListsStep ==
  ASSUME WorldInv, RunInv, HeldInv, ListsAreTrue, [Next]_vars
  PROVE  ListsAreTrue'
  <1> USE DEF Exit, Goto, Answer, quiet, world
  <1>1. CASE pc' # "done" \/ exit' = 2
    BY <1>1 DEF ListsAreTrue, Answered
  <1>2. CASE UNCHANGED vars
    <2>1. Kind' = Kind /\ Namespace' = Namespace /\ Everywhere' = Everywhere
      BY <1>2, SameCommand DEF vars
    <2> QED BY <1>2, <2>1 DEF vars, run, ListsAreTrue, Answered, Shown, Holders, Targets, Of, Metered,
            Nodes, OwnedAs
  <1>3. ASSUME cmd' = cmd, always' = always, ever' = ever,
               cmd.op \in {"get", "children", "endpoints"} =>
                 /\ Shown(always, Holders(always)) \subseteq rows'
                 /\ rows' \subseteq Shown(ever, Holders(ever)),
               cmd.op # "top"
        PROVE  ListsAreTrue'
    <2>1. Kind' = Kind /\ Namespace' = Namespace /\ Everywhere' = Everywhere
      BY <1>3, SameCommand
    <2>2. /\ Shown(always, Holders(always))' = Shown(always, Holders(always))
          /\ Shown(ever, Holders(ever))' = Shown(ever, Holders(ever))
      BY <1>3, <2>1 DEF Shown, Holders, Targets, Of, OwnedAs
    <2> QED BY <1>3, <2>2 DEF ListsAreTrue
  <1>4. CASE Missing /\ cmd.op # "endpoints"
    <2>1. /\ UNCHANGED <<cmd, always, ever>> /\ rows' = {} /\ pc = "fetch" /\ Fetched = {}
          /\ cmd.name # None /\ cmd.op # "top"
      BY <1>4, CommandAssumption DEF Missing, RunInv, WorldInv
    <2>2. Targets(always) = {}
      BY <2>1, FetchedBetween
    <2>3. cmd.op \in {"get", "children"} => Shown(always, Holders(always)) = {}
      BY <2>1, <2>2 DEF Shown, Holders
    <2> QED BY <1>3, <1>4, <2>1, <2>3
  <1>5. CASE GetOne
    <2>1. /\ UNCHANGED <<cmd, always, ever>> /\ cmd.op = "get" /\ pc = "fetch" /\ cmd.name # None
          /\ rows' = {Key(o) : o \in Fetched}
      BY <1>5 DEF GetOne, RunInv
    <2>2. \A objects, parents : Shown(objects, parents) = {Key(o) : o \in Targets(objects)}
      BY <2>1 DEF Shown
    <2> QED BY <1>3, <2>1, <2>2, FetchedBetween
  <1>6. CASE GetList
    <2>1. /\ UNCHANGED <<cmd, always, ever>> /\ cmd.op = "get" /\ pc = "list" /\ cmd.name = None
          /\ rows' = {Key(o) : o \in list_dyn(Kind, Namespace)}
          /\ always \subseteq objs /\ objs \subseteq ever
      BY <1>6 DEF GetList, RunInv, WorldInv
    <2>2. \A objects, parents : Shown(objects, parents) =
            {Key(o) : o \in {o \in objects : o.kind = Kind /\ (Everywhere \/ o.ns = Namespace)}}
      BY <2>1 DEF Shown
    <2>3. list_dyn(Kind, Namespace)
            = {o \in objs : o.kind = Kind /\ (Everywhere \/ o.ns = Namespace)}
      <3>1. Everywhere => Namespace = None
        BY DEF Namespace
      <3>2. \A o \in objs : o.kind = Kind /\ Namespace = None /\ ~Everywhere => o.ns = None
        BY ClusterAssumption DEF WorldInv, Consistent, Namespace
      <3> QED BY <3>1, <3>2 DEF list_dyn
    <2> QED BY <1>3, <2>1, <2>2, <2>3
  <1>7. CASE ChildrenListed
    <2> DEFINE kind == child_kinds[Bare[Kind]]
    <2>1. /\ UNCHANGED <<cmd, always, ever>> /\ cmd.op = "children" /\ pc = "list"
          /\ always \subseteq objs /\ objs \subseteq ever
      BY <1>7 DEF ChildrenListed, WorldInv
    <2>2. /\ cur # {} /\ cur \subseteq Targets(ever) /\ Targets(always) \subseteq cur
          /\ Bare[Kind] \in DOMAIN child_kinds /\ \A o, p \in cur : o = p
      BY <2>1 DEF HeldInv, RunInv
    <2>3. Current \in cur /\ Current.name = cmd.name
      BY <2>2 DEF Current, Targets, Of
    <2>4. kind \in Builtins /\ resolve(kind) = kind
      BY <2>1, <2>2, KindIsServed DEF resolve
    <2>5. rows' = {Key(o) : o \in {o \in list_dyn(kind, Namespace) : OwnedAs(o, Current)}}
      BY <1>7, <2>3, <2>4 DEF ChildrenListed, OwnedAs, is_service_slice, is_child_of, list_dyn
    <2>6. \A objects, parents : Shown(objects, parents) =
            {Key(o) : o \in {o \in objects : o.kind = kind /\ Namespace \in {None, o.ns}
                                             /\ \E p \in parents : OwnedAs(o, p)}}
      BY <2>1, <2>2 DEF Shown
    <2>7. /\ Holders(ever) = Targets(ever) /\ Holders(always) \subseteq {Current}
          /\ Current \in Targets(ever)
      BY <2>1, <2>2, <2>3 DEF Holders
    <2> QED BY <1>3, <2>1, <2>5, <2>6, <2>7 DEF list_dyn
  <1>8. CASE SlicesListed
    <2>1. /\ UNCHANGED <<cmd, always, ever>> /\ cmd.op = "endpoints" /\ pc = "list"
          /\ always \subseteq objs /\ objs \subseteq ever
          /\ rows' = endpoint_rows({s \in list_dyn("EndpointSlice", Namespace) :
                                      is_service_slice(s, cmd.name)})
      BY <1>8 DEF SlicesListed, WorldInv
    <2>2. \A objects, parents : Shown(objects, parents) =
            UNION {s.items : s \in {s \in objects : /\ s.kind = "EndpointSlice"
                                                    /\ Namespace \in {None, s.ns}
                                                    /\ s.label = <<cmd.name>>}}
      BY <2>1 DEF Shown
    <2> QED BY <1>3, <2>1, <2>2 DEF endpoint_rows, list_dyn, is_service_slice
  <1>9. CASE NodesListed \/ NodesFail
    <2>1. /\ UNCHANGED <<cmd, always, ever>> /\ cmd.op = "top" /\ pc = "nodes"
          /\ always \subseteq objs /\ objs \subseteq ever
          /\ Metered(always) \subseteq todo /\ todo \subseteq Metered(ever)
      BY <1>9 DEF NodesListed, NodesFail, WorldInv, HeldInv
    <2>2. Nodes(always) \subseteq Nodes(objs) /\ Nodes(objs) \subseteq Nodes(ever)
      BY <2>1, MeteredMonotone
    <2>3. /\ Metered(always)' = Metered(always) /\ Metered(ever)' = Metered(ever)
          /\ Nodes(always)' = Nodes(always) /\ Nodes(ever)' = Nodes(ever)
      BY <2>1 DEF Metered, Nodes
    <2>4. ASSUME NEW known, rows' = {[node |-> r, share |-> r \in known] : r \in todo},
                 known \subseteq Nodes(ever), ~failed' => Nodes(always) \subseteq known
          PROVE  ListsAreTrue'
      <3>1. ASSUME NEW n \in Metered(always)
            PROVE  \E r \in rows' : r.node = n /\ (n \in Nodes(always) /\ ~failed' => r.share)
        <4>1. [node |-> n, share |-> n \in known] \in rows'
          BY <2>1, <2>4, <3>1
        <4> QED BY <2>4, <4>1
      <3>2. ASSUME NEW r \in rows'
            PROVE  r.node \in Metered(ever) /\ (r.share => r.node \in Nodes(ever))
        <4>1. PICK q \in todo : r = [node |-> q, share |-> q \in known]
          BY <2>4
        <4> QED BY <2>1, <2>4, <4>1
      <3> QED BY <2>1, <2>3, <3>1, <3>2 DEF ListsAreTrue
    <2>5. CASE NodesListed
      <3>1. rows' = Usage(Nodes(objs))
        BY <2>5 DEF NodesListed, read_names, Nodes, list_dyn
      <3>2. rows' = {[node |-> r, share |-> r \in Nodes(objs)] : r \in todo}
        BY <3>1 DEF Usage
      <3> QED BY <2>2, <2>4, <3>2
    <2>6. CASE NodesFail
      <3>1. rows' = Usage({}) /\ failed'
        BY <2>6 DEF NodesFail
      <3>2. rows' = {[node |-> r, share |-> r \in {}] : r \in todo}
        BY <3>1 DEF Usage
      <3> QED BY <2>4, <3>1, <3>2
    <2> QED BY <1>9, <2>5, <2>6
  <1>10. CASE OwnersEnd \/ DescribeEvents \/ LogRead
    BY <1>3, <1>10 DEF OwnersEnd, DescribeEvents, LogRead
  <1>11. CASE Begin \/ (Missing /\ cmd.op = "endpoints") \/ ParentRead \/ PodRead \/ LogRefused \/ CallFails
    BY <1>1, <1>11 DEF Begin, Missing, ParentRead, PodRead, LogRefused, CallFails
  <1>12. CASE WalkFrom \/ OwnersHop \/ DescribeHop \/ OwnerLookupFails \/ OwnersPrinted
              \/ ServiceRead \/ UsageListed \/ Change
    BY <1>1, <1>12, ChangeKeeps DEF WalkFrom, OwnersHop, DescribeHop, OwnerLookupFails, OwnersPrinted,
       ServiceRead, UsageListed, run
  <1> QED BY <1>1, <1>2, <1>4, <1>5, <1>6, <1>7, <1>8, <1>9, <1>10, <1>11, <1>12
          DEF Next, Step

-----------------------------------------------------------------------------
(* The theorems.                                                           *)

LEMMA InitHolds ==
  ASSUME Init
  PROVE  WorldInv /\ RunInv /\ ChainInv /\ HeldInv /\ ListsAreTrue /\ ExitsAreTrue
  <1>1. WorldInv
    BY ClusterAssumption DEF Init, WorldInv
  <1>2. RunInv
    <2>1. cur \subseteq Object /\ (\A o \in cur : o.uid < fresh) /\ \A o, p \in cur : o = p
      BY DEF Init
    <2>2. <<>> \in Seq(Link)
      OBVIOUS
    <2>3. chain = <<>> /\ pc = "start" /\ exit = -1 /\ failed = FALSE /\ rows = {}
      BY DEF Init
    <2>4. exit \in -1 .. 2 /\ (exit = -1 <=> pc # "done")
      BY <2>3
    <2>5. chain \in Seq(Link)
      BY <2>2, <2>3
    <2> QED BY <2>1, <2>3, <2>4, <2>5, Zenon DEF RunInv
  <1>3. ChainInv /\ HeldInv /\ ListsAreTrue /\ ExitsAreTrue
    BY DEF Init, ChainInv, HeldInv, ListsAreTrue, ExitsAreTrue, Answered
  <1> QED BY <1>1, <1>2, <1>3

LEMMA Invariant == Spec => []Inv
  <1>1. Init => Inv
    BY InitHolds DEF Inv
  <1>2. Inv /\ [Next]_vars => Inv'
    BY WorldStep, RunStep, HeldStep, ListsStep, ExitsStep DEF Inv
  <1> QED BY <1>1, <1>2, PTL DEF Spec

LEMMA TypesHold ==
  ASSUME WorldInv, RunInv
  PROVE  ClusterTypeOK
  <1>1. Cardinality(cur) <= 1
    <2>1. CASE cur = {}
      BY <2>1, FS_EmptySet
    <2>2. CASE cur # {}
      <3>1. PICK o \in cur : TRUE
        BY <2>2
      <3>2. cur = {o}
        BY <3>1 DEF RunInv
      <3> QED BY <3>2, FS_Singleton
    <2> QED BY <2>1, <2>2
  <1>2. \A i \in DOMAIN chain : chain[i].kind \in Kinds
    <2>1. chain \in Seq(Link)
      BY DEF RunInv
    <2>2. \A i \in DOMAIN chain : chain[i] \in Link
      BY <2>1
    <2> QED BY <2>2 DEF Link
  <1>3. \A o \in objs \cup cur : o.kind \in Kinds /\ o.uid < fresh
    BY DEF WorldInv, RunInv, Consistent, Object
  <1> QED BY <1>1, <1>2, <1>3 DEF ClusterTypeOK, WorldInv, RunInv, Consistent

(* The cluster stays one (no two objects with a name or a uid in common),  *)
(* and the run has its types: at most one object in hand, one exit code,   *)
(* and only when it is done.                                               *)
THEOREM ClusterTypes == Spec => []ClusterTypeOK
  <1>1. Inv => ClusterTypeOK
    BY TypesHold DEF Inv
  <1> QED BY <1>1, Invariant, PTL

(* Of any cluster, however it changes under the command and whichever      *)
(* calls fail: every ancestor `owners` or `describe` reports was named as  *)
(* an owner, at some moment, by the object of the row before it, and the   *)
(* walk stops below no owner that was there all the time.  `describe`      *)
(* looks an owner up by its kind alone, and needs that no two kinds are    *)
(* spelled alike (owners.rs:103-150, describe.rs:298-362).                 *)
THEOREM ChainsAreTrue == Spec => []((cmd.op = "describe" => Unambiguous) => ChainIsTrue)
  <1>1. Init => (ChainOK => ChainInv)
    BY InitHolds
  <1>2. Inv /\ (ChainOK => ChainInv) /\ [Next]_vars => (ChainOK => ChainInv)'
    <2>1. ASSUME Inv, ChainOK => ChainInv, [Next]_vars, ChainOK' PROVE ChainInv'
      <3>1. cmd' = cmd
        BY <2>1, CommandStays DEF Inv
      <3>2. ChainOK
        BY <2>1, <3>1 DEF ChainOK
      <3> QED BY <2>1, <3>2, ChainStep DEF Inv
    <2> QED BY <2>1
  <1>3. Inv /\ (ChainOK => ChainInv) => (ChainOK => ChainIsTrue)
    <2>1. ASSUME Inv, ChainInv PROVE ChainIsReal /\ ChainIsWhole
      BY <2>1 DEF ChainInv, ChainIsReal, ChainIsWhole, Walked, Answered, Walks
    <2> QED BY <2>1, TypesHold DEF Inv, ChainIsTrue
  <1>4. (ChainOK => ChainIsTrue) <=> ((cmd.op = "describe" => Unambiguous) => ChainIsTrue)
    BY DEF ChainOK
  <1> QED BY <1>1, <1>2, <1>3, <1>4, Invariant, PTL DEF Spec

(* Of any cluster, however it changes: what get, children, endpoints and   *)
(* top nodes list has all that was there throughout, and nothing that was  *)
(* there at no moment (get.rs:167-193, children.rs:117-160,                *)
(* endpoints.rs:189-199, top.rs:350-418).                                  *)
THEOREM ListsHold == Spec => []ListsAreTrue
  <1>1. Inv => ListsAreTrue
    BY DEF Inv
  <1> QED BY <1>1, Invariant, PTL

(* Of any cluster, however it changes and whichever calls fail: exit 1 is  *)
(* an absence there was, exit 2 a call that failed or what the command     *)
(* refuses, and exit 0 says that the object was there.                     *)
THEOREM ExitsHold == Spec => []ExitsAreTrue
  <1>1. Inv => ExitsAreTrue
    BY DEF Inv
  <1> QED BY <1>1, Invariant, PTL
=============================================================================
