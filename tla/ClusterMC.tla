------------------------------ MODULE ClusterMC ------------------------------
(* Values of Cluster's constants for TLC: a web application and the        *)
(* clusters it may be found in.                                            *)
EXTENDS Cluster

Native == {"Pod", "ReplicaSet", "Deployment", "Service", "EndpointSlice", "Event", "Node",
           "NodeMetrics"}
MCScoped == {"Node", "NodeMetrics"}
MCBare == [k \in Kinds |-> IF k = "Service.knative" THEN "Service" ELSE k]
WithCrd == Native \cup {"Service.knative"}

T(kind, name, label, items) ==
  [kind |-> kind, ns |-> IF kind \in MCScoped THEN None ELSE "ns", name |-> name,
   label |-> label, items |-> items]
Pod == T("Pod", "web", <<>>, {"app", "proxy"})
Solo == T("Pod", "solo", <<>>, {"app"})
Set == T("ReplicaSet", "web", <<>>, {})
Deployment == T("Deployment", "web", <<>>, {})
Service == T("Service", "web", <<>>, {})
Knative == T("Service.knative", "web", <<>>, {})
Slice(n, i) == T("EndpointSlice", n, <<"web">>, i)
Event == T("Event", "web.1", <<"Pod", "web">>, {})
Node == T("Node", "n1", <<>>, {"capacity"})
Metrics(n, readings) == T("NodeMetrics", n, <<>>, readings)

Ref(t, uid, ctl) == [kind |-> t.kind, name |-> t.name, uid |-> uid, controller |-> ctl]
Put(t, uid, refs) ==
  [kind |-> t.kind, ns |-> t.ns, name |-> t.name, label |-> t.label, items |-> t.items,
   uid |-> uid, refs |-> refs]

Chain ==
  {Put(Pod, 1, <<Ref(Node, 5, FALSE), Ref(Set, 2, TRUE)>>), Put(Set, 2, <<Ref(Deployment, 3, TRUE)>>),
   Put(Deployment, 3, <<>>), Put(Node, 5, <<>>), Put(Event, 6, <<>>)}
Loop ==
  {Put(Pod, 1, <<Ref(Set, 2, TRUE)>>), Put(Set, 2, <<Ref(Deployment, 3, TRUE)>>),
   Put(Deployment, 3, <<Ref(Set, 2, TRUE)>>)}
Serving ==
  {Put(Service, 1, <<>>), Put(Slice("web-1", {"a", "b"}), 2, <<Ref(Service, 1, TRUE)>>),
   Put(Slice("web-2", {"b", "c"}), 3, <<>>)}
Fleet ==
  {Put(Node, 1, <<>>), Put(Metrics("n1", {"usage"}), 2, <<>>), Put(Metrics("n2", {"usage"}), 3, <<>>),
   Put(Metrics("n3", {}), 4, <<>>), Put(T("Node", "n2", <<>>, {}), 5, <<>>)}
Mirror == {Put(Solo, 1, <<Ref(Node, 2, TRUE)>>), Put(Node, 2, <<>>)}
MCClusters == {Chain, Loop, Serving, Fleet, Mirror}
MCTemplates == {Pod, Solo, Set, Deployment, Service, Slice("web-2", {"c"}), Node}

(* A knative Service owns the pod's Deployment, and a core Service of the  *)
(* same name has an owner of its own.                                      *)
Colliding ==
  {Put(Pod, 1, <<Ref(Knative, 2, TRUE)>>), Put(Knative, 2, <<>>),
   Put(Service, 3, <<Ref(Deployment, 4, TRUE)>>), Put(Deployment, 4, <<>>)}
CrdClusters == {Chain, Colliding}

C(op, kind, name, ns, all) ==
  [op |-> op, kind |-> kind, name |-> name, ns |-> ns, all |-> all, container |-> None]
MCCommands ==
  {C(op, k, "web", None, FALSE) : op \in {"owners", "describe"}, k \in {"Pod", "ReplicaSet"}}
  \cup {C(op, "Pod", "solo", "ns", FALSE) : op \in {"get", "owners", "describe"}}
  \cup {C(op, "Node", "n1", ns, FALSE) : op \in {"get", "owners", "describe"}, ns \in {None, "ns"}}
  \cup {C("children", k, "web", None, FALSE) : k \in {"Deployment", "ReplicaSet", "Service", "Pod"}}
  \cup {C("get", k, n, None, a) : k \in {"Pod", "Node"}, n \in {None, "solo"}, a \in BOOLEAN} \cup {C("get", "EndpointSlice", None, "ns", FALSE)}
  \cup {C("endpoints", "Service", "web", None, FALSE), C("top", "Node", None, None, FALSE)}
  \cup {C("logs", "Pod", n, None, a) : n \in {"web", "solo"}, a \in BOOLEAN}
  \cup {[C("logs", "Pod", "web", None, FALSE) EXCEPT !.container = "proxy"]}
=============================================================================
