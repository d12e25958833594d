-------------------------------- MODULE Fleet --------------------------------
(***************************************************************************)
(* sak talos (src/talos): a command runs talosctl for every node of a      *)
(* fleet, one after the other, and certs for every node and path.  In      *)
(* between, nodes go down and come back, and their files change.           *)
(***************************************************************************)
EXTENDS Integers, Sequences, FiniteSets, SequencesExt

CONSTANTS
  None,        \* not given, no limit, a file that is not there, a node that is down
  Torn,        \* a file that holds no certificate, or no configuration
  Commands,    \* [op, field, limit, nodes, path, configs]
  Fleets,      \* what nodes may hold: [node -> [path -> content]], None when down
  CERT_PATHS,
  Rank,        \* the order of the names of contexts
  MaxChanges   \* bound: how often a node changes

VARIABLES
  cmd,
  fleet,
  at,      \* how many runs there were
  heard,   \* what each of them gave
  infos,   \* the certificates found
  rows, code,
  changes
vars == <<cmd, fleet, at, heard, infos, rows, code, changes>>

Running == -1
Upto(s, n) == IF n = None \/ n >= Len(s) THEN s ELSE SubSeq(s, 1, n)

READ_ONLY_VERBS == {"get", "read", "version"}
Verb(op) == IF op = "certs" THEN "read" ELSE op

-----------------------------------------------------------------------------
(* The configuration, and one run after the other.                         *)

resolve_path(c) == IF c.flag # None THEN c.flag ELSE IF c.env # None THEN c.env ELSE c.home
load(file) ==
  IF file \in {None, Torn} THEN None
  ELSE LET name == IF file.context # None \/ DOMAIN file.contexts = {} THEN file.context
                   ELSE CHOOSE n \in DOMAIN file.contexts : \A m \in DOMAIN file.contexts : Rank[n] <= Rank[m]
       IN IF name \in DOMAIN file.contexts THEN file.contexts[name] ELSE None
resolve_nodes(c) == IF load(resolve_path(c.configs)) = None \/ c.nodes \in {None, <<"all">>} THEN load(resolve_path(c.configs)) ELSE c.nodes
Nodes == resolve_nodes(cmd)
Fanning == code = Running
BadFleet == Nodes \in {None, <<>>} \/ (cmd.op = "certs" /\ cmd.field = "unknown")
Held(node, path) == IF node \notin DOMAIN fleet \/ fleet[node] = None THEN None ELSE fleet[node][path]

refuse ==
  /\ Fanning /\ BadFleet
  /\ code' = 2
  /\ UNCHANGED <<cmd, fleet, at, heard, infos, rows, changes>>

(* read of one node is its bytes, and fails where the node does.           *)
read_one ==
  /\ Fanning /\ ~BadFleet /\ cmd.op = "read" /\ Len(Nodes) = 1
  /\ LET bytes == Held(Nodes[1], cmd.path)
     IN IF bytes = None THEN code' = 2 /\ UNCHANGED rows
        ELSE code' = 0 /\ rows' = [i \in DOMAIN bytes |-> <<"line", bytes[i]>>]
  /\ heard' = <<Held(Nodes[1], cmd.path)>> /\ at' = 1
  /\ UNCHANGED <<cmd, fleet, infos, changes>>

(* get, and read of several: a section for each node, failed ones marked.  *)
Gap == <<"---", None>>
Printed == Len(SelectSeq(rows, LAMBDA r : r[1] = "line"))
Sectioned == Fanning /\ ~BadFleet /\ (cmd.op = "get" \/ (cmd.op = "read" /\ Len(Nodes) > 1))
section ==
  /\ Sectioned /\ at < Len(Nodes)
  /\ LET node == Nodes[at + 1]
         bytes == Held(node, cmd.path)
         gap == IF at > 0 /\ (bytes # None \/ cmd.op = "read") THEN <<Gap>> ELSE <<>>
         kept == IF cmd.limit = None THEN bytes ELSE Upto(bytes, cmd.limit - Printed)
     IN /\ at' = at + 1 /\ heard' = Append(heard, bytes)
        /\ IF bytes = None THEN rows' = rows \o gap \o <<<<"failed", node>>>> /\ UNCHANGED code
           ELSE /\ rows' = rows \o gap \o <<<<"node", node>>>> \o [i \in DOMAIN kept |-> <<"line", kept[i]>>]
                /\ IF kept = bytes THEN UNCHANGED code ELSE code' = 0
  /\ UNCHANGED <<cmd, fleet, infos, changes>>
(* As it would be with the first failure failing the command.              *)
Answered_ByAll == \A i \in DOMAIN heard : heard[i] # None
Answered == \E i \in DOMAIN heard : heard[i] # None
sections_end ==
  /\ Sectioned /\ at = Len(Nodes)
  /\ code' = IF Answered THEN 0 ELSE 1
  /\ UNCHANGED <<cmd, fleet, at, heard, infos, rows, changes>>

(* certs: what cannot be read, or holds no certificate, is passed over; a  *)
(* certificate that cannot be parsed ends it all.                          *)
Certifying == Fanning /\ ~BadFleet /\ cmd.op = "certs"
NodeAt(i) == Nodes[(i - 1) \div Len(CERT_PATHS) + 1]
PathAt(i) == CERT_PATHS[((i - 1) % Len(CERT_PATHS)) + 1]
Certs(bytes) == IF bytes \in {None, Torn} THEN <<>> ELSE bytes
Runs == Len(Nodes) * Len(CERT_PATHS)
collect ==
  /\ Certifying /\ at < Runs
  /\ LET node == NodeAt(at + 1)
         path == PathAt(at + 1)
         bytes == Held(node, path)
         certs == Certs(bytes)
     IN /\ at' = at + 1 /\ heard' = Append(heard, bytes)
        /\ IF \E i \in DOMAIN certs : certs[i] = Torn THEN code' = 2 /\ UNCHANGED infos
           ELSE infos' = infos \o [i \in DOMAIN certs |-> <<node, path, certs[i]>>] /\ UNCHANGED code
  /\ UNCHANGED <<cmd, fleet, rows, changes>>
certs_end ==
  /\ Certifying /\ at = Runs
  /\ rows' = Upto(infos, cmd.limit) /\ code' = IF infos = <<>> THEN 1 ELSE 0
  /\ UNCHANGED <<cmd, fleet, at, heard, infos, changes>>

(* A node goes down or comes back, or a file of it changes.                *)
Change ==
  /\ Fanning /\ changes < MaxChanges /\ changes' = changes + 1
  /\ \E f \in Fleets, n \in DOMAIN fleet : fleet' = [fleet EXCEPT ![n] = f[n]]
  /\ UNCHANGED <<cmd, at, heard, infos, rows, code>>

Init ==
  /\ cmd \in Commands /\ fleet \in Fleets
  /\ at = 0 /\ heard = <<>> /\ infos = <<>> /\ rows = <<>> /\ code = Running /\ changes = 0
Next == refuse \/ read_one \/ section \/ sections_end \/ collect \/ certs_end \/ Change
Spec == Init /\ [][Next]_vars

-----------------------------------------------------------------------------
(* Properties.                                                             *)

Ended == code # Running /\ heard # <<>>

(* get and read give every node a section of its own, in order: what that  *)
(* node answered, and nothing another one did, or that it failed; the      *)
(* limit may end the last of them and leave out those behind.  Nothing is  *)
(* found only when every node failed (talos/get.rs and read.rs, run).      *)
Heads == {k \in DOMAIN rows : rows[k][1] \in {"node", "failed"}}
HeadOf(j) == CHOOSE k \in Heads : Cardinality({i \in Heads : i <= k}) = j
Under(j) ==
  LET till == IF j = Cardinality(Heads) THEN Len(rows) ELSE HeadOf(j + 1) - 1
      lines == SelectSeq(SubSeq(rows, HeadOf(j) + 1, till), LAMBDA r : r[1] = "line")
  IN [i \in DOMAIN lines |-> lines[i][2]]
FleetIsTold ==
  Ended /\ cmd.op # "certs" =>
    /\ cmd.op = "read" /\ Len(Nodes) = 1 => (code = 2) <=> (heard[1] = None)
    /\ cmd.op = "get" \/ Len(Nodes) > 1 =>
         /\ Cardinality(Heads) = Len(heard)
         /\ \A j \in DOMAIN heard :
              /\ rows[HeadOf(j)] = <<IF heard[j] = None THEN "failed" ELSE "node", Nodes[j]>>
              /\ heard[j] # None => IF j = Len(heard) /\ Printed = cmd.limit THEN IsPrefix(Under(j), heard[j]) ELSE Under(j) = heard[j]
         /\ Len(heard) < Len(Nodes) => Printed = cmd.limit /\ code = 0
         /\ (code = 1) <=> \A j \in DOMAIN heard : heard[j] = None

(* certs tells every certificate of every node and path that could be      *)
(* read, in this order, and none of another; one that cannot be parsed     *)
(* withholds all of them (talos/certs.rs, run).                            *)
CertsAreTold ==
  Ended /\ cmd.op = "certs" =>
    LET all == FlattenSeq([i \in DOMAIN heard |-> [k \in DOMAIN Certs(heard[i]) |-> <<NodeAt(i), PathAt(i), Certs(heard[i])[k]>>]])
        whole == \A i \in DOMAIN all : all[i][3] # Torn
    IN /\ (code = 2) <=> ~whole
       /\ whole => rows = Upto(all, cmd.limit) /\ Len(heard) = Runs /\ (code = 1 <=> all = <<>>)
       /\ whole /\ changes = 0 =>
            \A n \in ToSet(Nodes), p \in ToSet(CERT_PATHS) :
              \A k \in DOMAIN Certs(Held(n, p)) : \E i \in DOMAIN all : all[i] = <<n, p, Certs(Held(n, p))[k]>>

(* No command is stopped at the chokepoint (talos/client.rs, invoke), and  *)
(* every node is told of as it was.                                        *)
NodesAreTrue == Verb(cmd.op) \in READ_ONLY_VERBS /\ FleetIsTold /\ CertsAreTold
=============================================================================
