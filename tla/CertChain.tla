------------------------------- MODULE CertChain -------------------------------
(***************************************************************************)
(* sak cert verify-chain (src/cert/verify_chain.rs): from every source of  *)
(* certificates a chain is built, one link at a time and never taking a    *)
(* link back, and then judged.  Without --ca the certificates of a source  *)
(* are the chain, in an order to be found; with --ca the chain starts at   *)
(* the first certificate of the source and may use the intermediates and   *)
(* the anchors.                                                            *)
(*                                                                         *)
(* A certificate is a record.  Names are pairs of what they say and how    *)
(* they spell it; a key is its owner and, for RSA, its size in bits.       *)
(***************************************************************************)
EXTENDS Integers, Sequences, FiniteSets, SequencesExt, Numbers

CONSTANTS
  Jobs   \* command lines: [anchored, allow, now, sources, untrusted, anchors]

Names == STRING \X STRING
Keys == [who : STRING, bits : Nat]
Certificate ==
  [subject : Names, issuer : Names, key : Keys, signer : Keys, alg : STRING, from : Int, to : Int,
   ca : {"yes", "no", "none"}, pathlen : Nat, usage : {"none", "sign", "other"}, v1 : BOOLEAN,
   good : BOOLEAN]

ASSUME JobsAssumption ==
  \A j \in Jobs :
    /\ j.sources \in Seq(Seq(Certificate))
    /\ j.untrusted \in Seq(Certificate) /\ j.anchors \in Seq(Certificate)

VARIABLES
  job,      \* the command line
  order,    \* the chain under construction, places in the pool
  reports,  \* the chains judged: [pool, order, issues, uncertain]
  exited    \* "running", or the exit code

vars == <<job, order, reports, exited>>

-----------------------------------------------------------------------------
(* Names, keys and signatures.                                             *)

names_equal(a, b) == a[1] = b[1]
SelfSigned(c) == names_equal(c.subject, c.issuer)

(* The RSA keys the library verifies with; its test rounds up to bytes.    *)
rsa_range_ok(alg, bits) ==
  LET least == CASE alg = "sha1" -> 1024 [] alg = "rsa" -> 2048 [] OTHER -> 0
      effective == ((bits + 7) \div 8) * 8
  IN  alg \in {"sha1", "rsa"} => effective >= least /\ effective <= 8192

verify_signature(c, key) ==
  CASE c.alg = "other" -> "unsupported"
    [] c.alg # "other" /\ c.signer = key /\ rsa_range_ok(c.alg, key.bits) -> "ok"
    [] OTHER -> "invalid"

check_sig(c, key) ==
  LET result == verify_signature(c, key)
  IN  CASE result = "ok" -> "good"
        [] result = "unsupported" \/ ~rsa_range_ok(c.alg, key.bits) -> "unknown"
        [] OTHER -> "bad"

-----------------------------------------------------------------------------
(* The order of a chain.                                                   *)

Candidates(pool, o) ==
  {i \in DOMAIN pool : i \notin Range(o) /\ names_equal(pool[i].subject, pool[Last(o)].issuer)}

(* Those from `first` on are looked at before the others.                  *)
Before(i, j, first) == IF (i >= first) = (j >= first) THEN i < j ELSE i >= first
Earliest(S, first) == CHOOSE i \in S : \A j \in S \ {i} : Before(i, j, first)

(* mistake: the first of the name, whatever its key                        *)
Choice_ByName(pool, o, first) == Earliest(Candidates(pool, o), first)
Choice(pool, o, first) ==
  LET cands == Candidates(pool, o)
      keyed == {i \in cands : verify_signature(pool[Last(o)], pool[i].key) = "ok"}
  IN  Earliest(IF keyed # {} THEN keyed ELSE cands, first)

Leaves(pool) ==
  {i \in DOMAIN pool : \A j \in DOMAIN pool \ {i} : ~names_equal(pool[j].issuer, pool[i].subject)}
FileOrder(pool) == [i \in DOMAIN pool |-> i]
Rest(pool, o) == Ascending(DOMAIN pool \ Range(o))

(* Where a chain starts: at the certificate to verify, at the only leaf of *)
(* a bundle, or the bundle is left in the order of its file.               *)
StartOf(j, pool) ==
  IF j.anchored THEN <<1>>
  ELSE IF Len(pool) > 1 /\ Cardinality(Leaves(pool)) = 1 THEN <<CHOOSE i \in Leaves(pool) : TRUE>>
  ELSE FileOrder(pool)

build_from(pool, o, first) == Append(o, Choice(pool, o, first))
assemble_order(pool, o) ==
  IF Candidates(pool, o) = {} THEN o \o Rest(pool, o) ELSE Append(o, Choice(pool, o, 1))

Built(j, pool, o) ==
  IF j.anchored THEN SelfSigned(pool[Last(o)]) \/ Candidates(pool, o) = {}
  ELSE Len(o) = Len(pool)

-----------------------------------------------------------------------------
(* The verdict on a chain c, a sequence of certificates.                   *)

Linked(c) == {i \in 1 .. Len(c) - 1 : names_equal(c[i].issuer, c[i + 1].subject)}
Signed(c, i) == check_sig(c[i], c[i + 1].key)

(* The certificates between the leaf and its i-th: i - 2 of them.          *)
check_ca_constraint(c, i) ==
  LET issuer == c[i]
      root == i = Len(c) /\ SelfSigned(issuer)
  IN (IF issuer.ca = "no" THEN {"not a CA"}
      ELSE IF issuer.ca = "yes" THEN (IF i - 2 > issuer.pathlen THEN {"path length"} ELSE {})
      ELSE IF root /\ (issuer.v1 \/ issuer.usage = "sign") THEN {} ELSE {"no constraints"})
     \cup (IF issuer.usage = "other" THEN {"key usage"} ELSE {})

InWindow(c, now) == c.from <= now /\ now <= c.to

LinkIssues(c) ==
  {<<i, "name">> : i \in (1 .. Len(c) - 1) \ Linked(c)}
  \cup {<<i, "signature">> : i \in {k \in Linked(c) : Signed(c, k) = "bad"}}
  \cup UNION {{<<i + 1, what>> : what \in check_ca_constraint(c, i + 1)} : i \in Linked(c)}

(* The end of the chain: a root that signs itself or, by its bytes, one of *)
(* the anchors.                                                            *)
(* mistake: with anchors any root will do                                  *)
EndIssues_AnyRoot(j, c) ==
  IF ~SelfSigned(Last(c)) THEN {<<Len(c), "no root">>}
  ELSE IF check_sig(Last(c), Last(c).key) = "bad" THEN {<<Len(c), "signature">>} ELSE {}
EndIssues(j, c) ==
  LET root == Last(c)
      anchor == j.anchored /\ root \in Range(j.anchors)
  IN  IF ~SelfSigned(root) THEN {<<Len(c), "no root">>}
      ELSE (IF ~anchor /\ check_sig(root, root.key) = "bad" THEN {<<Len(c), "signature">>} ELSE {})
           \cup (IF j.anchored /\ ~anchor THEN {<<Len(c), "not an anchor">>} ELSE {})

Unchecked(j, c) ==
  {i \in Linked(c) : Signed(c, i) = "unknown"}
  \cup (IF SelfSigned(Last(c)) /\ ~(j.anchored /\ Last(c) \in Range(j.anchors))
           /\ check_sig(Last(c), Last(c).key) = "unknown" THEN {Len(c)} ELSE {})

verify_single(j, c) ==
  IF ~SelfSigned(c) THEN {<<1, "not self-signed">>}
  ELSE IF ~j.allow THEN {<<1, "self-signed">>}
  ELSE (IF check_sig(c, c.key) = "bad" THEN {<<1, "signature">>} ELSE {})
       \cup (IF InWindow(c, j.now) THEN {} ELSE {<<1, "window">>})

check_chain(j, pool, o) ==
  LET c == [i \in DOMAIN o |-> pool[o[i]]]
      single == Len(c) = 1 /\ ~j.anchored
  IN  [pool |-> pool, order |-> o,
       issues |-> IF single THEN verify_single(j, c[1])
                  ELSE LinkIssues(c) \cup EndIssues(j, c)
                       \cup {<<i, "window">> : i \in {k \in DOMAIN c : ~InWindow(c[k], j.now)}},
       uncertain |-> IF single
                     THEN (IF SelfSigned(c[1]) /\ j.allow /\ check_sig(c[1], c[1].key) = "unknown"
                           THEN {1} ELSE {})
                     ELSE Unchecked(j, c)]

chain_status(r) ==
  CASE r.issues # {} -> "invalid" [] r.issues = {} /\ r.uncertain # {} -> "unverified" [] OTHER -> "valid"

-----------------------------------------------------------------------------
(* A run of the command.                                                   *)

Pool(j, n) == j.sources[n] \o (IF j.anchored THEN j.untrusted \o j.anchors ELSE <<>>)
Here == Pool(job, Len(reports) + 1)
AnchorsFrom == Len(Here) - Len(job.anchors) + 1

(* No certificate in a file, or one that does not parse.                   *)
Unreadable(j) == \E n \in DOMAIN j.sources : j.sources[n] = <<>>
Unparsed(pool) == \E i \in DOMAIN pool : ~pool[i].good

Init == job \in Jobs /\ order = <<>> /\ reports = <<>> /\ exited = "running"

Left ==
  /\ exited = "running" /\ ~Unreadable(job)
  /\ Len(reports) < Len(job.sources) /\ ~Unparsed(Here)

Fail ==
  /\ exited = "running"
  /\ \/ Unreadable(job)
     \/ Len(reports) < Len(job.sources) /\ Unparsed(Here)
  /\ exited' = "2"
  /\ UNCHANGED <<job, order, reports>>

Start ==
  /\ Left /\ order = <<>>
  /\ order' = StartOf(job, Here)
  /\ UNCHANGED <<job, reports, exited>>

Link ==
  /\ Left /\ order # <<>> /\ ~Built(job, Here, order)
  /\ order' = IF job.anchored THEN build_from(Here, order, AnchorsFrom) ELSE assemble_order(Here, order)
  /\ UNCHANGED <<job, reports, exited>>

Judge ==
  /\ Left /\ order # <<>> /\ Built(job, Here, order)
  /\ reports' = Append(reports, check_chain(job, Here, order))
  /\ order' = <<>>
  /\ UNCHANGED <<job, exited>>

Verdicts == {chain_status(reports[n]) : n \in DOMAIN reports}
ExitCode ==
  CASE "invalid" \in Verdicts -> "1"
    [] "invalid" \notin Verdicts /\ "unverified" \in Verdicts -> "2"
    [] OTHER -> "0"

Emit ==
  /\ exited = "running" /\ Len(reports) = Len(job.sources)
  /\ exited' = ExitCode
  /\ UNCHANGED <<job, order, reports>>

Next == Fail \/ Start \/ Link \/ Judge \/ Emit
Spec == Init /\ [][Next]_vars

-----------------------------------------------------------------------------
(* What is promised: an accepted path, written down without the builder.   *)

Issues(issuer, c) == names_equal(c.issuer, issuer.subject) /\ verify_signature(c, issuer.key) = "ok"

MayIssue(p, i) ==
  /\ p[i].usage # "other"
  /\ \/ p[i].ca = "yes" /\ i - 2 <= p[i].pathlen
     \/ p[i].ca = "none" /\ SelfSigned(p[i]) /\ i = Len(p) /\ (p[i].v1 \/ p[i].usage = "sign")

Accepted(j, p) ==
  /\ \A i \in 1 .. Len(p) - 1 : Issues(p[i + 1], p[i])
  /\ \A i \in 2 .. Len(p) : MayIssue(p, i)
  /\ \A i \in DOMAIN p : InWindow(p[i], j.now)
  /\ SelfSigned(Last(p))
  /\ IF j.anchored THEN Last(p) \in Range(j.anchors) ELSE Issues(Last(p), Last(p))

Injections(n, S) == {s \in [1 .. n -> S] : \A i, k \in 1 .. n : i # k => s[i] # s[k]}
PathsOf(j, pool) ==
  LET all == DOMAIN pool
      picks == IF j.anchored
               THEN {<<1>> \o s : s \in UNION {Injections(n, all \ {1}) : n \in 0 .. Len(pool) - 1}}
               ELSE Injections(Len(pool), all)
  IN  {[i \in DOMAIN s |-> pool[s[i]]] : s \in picks}
HasPath(j, pool) == \E p \in PathsOf(j, pool) : Accepted(j, p)

(* Two ways on from one certificate, or a way on from a self-issued one to *)
(* another (an authority that changes its key): where the builder may go   *)
(* wrong.  Copies of one certificate are one way.                          *)
Fork(pool) ==
  \E i \in DOMAIN pool :
    \E k \in DOMAIN pool \ {i} :
      /\ Issues(pool[k], pool[i])
      /\ \/ SelfSigned(pool[i]) /\ pool[k] # pool[i]
         \/ \E l \in DOMAIN pool \ {i} : pool[l] # pool[k] /\ Issues(pool[l], pool[i])

(* Everybody's name is also that of an issuer: nothing tells the leaf of a *)
(* bundle, and it is left in the order of its file.                        *)
Ring(pool) ==
  \A i \in DOMAIN pool : \E k \in DOMAIN pool \ {i} : names_equal(pool[k].issuer, pool[i].subject)

(* A chain called valid is a chain: the certificates lead, each signed by  *)
(* the next within its powers and its time, from the one to verify to a    *)
(* root (an anchor where there are anchors), and exit 0 says so of every   *)
(* source (src/cert/verify_chain.rs, check_chain and run).                 *)
ValidIsReal ==
  /\ \A n \in DOMAIN reports :
       chain_status(reports[n]) = "valid" => HasPath(job, reports[n].pool)
  /\ exited = "0" => \A n \in DOMAIN job.sources : HasPath(job, Pool(job, n))

(* The builder takes no link back and still loses a chain only where two   *)
(* authorities could have issued a certificate, or no name is the leaf's   *)
(* alone (build_from, assemble_order): everywhere else a chain that exists *)
(* is found valid.                                                         *)
Promised(j, pool) == HasPath(j, pool) /\ ~Fork(pool) /\ (j.anchored \/ ~Ring(pool))
LosesOnlyAtForks ==
  \A n \in DOMAIN reports :
    LET r == reports[n]
    IN  Promised(job, r.pool) => chain_status(r) = "valid" \/ (Len(r.pool) = 1 /\ ~job.allow)
=============================================================================
