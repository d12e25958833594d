---------------------------- MODULE CertChainProofs ----------------------------
(***************************************************************************)
(* What verify-chain calls valid is a chain, of every pool of certificates,*)
(* and where nothing forks a chain that exists is called valid.            *)
(***************************************************************************)
EXTENDS CertChain, NumbersProofs

(* A path through the pool that takes no certificate twice.                *)
IsPath(o, pool) ==
  /\ o \in Seq(DOMAIN pool) /\ o # <<>>
  /\ \A i, k \in DOMAIN o : o[i] = o[k] => i = k

(* The chain under construction starts where the job says; what was judged *)
(* was judged over its own source's pool.                                  *)
ChainInv ==
  /\ job \in Jobs
  /\ \E S : reports \in Seq(S)
  /\ Len(reports) <= Len(job.sources)
  /\ \A n \in DOMAIN reports : reports[n].pool = Pool(job, n)
  /\ order # <<>> =>
       /\ Len(reports) < Len(job.sources) /\ ~Unreadable(job)
       /\ IsPath(order, Here) /\ (job.anchored => order[1] = 1)
  /\ exited = "0" => /\ Len(reports) = Len(job.sources)
                     /\ \A n \in DOMAIN reports : chain_status(reports[n]) = "valid"

Sound == \A n \in DOMAIN reports : chain_status(reports[n]) = "valid" => HasPath(job, reports[n].pool)

-----------------------------------------------------------------------------
(* Sequences and paths.                                                    *)

LEMMA Appended ==
  ASSUME NEW S, NEW s \in Seq(S), NEW e
  PROVE  /\ Append(s, e) \in Seq(S \cup {e}) /\ Len(Append(s, e)) = Len(s) + 1 /\ Len(s) \in Nat
         /\ DOMAIN s = 1 .. Len(s) /\ DOMAIN Append(s, e) = 1 .. Len(s) + 1
         /\ \A i \in 1 .. Len(s) : Append(s, e)[i] = s[i]
         /\ Append(s, e)[Len(s) + 1] = e
  <1>1. s \in Seq(S \cup {e}) /\ e \in S \cup {e}
    OBVIOUS
  <1> QED BY <1>1

LEMMA Joined ==
  ASSUME NEW S, NEW s \in Seq(S), NEW t \in Seq(S)
  PROVE  /\ s \o t \in Seq(S) /\ Len(s \o t) = Len(s) + Len(t)
         /\ DOMAIN (s \o t) = 1 .. Len(s) + Len(t)
         /\ \A i \in 1 .. Len(s) : (s \o t)[i] = s[i]
         /\ \A i \in Len(s) + 1 .. Len(s) + Len(t) : (s \o t)[i] = t[i - Len(s)] /\ i - Len(s) \in 1 .. Len(t)
  OBVIOUS

LEMMA SameSeq ==
  ASSUME NEW S, NEW s \in Seq(S), NEW t \in Seq(S), Len(s) = Len(t), \A i \in 1 .. Len(s) : s[i] = t[i]
  PROVE  s = t
  OBVIOUS

(* The pool of a source that can be read has a first certificate.          *)
LEMMA PoolIsSeq ==
  ASSUME NEW j \in Jobs, NEW n \in DOMAIN j.sources, ~Unreadable(j)
  PROVE  Pool(j, n) \in Seq(Certificate) /\ Len(Pool(j, n)) \in Nat \ {0}
         /\ DOMAIN Pool(j, n) = 1 .. Len(Pool(j, n))
  <1>1. j.sources[n] \in Seq(Certificate) /\ j.untrusted \in Seq(Certificate) /\ j.anchors \in Seq(Certificate)
    BY JobsAssumption
  <1>2. j.sources[n] # <<>>
    BY DEF Unreadable
  <1> DEFINE extra == IF j.anchored THEN j.untrusted \o j.anchors ELSE <<>>
  <1>3. extra \in Seq(Certificate)
    BY <1>1
  <1>4. Pool(j, n) = j.sources[n] \o extra
    BY DEF Pool
  <1>5. Len(j.sources[n]) \in Nat \ {0} /\ Len(extra) \in Nat
    <2> HIDE DEF extra
    <2> QED BY <1>1, <1>2, <1>3
  <1> HIDE DEF extra
  <1> QED BY <1>1, <1>3, <1>4, <1>5

LEMMA PathGrows ==
  ASSUME NEW pool, NEW o, IsPath(o, pool), NEW i \in DOMAIN pool, i \notin Range(o)
  PROVE  IsPath(Append(o, i), pool) /\ Append(o, i)[1] = o[1]
  <1>1. o \in Seq(DOMAIN pool) /\ o # <<>> /\ \A k \in DOMAIN o : o[k] # i
    BY DEF IsPath, Range
  <1>2. /\ Append(o, i) \in Seq(DOMAIN pool) /\ Len(Append(o, i)) = Len(o) + 1 /\ Len(o) \in Nat \ {0}
        /\ DOMAIN o = 1 .. Len(o) /\ DOMAIN Append(o, i) = 1 .. Len(o) + 1
        /\ \A k \in 1 .. Len(o) : Append(o, i)[k] = o[k]
        /\ Append(o, i)[Len(o) + 1] = i
    BY <1>1
  <1>3. \A k, l \in DOMAIN Append(o, i) : Append(o, i)[k] = Append(o, i)[l] => k = l
    BY <1>1, <1>2 DEF IsPath
  <1>4. Append(o, i) # <<>> /\ Append(o, i)[1] = o[1]
    BY <1>2
  <1> QED BY <1>2, <1>3, <1>4 DEF IsPath

(* Something is earliest, wherever the walk starts.                        *)
LEMMA EarliestIsOne ==
  ASSUME NEW S, S \subseteq Nat, S # {}, NEW first \in Int
  PROVE  Earliest(S, first) \in S
  <1> DEFINE late == {i \in S : i >= first}
  <1>1. \E i \in S : \A j \in S \ {i} : Before(i, j, first)
    <2>1. CASE late # {}
      <3>1. PICK i \in late : \A j \in late : i <= j
        BY <2>1, LeastNumber
      <3> QED BY <3>1 DEF Before
    <2>2. CASE late = {}
      <3>1. PICK i \in S : \A j \in S : i <= j
        BY LeastNumber
      <3> QED BY <2>2, <3>1 DEF Before
    <2> QED BY <2>1, <2>2
  <1> QED BY <1>1 DEF Earliest

LEMMA ChoiceIsCandidate ==
  ASSUME NEW pool \in Seq(Certificate), NEW o, NEW first \in Int, Candidates(pool, o) # {}
  PROVE  Choice(pool, o, first) \in DOMAIN pool /\ Choice(pool, o, first) \notin Range(o)
  <1> DEFINE cands == Candidates(pool, o)
             keyed == {i \in cands : verify_signature(pool[Last(o)], pool[i].key) = "ok"}
             from == IF keyed # {} THEN keyed ELSE cands
  <1>1. from \subseteq cands /\ from # {} /\ cands \subseteq DOMAIN pool /\ DOMAIN pool \subseteq Nat
    BY DEF Candidates
  <1>2. Choice(pool, o, first) = Earliest(from, first)
    BY DEF Choice
  <1>3. \A i \in cands : i \in DOMAIN pool /\ i \notin Range(o)
    BY DEF Candidates
  <1> HIDE DEF from, cands
  <1> QED BY <1>1, <1>2, <1>3, EarliestIsOne

-----------------------------------------------------------------------------
(* The builder keeps to paths.                                             *)

(* What is left over is each certificate left, once.                       *)
LEMMA RestGrows ==
  ASSUME NEW pool \in Seq(Certificate), NEW o, IsPath(o, pool), Candidates(pool, o) = {}
  PROVE  IsPath(assemble_order(pool, o), pool) /\ assemble_order(pool, o)[1] = o[1]
  <1> DEFINE left == DOMAIN pool \ Range(o)
             rest == Ascending(left)
             all == o \o rest
  <1>1. DOMAIN pool = 1 .. Len(pool) /\ Len(pool) \in Nat
    OBVIOUS
  <1>2. IsFiniteSet(left) /\ left \subseteq Nat
    <2>1. IsFiniteSet(1 .. Len(pool))
      BY <1>1, FS_Interval
    <2> QED BY <1>1, <2>1, FS_Subset
  <1>3. /\ rest \in Seq(left) /\ Len(rest) = Cardinality(left) /\ Cardinality(left) \in Nat
        /\ \A k, l \in 1 .. Len(rest) : k < l => rest[k] < rest[l]
    <2> HIDE DEF left
    <2> QED BY <1>2, AscendingIsSorted
  <1>4. o \in Seq(DOMAIN pool) /\ Len(o) \in Nat \ {0} /\ DOMAIN o = 1 .. Len(o)
    BY DEF IsPath
  <1>5. rest \in Seq(DOMAIN pool) /\ \A k \in 1 .. Len(rest) : rest[k] \in left /\ rest[k] \in Int
    <2>1. \A x \in left : x \in DOMAIN pool /\ x \in Int
      BY <1>1
    <2> HIDE DEF left, rest
    <2> QED BY <1>3, <2>1
  <1>6. \A i \in 1 .. Len(o) : o[i] \notin left
    BY <1>4 DEF Range
  <1> HIDE DEF left, rest
  <1>7. /\ all \in Seq(DOMAIN pool) /\ Len(all) = Len(o) + Len(rest) /\ DOMAIN all = 1 .. Len(o) + Len(rest)
        /\ \A i \in 1 .. Len(o) : all[i] = o[i]
        /\ \A i \in Len(o) + 1 .. Len(o) + Len(rest) : all[i] = rest[i - Len(o)] /\ i - Len(o) \in 1 .. Len(rest)
    BY <1>4, <1>5, Joined
  <1>8. ASSUME NEW i \in DOMAIN all, NEW k \in DOMAIN all, all[i] = all[k]
        PROVE  i = k
    <2>1. i \in 1 .. Len(o) \/ i \in Len(o) + 1 .. Len(o) + Len(rest)
      BY <1>3, <1>4, <1>7
    <2>2. k \in 1 .. Len(o) \/ k \in Len(o) + 1 .. Len(o) + Len(rest)
      BY <1>3, <1>4, <1>7
    <2> HIDE DEF all
    <2>3. CASE i \in 1 .. Len(o) /\ k \in 1 .. Len(o)
      BY <1>4, <1>7, <1>8, <2>3 DEF IsPath
    <2>4. CASE i \in Len(o) + 1 .. Len(o) + Len(rest) /\ k \in Len(o) + 1 .. Len(o) + Len(rest)
      <3>1. /\ i - Len(o) \in 1 .. Len(rest) /\ k - Len(o) \in 1 .. Len(rest)
            /\ rest[i - Len(o)] = rest[k - Len(o)] /\ rest[i - Len(o)] \in Int
        BY <1>5, <1>7, <1>8, <2>4
      <3>2. ~(i - Len(o) < k - Len(o)) /\ ~(k - Len(o) < i - Len(o))
        BY <1>3, <3>1
      <3> QED BY <1>3, <1>4, <2>4, <3>2
    <2>5. ASSUME NEW a \in 1 .. Len(o), NEW b \in Len(o) + 1 .. Len(o) + Len(rest)
          PROVE  all[a] # all[b]
      BY <1>5, <1>6, <1>7
    <2> QED BY <1>8, <2>1, <2>2, <2>3, <2>4, <2>5
  <1>9. all # <<>> /\ all[1] = o[1]
    BY <1>3, <1>4, <1>7
  <1>10. assemble_order(pool, o) = all
    BY DEF assemble_order, Rest, rest, left
  <1> QED BY <1>7, <1>8, <1>9, <1>10 DEF IsPath

LEMMA StartIsPath ==
  ASSUME NEW j, NEW pool \in Seq(Certificate), pool # <<>>
  PROVE  IsPath(StartOf(j, pool), pool) /\ (j.anchored => StartOf(j, pool)[1] = 1)
  <1>1. DOMAIN pool = 1 .. Len(pool) /\ Len(pool) \in Nat \ {0}
    OBVIOUS
  <1>2. ASSUME NEW i \in DOMAIN pool
        PROVE  IsPath(<<i>>, pool)
    BY <1>1 DEF IsPath
  <1>3. IsPath(FileOrder(pool), pool)
    <2>1. FileOrder(pool) \in Seq(DOMAIN pool) /\ DOMAIN FileOrder(pool) = DOMAIN pool
      BY <1>1 DEF FileOrder
    <2>2. \A i \in DOMAIN pool : FileOrder(pool)[i] = i
      BY DEF FileOrder
    <2>3. FileOrder(pool) # <<>>
      BY <1>1, <2>1
    <2> QED BY <2>1, <2>2, <2>3 DEF IsPath
  <1>4. CASE j.anchored
    BY <1>1, <1>2, <1>4 DEF StartOf
  <1>5. CASE ~j.anchored /\ Len(pool) > 1 /\ Cardinality(Leaves(pool)) = 1
    <2>1. Leaves(pool) # {} /\ \A i \in Leaves(pool) : i \in DOMAIN pool
      <3>1. Cardinality({}) = 0
        BY FS_EmptySet
      <3>2. ASSUME Leaves(pool) = {} PROVE FALSE
        <4>1. Cardinality(Leaves(pool)) = 0
          BY <3>1, <3>2
        <4>2. 0 # 1
          OBVIOUS
        <4> QED BY <1>5, <4>1, <4>2, Zenon
      <3> QED BY <3>2 DEF Leaves
    <2>2. (CHOOSE i \in Leaves(pool) : TRUE) \in DOMAIN pool
      BY <2>1
    <2>3. StartOf(j, pool) = <<CHOOSE i \in Leaves(pool) : TRUE>>
      BY <1>5 DEF StartOf
    <2> QED BY <1>2, <1>5, <2>2, <2>3
  <1>6. CASE ~j.anchored /\ ~(Len(pool) > 1 /\ Cardinality(Leaves(pool)) = 1)
    BY <1>3, <1>6 DEF StartOf
  <1> QED BY <1>4, <1>5, <1>6

LEMMA LinkGrows ==
  ASSUME NEW pool \in Seq(Certificate), NEW o, IsPath(o, pool), NEW first \in Int
  PROVE  /\ Candidates(pool, o) # {} =>
              IsPath(build_from(pool, o, first), pool) /\ build_from(pool, o, first)[1] = o[1]
         /\ IsPath(assemble_order(pool, o), pool) /\ assemble_order(pool, o)[1] = o[1]
  <1>1. ASSUME NEW f \in Int, Candidates(pool, o) # {}
        PROVE  IsPath(Append(o, Choice(pool, o, f)), pool) /\ Append(o, Choice(pool, o, f))[1] = o[1]
    BY <1>1, ChoiceIsCandidate, PathGrows
  <1>2. CASE Candidates(pool, o) # {}
    BY <1>1, <1>2 DEF build_from, assemble_order
  <1>3. CASE Candidates(pool, o) = {}
    BY <1>3, RestGrows
  <1> QED BY <1>2, <1>3

-----------------------------------------------------------------------------
(* What the judge accepts.                                                 *)

(* The certificates of a path, as the judge reads them.                    *)
Read(pool, o) == [i \in DOMAIN o |-> pool[o[i]]]

LEMMA GoodIsVerified ==
  ASSUME NEW c, NEW key, check_sig(c, key) # "bad", check_sig(c, key) # "unknown"
  PROVE  verify_signature(c, key) = "ok"
  BY DEF check_sig

LEMMA MayIssueByConstraint ==
  ASSUME NEW p \in Seq(Certificate), NEW i \in 2 .. Len(p), check_ca_constraint(p, i) = {}
  PROVE  MayIssue(p, i)
  <1>1. p[i] \in Certificate /\ p[i].ca \in {"yes", "no", "none"} /\ p[i].pathlen \in Nat
    <2>1. p[i] \in Certificate
      OBVIOUS
    <2> QED BY <2>1 DEF Certificate
  <1>2. p[i].usage # "other" /\ p[i].ca # "no"
    BY DEF check_ca_constraint
  <1>3. CASE p[i].ca = "yes"
    <2>1. ~(i - 2 > p[i].pathlen)
      BY <1>3 DEF check_ca_constraint
    <2> QED BY <1>1, <1>2, <1>3, <2>1 DEF MayIssue
  <1>4. CASE p[i].ca = "none"
    <2>1. i = Len(p) /\ SelfSigned(p[i]) /\ (p[i].v1 \/ p[i].usage = "sign")
      BY <1>4 DEF check_ca_constraint
    <2> QED BY <1>2, <1>4, <2>1 DEF MayIssue
  <1> QED BY <1>1, <1>2, <1>3, <1>4

(* No issue and nothing unchecked: the chain is one the promise accepts.   *)
LEMMA ValidIsAccepted ==
  ASSUME NEW j, NEW pool \in Seq(Certificate), NEW o, IsPath(o, pool),
         chain_status(check_chain(j, pool, o)) = "valid"
  PROVE  Accepted(j, Read(pool, o))
  <1> DEFINE c == Read(pool, o)
             r == check_chain(j, pool, o)
             single == Len(c) = 1 /\ ~j.anchored
  <1>1. c \in Seq(Certificate) /\ Len(c) = Len(o) /\ Len(c) \in Nat \ {0} /\ DOMAIN c = 1 .. Len(c)
    BY SMTT(30) DEF Read, IsPath
  <1>2. r.issues = {} /\ r.uncertain = {}
    <2> HIDE DEF r
    <2> QED BY DEF chain_status, r
  <1>3. Last(c) = c[Len(c)]
    BY DEF Last
  <1>4. CASE single
    <2>1. r.issues = verify_single(j, c[1])
          /\ r.uncertain = IF SelfSigned(c[1]) /\ j.allow /\ check_sig(c[1], c[1].key) = "unknown" THEN {1} ELSE {}
      BY <1>4 DEF check_chain, Read
    <2>2. SelfSigned(c[1]) /\ j.allow /\ check_sig(c[1], c[1].key) # "bad" /\ InWindow(c[1], j.now)
      BY <1>2, <2>1 DEF verify_single
    <2>3. check_sig(c[1], c[1].key) # "unknown"
      BY <1>2, <2>1, <2>2
    <2>4. Issues(c[1], c[1])
      BY <2>2, <2>3, GoodIsVerified DEF Issues, SelfSigned, names_equal
    <2> HIDE DEF c
    <2>5. DOMAIN c = {1} /\ 1 .. Len(c) - 1 = {} /\ 2 .. Len(c) = {} /\ Last(c) = c[1]
      BY <1>1, <1>3, <1>4
    <2> QED BY <1>4, <2>2, <2>4, <2>5 DEF Accepted, c
  <1>5. CASE ~single
    <2>1. /\ r.issues = LinkIssues(c) \cup EndIssues(j, c)
                        \cup {<<i, "window">> : i \in {k \in DOMAIN c : ~InWindow(c[k], j.now)}}
          /\ r.uncertain = Unchecked(j, c)
      BY <1>5 DEF check_chain, Read
    <2> HIDE DEF c, r
    <2>2. LinkIssues(c) = {} /\ EndIssues(j, c) = {} /\ Unchecked(j, c) = {}
          /\ \A i \in DOMAIN c : InWindow(c[i], j.now)
      BY <1>2, <2>1
    <2>3. ASSUME NEW i \in 1 .. Len(c) - 1
          PROVE  i \in Linked(c) /\ Signed(c, i) # "bad" /\ check_ca_constraint(c, i + 1) = {}
                 /\ Signed(c, i) # "unknown"
      <3>1. i \in Linked(c)
        <4>1. i \notin Linked(c) => <<i, "name">> \in LinkIssues(c)
          BY DEF LinkIssues
        <4> QED BY <2>2, <4>1
      <3>2. Signed(c, i) # "bad"
        <4>1. Signed(c, i) = "bad" => <<i, "signature">> \in LinkIssues(c)
          BY <3>1 DEF LinkIssues
        <4> QED BY <2>2, <4>1
      <3>3. check_ca_constraint(c, i + 1) = {}
        <4>1. ASSUME NEW what \in check_ca_constraint(c, i + 1)
              PROVE  <<i + 1, what>> \in LinkIssues(c)
          BY <3>1 DEF LinkIssues
        <4> QED BY <2>2, <4>1
      <3>4. Signed(c, i) # "unknown"
        BY <2>2, <3>1 DEF Unchecked
      <3> QED BY <3>1, <3>2, <3>3, <3>4
    <2>4. \A i \in 1 .. Len(c) - 1 : Issues(c[i + 1], c[i])
      BY <2>3, GoodIsVerified DEF Linked, Signed, Issues
    <2>5. ASSUME NEW i \in 2 .. Len(c)
          PROVE  MayIssue(c, i)
      <3>1. i - 1 \in 1 .. Len(c) - 1 /\ i - 1 + 1 = i
        BY <1>1
      <3>2. check_ca_constraint(c, i) = {}
        BY <2>3, <3>1
      <3> QED BY <1>1, <3>2, MayIssueByConstraint
    <2>6. SelfSigned(Last(c))
      BY <2>2 DEF EndIssues
    <2>7. CASE j.anchored
      <3>1. Last(c) \in Range(j.anchors)
        BY <2>2, <2>6, <2>7 DEF EndIssues
      <3> QED BY <2>2, <2>4, <2>5, <2>6, <2>7, <3>1, Zenon DEF Accepted, c
    <2>8. CASE ~j.anchored
      <3>1. check_sig(Last(c), Last(c).key) # "bad"
        BY <2>2, <2>6, <2>8 DEF EndIssues
      <3>2. check_sig(Last(c), Last(c).key) # "unknown"
        BY <2>2, <2>6, <2>8 DEF Unchecked
      <3>3. Issues(Last(c), Last(c))
        BY <2>6, <3>1, <3>2, GoodIsVerified DEF Issues, SelfSigned, names_equal
      <3> QED BY <2>2, <2>4, <2>5, <2>6, <2>8, <3>3 DEF Accepted, c
    <2> QED BY <2>7, <2>8
  <1> QED BY <1>4, <1>5

(* What the judge reads is a path the promise speaks of.                   *)
LEMMA ReadIsPath ==
  ASSUME NEW j, NEW pool \in Seq(Certificate), NEW o, IsPath(o, pool),
         j.anchored => o[1] = 1, ~j.anchored => Len(o) = Len(pool)
  PROVE  Read(pool, o) \in PathsOf(j, pool)
  <1> DEFINE all == DOMAIN pool
             picks == IF j.anchored
                      THEN {<<1>> \o s : s \in UNION {Injections(n, all \ {1}) : n \in 0 .. Len(pool) - 1}}
                      ELSE Injections(Len(pool), all)
  <1>1. o \in Seq(all) /\ Len(o) \in Nat \ {0} /\ DOMAIN o = 1 .. Len(o)
        /\ o \in [1 .. Len(o) -> all] /\ \A i, k \in 1 .. Len(o) : i # k => o[i] # o[k]
    <2>1. o \in Seq(all) /\ o # <<>>
      BY DEF IsPath
    <2> HIDE DEF all, picks
    <2>2. Len(o) \in Nat \ {0} /\ DOMAIN o = 1 .. Len(o) /\ o \in [1 .. Len(o) -> all]
      BY <2>1
    <2> QED BY <2>1, <2>2 DEF IsPath
  <1>2. all = 1 .. Len(pool) /\ Len(pool) \in Nat /\ IsFiniteSet(all) /\ Cardinality(all) = Len(pool)
    <2>1. all = 1 .. Len(pool) /\ Len(pool) \in Nat
      OBVIOUS
    <2>2. IsFiniteSet(1 .. Len(pool)) /\ Cardinality(1 .. Len(pool)) = Len(pool)
      <3>1. 1 \in Int /\ Len(pool) \in Int /\ Len(pool) - 1 + 1 = Len(pool)
        BY <2>1
      <3> HIDE DEF all, picks
      <3> QED BY <2>1, FS_Interval, SMTT(30)
    <2> QED BY <2>1, <2>2
  <1>3. CASE ~j.anchored
    <2>1. o \in Injections(Len(pool), all)
      BY <1>1, <1>3 DEF Injections
    <2> QED BY <1>3, <2>1 DEF PathsOf, Read
  <1>4. CASE j.anchored
    <2> DEFINE n == Len(o) - 1
               s == [i \in 1 .. n |-> o[i + 1]]
    <2>1. n \in Nat /\ Len(o) = n + 1
      BY <1>1
    <2>2. \A i \in 1 .. n : i + 1 \in 1 .. Len(o) /\ o[i + 1] \in all \ {1}
      <3> SUFFICES ASSUME NEW i \in 1 .. n PROVE i + 1 \in 1 .. Len(o) /\ o[i + 1] \in all \ {1}
        OBVIOUS
      <3>1. i + 1 \in 1 .. Len(o) /\ 1 \in 1 .. Len(o) /\ i + 1 # 1
        BY <2>1
      <3>2. o[i + 1] # o[1] /\ o[i + 1] \in all
        BY <1>1, <3>1
      <3> QED BY <1>4, <3>1, <3>2
    <2>3. s \in [1 .. n -> all \ {1}] /\ \A i, k \in 1 .. n : i # k => s[i] # s[k]
      <3>1. s \in [1 .. n -> all \ {1}]
        BY <2>2
      <3>2. ASSUME NEW i \in 1 .. n, NEW k \in 1 .. n, i # k PROVE s[i] # s[k]
        <4>1. i + 1 \in 1 .. Len(o) /\ k + 1 \in 1 .. Len(o) /\ i + 1 # k + 1
          BY <2>1, <3>2
        <4>2. o[i + 1] # o[k + 1]
          BY <1>1, <4>1
        <4> QED BY <4>2
      <3> QED BY <3>1, <3>2
    <2>4. s \in Injections(n, all \ {1})
      BY <2>3 DEF Injections
    <2>5. n <= Len(pool) - 1
      <3>1. IsFiniteSet(1 .. Len(o)) /\ Cardinality(1 .. Len(o)) = Len(o)
        BY <1>1, FS_Interval
      <3> HIDE DEF all
      <3>3. o \in Injection(1 .. Len(o), all)
        BY <1>1 DEF Injection, IsInjective
      <3>4. Len(o) <= Len(pool)
        BY <1>2, <3>1, <3>3, FS_Injection
      <3>5. Len(o) \in Int /\ Len(pool) \in Int
        BY <1>1, <1>2, SMTT(30)
      <3> HIDE DEF picks
      <3> QED BY <3>4, <3>5
    <2>6. o = <<1>> \o s
      <3>1. s \in Seq(all) /\ Len(s) = n
        <4>1. s \in [1 .. n -> all]
          BY <2>3
        <4> HIDE DEF s, n
        <4> QED BY <2>1, <4>1
      <3>2. 1 \in all
        BY <1>1, <1>4
      <3> HIDE DEF s, n
      <3>3. /\ <<1>> \o s \in Seq(all) /\ Len(<<1>> \o s) = Len(o) /\ (<<1>> \o s)[1] = o[1]
            /\ \A i \in 2 .. Len(o) : (<<1>> \o s)[i] = s[i - 1]
        BY <1>1, <1>4, <2>1, <3>1, <3>2
      <3>4. \A i \in 2 .. Len(o) : s[i - 1] = o[i]
        BY <1>1, <2>1 DEF s, n
      <3>5. \A i \in 1 .. Len(o) : (<<1>> \o s)[i] = o[i]
        BY <1>1, <3>3, <3>4, SMTT(30)
      <3> HIDE DEF all, picks
      <3> QED BY <1>1, <3>3, <3>5, SameSeq
    <2>7. o \in picks
      <3>1. n \in 0 .. Len(pool) - 1
        <4>1. n \in Int /\ Len(pool) \in Int /\ 0 <= n
          <5> HIDE DEF n, all, picks, s
          <5> QED BY <1>2, <2>1
        <4> HIDE DEF n, all, picks, s
        <4> QED BY <2>5, <4>1
      <3> HIDE DEF s, n, all
      <3> QED BY <1>4, <2>4, <2>6, <3>1
    <2> QED BY <2>7 DEF PathsOf, Read
  <1> QED BY <1>3, <1>4

(* A certificate that signs itself, or one without an issuer, ends a chain *)
(* with anchors; without them the chain takes every certificate.           *)
LEMMA ValidHasPath ==
  ASSUME NEW j, NEW pool \in Seq(Certificate), NEW o, IsPath(o, pool),
         j.anchored => o[1] = 1, Built(j, pool, o),
         chain_status(check_chain(j, pool, o)) = "valid"
  PROVE  HasPath(j, pool)
  <1>1. ~j.anchored => Len(o) = Len(pool)
    BY DEF Built
  <1> QED BY <1>1, ReadIsPath, ValidIsAccepted DEF HasPath

-----------------------------------------------------------------------------
(* The run of the command.                                                 *)

LEMMA ChainStarts ==
  ASSUME Init
  PROVE  ChainInv /\ Sound
  <1>1. reports = <<>> /\ reports \in Seq({}) /\ Len(reports) = 0 /\ DOMAIN reports = {}
    BY DEF Init
  <1>2. job \in Jobs /\ order = <<>> /\ exited = "running"
    BY DEF Init
  <1>3. Len(job.sources) \in Nat
    BY <1>2, JobsAssumption
  <1>4. Len(reports) <= Len(job.sources)
    BY <1>1, <1>3
  <1> QED BY <1>1, <1>2, <1>4, Zenon DEF ChainInv, Sound

(* The source the command is at, when there is one left.                   *)
LEMMA HereIsSeq ==
  ASSUME ChainInv, Left
  PROVE  /\ Len(reports) + 1 \in DOMAIN job.sources /\ Here = Pool(job, Len(reports) + 1)
         /\ Here \in Seq(Certificate) /\ Here # <<>> /\ AnchorsFrom \in Int
  <1>1. job \in Jobs /\ job.sources \in Seq(Seq(Certificate)) /\ job.anchors \in Seq(Certificate)
    BY JobsAssumption DEF ChainInv
  <1>2. Len(reports) \in Nat
    BY DEF ChainInv
  <1>3. Len(reports) + 1 \in DOMAIN job.sources
    BY <1>1, <1>2 DEF Left
  <1>4. Here \in Seq(Certificate) /\ Len(Here) \in Nat \ {0}
    BY <1>1, <1>3, PoolIsSeq DEF Here, Left
  <1>5. Here # <<>>
    BY <1>4
  <1>6. AnchorsFrom \in Int
    BY <1>1, <1>4 DEF AnchorsFrom
  <1> QED BY <1>3, <1>4, <1>5, <1>6 DEF Here

LEMMA StartKeeps ==
  ASSUME ChainInv, Sound, Start
  PROVE  ChainInv' /\ Sound'
  <1>1. Left /\ order' = StartOf(job, Here) /\ job' = job /\ reports' = reports /\ exited' = exited
    BY DEF Start
  <1>2. Here' = Here
    BY <1>1 DEF Here, Pool
  <1>3. IsPath(order', Here') /\ (job.anchored => order'[1] = 1)
    BY <1>1, <1>2, HereIsSeq, StartIsPath
  <1>4. Len(reports) < Len(job.sources) /\ ~Unreadable(job)
    BY <1>1 DEF Left
  <1>5. ChainInv'
    BY <1>1, <1>3, <1>4 DEF ChainInv, Pool, Unreadable
  <1>6. Sound'
    BY <1>1 DEF Sound
  <1> QED BY <1>5, <1>6

LEMMA LinkKeeps ==
  ASSUME ChainInv, Sound, Link
  PROVE  ChainInv' /\ Sound'
  <1>1. /\ Left /\ order # <<>> /\ ~Built(job, Here, order)
        /\ job' = job /\ reports' = reports /\ exited' = exited
    BY DEF Link
  <1>2. Here' = Here
    BY <1>1 DEF Here, Pool
  <1>3. IsPath(order, Here) /\ (job.anchored => order[1] = 1)
    BY <1>1 DEF ChainInv
  <1>4. Here \in Seq(Certificate) /\ AnchorsFrom \in Int
    BY <1>1, HereIsSeq
  <1>5. job.anchored => IsPath(order', Here) /\ order'[1] = 1
    <2> SUFFICES ASSUME job.anchored PROVE IsPath(order', Here) /\ order'[1] = 1
      OBVIOUS
    <2>1. order' = build_from(Here, order, AnchorsFrom) /\ Candidates(Here, order) # {}
      BY <1>1 DEF Link, Built
    <2> QED BY <1>3, <1>4, <2>1, LinkGrows
  <1>6. ~job.anchored => IsPath(order', Here)
    <2> SUFFICES ASSUME ~job.anchored PROVE IsPath(order', Here)
      OBVIOUS
    <2>1. order' = assemble_order(Here, order)
      BY DEF Link
    <2> QED BY <1>3, <1>4, <2>1, LinkGrows
  <1>7. IsPath(order', Here') /\ (job.anchored => order'[1] = 1)
    BY <1>2, <1>5, <1>6
  <1>8. Len(reports) < Len(job.sources) /\ ~Unreadable(job)
    BY <1>1 DEF Left
  <1>9. ChainInv'
    BY <1>1, <1>7, <1>8 DEF ChainInv, Pool, Unreadable
  <1>10. Sound'
    BY <1>1 DEF Sound
  <1> QED BY <1>9, <1>10

LEMMA JudgeKeeps ==
  ASSUME ChainInv, Sound, Judge
  PROVE  ChainInv' /\ Sound'
  <1> DEFINE r == check_chain(job, Here, order)
  <1>1. /\ Left /\ order # <<>> /\ Built(job, Here, order)
        /\ job' = job /\ exited' = exited /\ order' = <<>> /\ reports' = Append(reports, r)
    BY DEF Judge
  <1>2. IsPath(order, Here) /\ (job.anchored => order[1] = 1)
    BY <1>1 DEF ChainInv
  <1>3. Here \in Seq(Certificate) /\ Here = Pool(job, Len(reports) + 1)
    BY <1>1, HereIsSeq
  <1>4. r.pool = Here
    BY DEF check_chain
  <1>5. chain_status(r) = "valid" => HasPath(job, Here)
    BY <1>1, <1>2, <1>3, ValidHasPath
  <1> HIDE DEF r
  <1>6. PICK S : reports \in Seq(S)
    BY DEF ChainInv
  <1>7. /\ reports' \in Seq(S \cup {r}) /\ Len(reports') = Len(reports) + 1 /\ Len(reports) \in Nat
        /\ DOMAIN reports = 1 .. Len(reports) /\ DOMAIN reports' = 1 .. Len(reports) + 1
        /\ \A n \in 1 .. Len(reports) : reports'[n] = reports[n]
        /\ reports'[Len(reports) + 1] = r
    BY <1>1, <1>6, Appended
  <1>8. \A n \in DOMAIN reports' : \/ n \in DOMAIN reports /\ reports'[n] = reports[n]
                                   \/ n = Len(reports) + 1 /\ reports'[n] = r
    BY <1>7
  <1>9. \A n \in DOMAIN reports' : reports'[n].pool = Pool(job', n)
    BY <1>1, <1>3, <1>4, <1>8 DEF ChainInv
  <1>10. Len(reports') <= Len(job'.sources)
    <2>1. Len(job.sources) \in Nat
      BY JobsAssumption DEF ChainInv
    <2> QED BY <1>1, <1>7, <2>1 DEF Left
  <1>11. \E T : reports' \in Seq(T)
    BY <1>7
  <1>12. exited' # "0"
    BY <1>1 DEF Left
  <1>13. ChainInv'
    BY <1>1, <1>9, <1>10, <1>11, <1>12 DEF ChainInv
  <1>14. Sound'
    BY <1>1, <1>4, <1>5, <1>8 DEF Sound
  <1> QED BY <1>13, <1>14

LEMMA FailKeeps ==
  ASSUME ChainInv, Sound, Fail
  PROVE  ChainInv' /\ Sound'
  BY DEF ChainInv, Sound, Fail, IsPath, Here, Pool, Unreadable

LEMMA EmitKeeps ==
  ASSUME ChainInv, Sound, Emit
  PROVE  ChainInv' /\ Sound'
  <1>1. Len(reports) = Len(job.sources) /\ exited' = ExitCode /\ job' = job /\ order' = order /\ reports' = reports
    BY DEF Emit
  <1>2. ASSUME exited' = "0", NEW n \in DOMAIN reports
        PROVE  chain_status(reports[n]) = "valid"
    <2>1. "invalid" \notin Verdicts /\ "unverified" \notin Verdicts
      BY <1>1, <1>2 DEF ExitCode
    <2>2. chain_status(reports[n]) \in Verdicts
      BY DEF Verdicts
    <2>3. chain_status(reports[n]) \in {"invalid", "unverified", "valid"}
      BY DEF chain_status
    <2> QED BY <2>1, <2>2, <2>3
  <1>3. ChainInv'
    BY <1>1, <1>2 DEF ChainInv, IsPath, Here, Pool, Unreadable
  <1>4. Sound'
    BY <1>1 DEF Sound
  <1> QED BY <1>3, <1>4

LEMMA ChainStuttering ==
  ASSUME ChainInv, Sound, UNCHANGED vars
  PROVE  ChainInv' /\ Sound'
  <1>1. job' = job /\ order' = order /\ reports' = reports /\ exited' = exited
    BY DEF vars
  <1>2. Here' = Here
    BY <1>1 DEF Here, Pool
  <1> QED BY <1>1, <1>2 DEF ChainInv, Sound, IsPath, Pool, Unreadable

LEMMA SoundIsReal ==
  ASSUME ChainInv, Sound
  PROVE  ValidIsReal
  <1>1. ASSUME exited = "0", NEW n \in DOMAIN job.sources
        PROVE  HasPath(job, Pool(job, n))
    <2>1. n \in DOMAIN reports
      BY <1>1, JobsAssumption DEF ChainInv
    <2> QED BY <1>1, <2>1 DEF ChainInv, Sound
  <1> QED BY <1>1 DEF ValidIsReal, Sound

(* Whatever certificates the files hold and in whatever order: a chain     *)
(* that verify-chain calls valid leads, link by link, from the certificate *)
(* to verify to a root it may trust, and exit 0 says so of every source    *)
(* (src/cert/verify_chain.rs, verify_one, verify_anchored and run).        *)
THEOREM ValidHolds == Spec => []ValidIsReal
  <1>1. Init => ChainInv /\ Sound
    BY ChainStarts
  <1>2. ChainInv /\ Sound /\ [Next]_vars => ChainInv' /\ Sound'
    BY StartKeeps, LinkKeeps, JudgeKeeps, FailKeeps, EmitKeeps, ChainStuttering DEF Next
  <1>3. ChainInv /\ Sound => ValidIsReal
    BY SoundIsReal
  <1> QED BY <1>1, <1>2, <1>3, PTL DEF Spec

-----------------------------------------------------------------------------
(* What the builder does not lose.                                         *)

(* A path the promise speaks of is the certificates of places in the pool. *)
IsWay(j, pool, s) ==
  /\ IsPath(s, pool) /\ (j.anchored => s[1] = 1) /\ (~j.anchored => Len(s) = Len(pool))
  /\ Accepted(j, Read(pool, s))

LEMMA PathIsWay ==
  ASSUME NEW j, NEW pool \in Seq(Certificate), pool # <<>>, HasPath(j, pool)
  PROVE  \E s : IsWay(j, pool, s)
  <1> DEFINE whole == DOMAIN pool
             picks == IF j.anchored
                      THEN {<<1>> \o s : s \in UNION {Injections(n, whole \ {1}) : n \in 0 .. Len(pool) - 1}}
                      ELSE Injections(Len(pool), whole)
  <1>1. PICK p \in PathsOf(j, pool) : Accepted(j, p)
    BY DEF HasPath
  <1>2. PICK s \in picks : p = Read(pool, s)
    BY DEF PathsOf, Read
  <1>3. whole = 1 .. Len(pool) /\ Len(pool) \in Nat \ {0}
    OBVIOUS
  <1>4. CASE ~j.anchored
    <2>1. s \in [1 .. Len(pool) -> whole] /\ \A i, k \in 1 .. Len(pool) : i # k => s[i] # s[k]
      BY <1>2, <1>4 DEF Injections
    <2> HIDE DEF whole, picks
    <2>2. s \in Seq(whole) /\ Len(s) = Len(pool) /\ DOMAIN s = 1 .. Len(pool) /\ s # <<>>
      BY <1>3, <2>1
    <2>3. IsPath(s, pool)
      BY <2>1, <2>2 DEF IsPath, whole
    <2> QED BY <1>1, <1>2, <1>4, <2>2, <2>3 DEF IsWay
  <1>5. CASE j.anchored
    <2>0. PICK n \in 0 .. Len(pool) - 1 : \E t \in Injections(n, whole \ {1}) : s = <<1>> \o t
      BY <1>2, <1>5
    <2>1. PICK t \in Injections(n, whole \ {1}) : s = <<1>> \o t
      BY <2>0
    <2>2. t \in [1 .. n -> whole \ {1}] /\ \A i, k \in 1 .. n : i # k => t[i] # t[k]
      BY <2>1 DEF Injections
    <2> HIDE DEF whole, picks
    <2>3. n \in Nat /\ 1 \in whole
      BY <1>3, <2>1
    <2>4. t \in Seq(whole) /\ Len(t) = n /\ <<1>> \in Seq(whole) /\ Len(<<1>>) = 1 /\ <<1>>[1] = 1
      BY <2>2, <2>3
    <2>5. /\ s \in Seq(whole) /\ Len(s) = n + 1 /\ DOMAIN s = 1 .. n + 1 /\ s[1] = 1
          /\ \A i \in 2 .. n + 1 : s[i] = t[i - 1] /\ i - 1 \in 1 .. n
      BY <2>1, <2>3, <2>4
    <2>6. ASSUME NEW i \in 1 .. n + 1, NEW k \in 1 .. n + 1, s[i] = s[k] PROVE i = k
      <3>1. \A l \in 2 .. n + 1 : s[l] # 1
        BY <2>2, <2>5
      <3>2. CASE i = 1 \/ k = 1
        BY <2>3, <2>5, <2>6, <3>1, <3>2
      <3>3. CASE i # 1 /\ k # 1
        <4>1. t[i - 1] = t[k - 1] /\ i - 1 \in 1 .. n /\ k - 1 \in 1 .. n
          BY <2>3, <2>5, <2>6, <3>3
        <4> QED BY <2>2, <2>3, <4>1
      <3> QED BY <3>2, <3>3
    <2>7. s # <<>>
      BY <2>3, <2>5
    <2>8. IsPath(s, pool)
      BY <2>5, <2>6, <2>7 DEF IsPath, whole
    <2> QED BY <1>1, <1>2, <1>5, <2>5, <2>8 DEF IsWay
  <1> QED BY <1>4, <1>5

(* What a way is, by the certificates at its places.                       *)
LEMMA WayIs ==
  ASSUME NEW j, NEW pool \in Seq(Certificate), NEW s, IsWay(j, pool, s)
  PROVE  /\ s \in Seq(DOMAIN pool) /\ Len(s) \in Nat \ {0} /\ DOMAIN s = 1 .. Len(s)
         /\ \A i \in 1 .. Len(s) : s[i] \in DOMAIN pool /\ pool[s[i]] \in Certificate
         /\ \A i, k \in 1 .. Len(s) : s[i] = s[k] => i = k
         /\ \A i \in 1 .. Len(s) - 1 : Issues(pool[s[i + 1]], pool[s[i]]) /\ i + 1 \in 1 .. Len(s) /\ i \in 1 .. Len(s)
         /\ SelfSigned(pool[s[Len(s)]])
  <1>1. s \in Seq(DOMAIN pool) /\ Len(s) \in Nat \ {0} /\ DOMAIN s = 1 .. Len(s)
    BY DEF IsWay, IsPath
  <1>2. \A i \in 1 .. Len(s) : s[i] \in DOMAIN pool /\ pool[s[i]] \in Certificate
    BY <1>1
  <1>3. \A i, k \in 1 .. Len(s) : s[i] = s[k] => i = k
    BY <1>1 DEF IsWay, IsPath
  <1> DEFINE p == Read(pool, s)
  <1>4. p \in Seq(Certificate) /\ Len(p) = Len(s) /\ \A i \in 1 .. Len(s) : p[i] = pool[s[i]]
    BY <1>1, <1>2 DEF Read
  <1>5. (\A i \in 1 .. Len(p) - 1 : Issues(p[i + 1], p[i])) /\ SelfSigned(Last(p))
    BY DEF IsWay, Accepted
  <1>6. Last(p) = pool[s[Len(s)]]
    BY <1>1, <1>4 DEF Last
  <1> HIDE DEF p
  <1>7. \A i \in 1 .. Len(s) - 1 : Issues(pool[s[i + 1]], pool[s[i]]) /\ i + 1 \in 1 .. Len(s) /\ i \in 1 .. Len(s)
    <2> SUFFICES ASSUME NEW i \in 1 .. Len(s) - 1
                 PROVE  Issues(pool[s[i + 1]], pool[s[i]]) /\ i + 1 \in 1 .. Len(s) /\ i \in 1 .. Len(s)
      OBVIOUS
    <2>1. i + 1 \in 1 .. Len(s) /\ i \in 1 .. Len(s)
      BY <1>1
    <2> QED BY <1>4, <1>5, <2>1
  <1> QED BY <1>1, <1>2, <1>3, <1>5, <1>6, <1>7

(* Who signs a certificate of his own signs himself.                       *)
LEMMA OwnIssuer ==
  ASSUME NEW c, Issues(c, c) PROVE SelfSigned(c)
  BY DEF Issues, SelfSigned, names_equal

(* Where nothing forks, whoever issues a certificate, seen at two places,  *)
(* is the same.                                                            *)
LEMMA OneIssuer ==
  ASSUME NEW pool, ~Fork(pool), NEW x \in DOMAIN pool, NEW k \in DOMAIN pool, NEW l \in DOMAIN pool,
         k # x, l # x, Issues(pool[k], pool[x]), Issues(pool[l], pool[x])
  PROVE  pool[k] = pool[l]
  BY DEF Fork

(* A way climbs to a root, and from there on is copies of it; below it no  *)
(* certificate comes twice.                                                *)
Top(pool, s, f) ==
  /\ f \in 1 .. Len(s)
  /\ \A i \in 1 .. Len(s) : SelfSigned(pool[s[i]]) <=> i >= f
  /\ \A i \in f .. Len(s) : pool[s[i]] = pool[s[f]]
  /\ \A a, b \in 1 .. Len(s) : a < f /\ pool[s[a]] = pool[s[b]] => a = b

LEMMA WayHasTop ==
  ASSUME NEW j, NEW pool \in Seq(Certificate), ~Fork(pool), NEW s, IsWay(j, pool, s)
  PROVE  \E f : Top(pool, s, f)
  <1> DEFINE m == Len(s)
             roots == {i \in 1 .. m : SelfSigned(pool[s[i]])}
  <1>1. /\ m \in Nat \ {0}
        /\ \A i \in 1 .. m : s[i] \in DOMAIN pool
        /\ \A i, k \in 1 .. m : s[i] = s[k] => i = k
        /\ \A i \in 1 .. m - 1 : Issues(pool[s[i + 1]], pool[s[i]]) /\ i + 1 \in 1 .. m /\ i \in 1 .. m
        /\ SelfSigned(pool[s[m]])
    BY WayIs
  <1> HIDE DEF m
  <1>2. PICK f \in roots : \A i \in roots : f <= i
    <2>1. m \in roots /\ roots \subseteq Nat
      BY <1>1
    <2> HIDE DEF roots
    <2> QED BY <2>1, LeastNumber
  <1>3. f \in 1 .. m /\ SelfSigned(pool[s[f]]) /\ \A i \in 1 .. m : i < f => ~SelfSigned(pool[s[i]])
    BY <1>1, <1>2
  <1> HIDE DEF roots
  <1>4. ASSUME NEW i \in f .. m, pool[s[i]] # pool[s[f]] PROVE FALSE
    <2> DEFINE others == {k \in f .. m : pool[s[k]] # pool[s[f]]}
    <2>1. PICK k \in others : \A l \in others : k <= l
      <3>1. i \in others /\ others \subseteq Nat
        BY <1>1, <1>3, <1>4
      <3> HIDE DEF others
      <3> QED BY <3>1, LeastNumber
    <2>2. k \in 1 .. m /\ k - 1 \in f .. m /\ k - 1 \in 1 .. m - 1 /\ k - 1 < k /\ (k - 1) + 1 = k
      BY <1>1, <1>3, <2>1
    <2>3. pool[s[k - 1]] = pool[s[f]] /\ pool[s[k]] # pool[s[f]]
      BY <2>1, <2>2
    <2>4. Issues(pool[s[k]], pool[s[k - 1]]) /\ s[k] # s[k - 1] /\ s[k] \in DOMAIN pool /\ s[k - 1] \in DOMAIN pool
      <3> DEFINE h == k - 1
      <3>1. h \in 1 .. m - 1 /\ h \in 1 .. m /\ h + 1 = k /\ h # k
        BY <1>1, <2>2
      <3> HIDE DEF h, others
      <3>2. Issues(pool[s[h + 1]], pool[s[h]]) /\ s[h] # s[k]
        BY <1>1, <2>2, <3>1
      <3> QED BY <1>1, <2>2, <3>1, <3>2 DEF h
    <2> QED BY <1>3, <2>3, <2>4 DEF Fork
  <1>5. ASSUME NEW i \in 1 .. m PROVE SelfSigned(pool[s[i]]) <=> i >= f
    <2>1. CASE i < f
      BY <1>1, <1>3, <2>1
    <2>2. CASE i >= f
      <3>1. i \in f .. m
        BY <1>1, <1>3, <2>2
      <3>2. pool[s[i]] = pool[s[f]]
        BY <1>4, <3>1
      <3> QED BY <1>3, <2>2, <3>2
    <2> QED BY <1>1, <1>3, <2>1, <2>2
  <1>6. ASSUME NEW a \in 1 .. m, NEW b \in 1 .. m, a < f, pool[s[a]] = pool[s[b]], a # b PROVE FALSE
    <2> DEFINE twice == {k \in 1 .. m : \E c, d \in 1 .. m :
                           c < d /\ d < f /\ k = m + 1 - d /\ pool[s[c]] = pool[s[d]]}
    <2>1. b < f
      BY <1>1, <1>3, <1>5, <1>6
    <2>2. twice # {} /\ twice \subseteq Nat
      <3>1. CASE a < b
        <4>1. m + 1 - b \in twice
          BY <1>1, <1>3, <1>6, <2>1, <3>1
        <4> QED BY <4>1
      <3>2. CASE b < a
        <4>1. m + 1 - a \in twice
          BY <1>1, <1>3, <1>6, <2>1, <3>2
        <4> QED BY <4>1
      <3> QED BY <1>6, <3>1, <3>2
    <2>3. PICK k \in twice : \A l \in twice : k <= l
      <3> HIDE DEF twice
      <3> QED BY <2>2, LeastNumber
    <2>4. PICK c \in 1 .. m, d \in 1 .. m : c < d /\ d < f /\ k = m + 1 - d /\ pool[s[c]] = pool[s[d]]
      BY <2>3
    <2>5. /\ c \in 1 .. m - 1 /\ d \in 1 .. m - 1 /\ c + 1 \in 1 .. m /\ d + 1 \in 1 .. m
          /\ c + 1 < d + 1 /\ c + 1 < f /\ d + 1 <= f /\ c + 1 # c /\ d + 1 # c
      BY <1>1, <1>3, <2>4
    <2>6. Issues(pool[s[c + 1]], pool[s[c]]) /\ Issues(pool[s[d + 1]], pool[s[c]])
      BY <1>1, <2>4, <2>5
    <2>7. s[c] \in DOMAIN pool /\ s[c + 1] \in DOMAIN pool /\ s[d + 1] \in DOMAIN pool /\ s[c + 1] # s[c] /\ s[d + 1] # s[c]
      BY <1>1, <2>4, <2>5
    <2>8. pool[s[c + 1]] = pool[s[d + 1]]
      BY <2>6, <2>7, OneIssuer
    <2>9. ~SelfSigned(pool[s[c + 1]])
      BY <1>3, <2>5
    <2>10. d + 1 < f
      BY <1>3, <1>5, <2>5, <2>8, <2>9
    <2>11. m + 1 - (d + 1) \in twice /\ m + 1 - (d + 1) < k
      BY <1>1, <1>3, <2>4, <2>5, <2>8, <2>10
    <2>12. k <= m + 1 - (d + 1) /\ k \in Int /\ m + 1 - (d + 1) \in Int
      <3> HIDE DEF twice
      <3>1. k <= m + 1 - (d + 1)
        BY <2>3, <2>11, Zenon
      <3> QED BY <1>1, <2>4, <3>1
    <2> QED BY <2>11, <2>12
  <1> QED BY <1>3, <1>4, <1>5, <1>6 DEF Top, m

(* A chain under construction that names, link by link, the certificates   *)
(* of a way.                                                               *)
Along(pool, o, s) == Len(o) <= Len(s) /\ \A k \in 1 .. Len(o) : pool[o[k]] = pool[s[k]]

(* An issuer whose key verifies is preferred to any other of its name.     *)
LEMMA ChoiceIssues ==
  ASSUME NEW pool \in Seq(Certificate), NEW o, NEW first \in Int, NEW w \in DOMAIN pool,
         w \notin Range(o), Issues(pool[w], pool[Last(o)])
  PROVE  /\ Choice(pool, o, first) \in DOMAIN pool /\ Choice(pool, o, first) \notin Range(o)
         /\ Issues(pool[Choice(pool, o, first)], pool[Last(o)])
         /\ Candidates(pool, o) # {}
  <1> DEFINE cands == Candidates(pool, o)
             keyed == {i \in cands : verify_signature(pool[Last(o)], pool[i].key) = "ok"}
  <1>1. w \in keyed /\ w \in cands
    BY DEF Candidates, Issues, names_equal
  <1>2. cands \subseteq DOMAIN pool /\ DOMAIN pool \subseteq Nat
    BY DEF Candidates
  <1>3. Choice(pool, o, first) = Earliest(keyed, first)
    BY <1>1 DEF Choice
  <1>4. \A i \in keyed : i \in DOMAIN pool /\ i \notin Range(o) /\ Issues(pool[i], pool[Last(o)])
    BY DEF Candidates, Issues, names_equal
  <1>5. keyed \subseteq Nat /\ keyed # {}
    BY <1>1, <1>2
  <1> HIDE DEF keyed
  <1>6. Earliest(keyed, first) \in keyed
    BY <1>5, EarliestIsOne
  <1> QED BY <1>1, <1>3, <1>4, <1>6

(* Below the root the builder finds the next certificate of the way.       *)
LEMMA ClimbsAlong ==
  ASSUME NEW j, NEW pool \in Seq(Certificate), ~Fork(pool), NEW s, IsWay(j, pool, s), NEW f, Top(pool, s, f),
         NEW o, IsPath(o, pool), Along(pool, o, s), Len(o) < f, NEW first \in Int
  PROVE  /\ Candidates(pool, o) # {}
         /\ Choice(pool, o, first) \in DOMAIN pool /\ Choice(pool, o, first) \notin Range(o)
         /\ pool[Choice(pool, o, first)] = pool[s[Len(o) + 1]]
  <1> DEFINE i == Len(o)
             w == s[i + 1]
             y == Choice(pool, o, first)
  <1>1. /\ o \in Seq(DOMAIN pool) /\ i \in Nat \ {0} /\ DOMAIN o = 1 .. i
        /\ Last(o) = o[i] /\ o[i] \in DOMAIN pool /\ o[i] \in Range(o)
    BY DEF IsPath, Last, Range
  <1>2. /\ Len(s) \in Nat \ {0} /\ f \in 1 .. Len(s)
        /\ \A k \in 1 .. Len(s) - 1 : Issues(pool[s[k + 1]], pool[s[k]])
        /\ \A k \in 1 .. Len(s) : s[k] \in DOMAIN pool
    BY WayIs DEF Top
  <1>3. i \in 1 .. Len(s) - 1 /\ i \in 1 .. Len(s) /\ i + 1 \in 1 .. Len(s) /\ i < f /\ i + 1 # i
    <2>1. i < f
      OBVIOUS
    <2> HIDE DEF i, w, y
    <2> QED BY <1>1, <1>2, <2>1
  <1> HIDE DEF i
  <1>4. pool[o[i]] = pool[s[i]]
    BY <1>1 DEF Along, i
  <1>5. Issues(pool[w], pool[o[i]]) /\ w \in DOMAIN pool
    BY <1>2, <1>3, <1>4
  <1>6. w \notin Range(o)
    <2>1. ASSUME NEW k \in 1 .. i, o[k] = w PROVE FALSE
      <3>1. pool[s[k]] = pool[s[i + 1]]
        BY <1>1, <2>1 DEF Along, i
      <3>2. k \in 1 .. Len(s) /\ k < f /\ k # i + 1
        BY <1>1, <1>2, <1>3
      <3> QED BY <1>3, <3>1, <3>2 DEF Top
    <2> QED BY <1>1, <2>1 DEF Range
  <1> HIDE DEF w
  <1>7. /\ y \in DOMAIN pool /\ y \notin Range(o) /\ Issues(pool[y], pool[o[i]]) /\ Candidates(pool, o) # {}
    BY <1>1, <1>5, <1>6, ChoiceIssues
  <1> HIDE DEF y
  <1>8. pool[y] = pool[w]
    <2>1. y # o[i] /\ w # o[i]
      BY <1>1, <1>6, <1>7
    <2> QED BY <1>1, <1>5, <1>7, <2>1, OneIssuer
  <1> QED BY <1>7, <1>8 DEF i, w, y

(* Above it every certificate left is a copy of the root.                  *)
LEMMA OnlyCopiesAbove ==
  ASSUME NEW j, ~j.anchored, NEW pool \in Seq(Certificate), ~Fork(pool),
         NEW s, IsWay(j, pool, s), NEW f, Top(pool, s, f),
         NEW o, IsPath(o, pool), Along(pool, o, s), f <= Len(o), Len(o) < Len(pool), NEW first \in Int
  PROVE  /\ Candidates(pool, o) # {}
         /\ Choice(pool, o, first) \in DOMAIN pool /\ Choice(pool, o, first) \notin Range(o)
         /\ pool[Choice(pool, o, first)] = pool[s[Len(o) + 1]]
  <1> DEFINE i == Len(o)
             m == Len(s)
             y == Choice(pool, o, first)
             whole == DOMAIN pool
  <1>1. /\ o \in Seq(whole) /\ i \in Nat \ {0} /\ DOMAIN o = 1 .. i
        /\ Last(o) = o[i] /\ o[i] \in whole /\ o[i] \in Range(o)
        /\ \A a, b \in 1 .. i : o[a] = o[b] => a = b
    BY DEF IsPath, Last, Range
  <1>2. /\ m \in Nat \ {0} /\ f \in 1 .. m /\ m = Len(pool) /\ DOMAIN s = 1 .. m
        /\ \A k \in 1 .. m : s[k] \in whole
        /\ \A a, b \in 1 .. m : s[a] = s[b] => a = b
    BY WayIs DEF Top, IsWay
  <1>3. whole = 1 .. m /\ IsFiniteSet(1 .. m) /\ Cardinality(1 .. m) = m
        /\ IsFiniteSet(1 .. i) /\ Cardinality(1 .. i) = i
    <2>1. whole = 1 .. m
      BY <1>2
    <2>2. 1 \in Int /\ m \in Int /\ i \in Int /\ ~(1 > m) /\ ~(1 > i) /\ m - 1 + 1 = m /\ i - 1 + 1 = i
      BY <1>1, <1>2
    <2> HIDE DEF m, i, whole
    <2>3. Cardinality(1 .. m) = m - 1 + 1 /\ Cardinality(1 .. i) = i - 1 + 1 /\ IsFiniteSet(1 .. m) /\ IsFiniteSet(1 .. i)
      BY <2>2, FS_Interval
    <2> QED BY <2>1, <2>2, <2>3
  <1>4. f <= i /\ i < m
    BY <1>2
  <1>5. /\ s \in [1 .. m -> whole] /\ o \in [1 .. i -> whole]
    <2>1. s \in Seq(whole)
      BY WayIs
    <2> HIDE DEF m, i, whole
    <2>2. m = Len(s) /\ i = Len(o)
      BY DEF m, i
    <2> QED BY <1>1, <1>2, <2>1, <2>2
  <1> HIDE DEF m, i, whole
  <1>6. PICK x \in whole : x \notin Range(o)
    <2> SUFFICES ASSUME \A x \in whole : x \in Range(o) PROVE FALSE
      OBVIOUS
    <2>1. o \in Injection(1 .. i, whole)
      BY <1>1, <1>5 DEF Injection, IsInjective
    <2>2. o \in Surjection(1 .. i, whole)
      BY <1>1, <1>5 DEF Surjection, Range
    <2>3. Cardinality(1 .. i) = Cardinality(whole)
      BY <1>3, <2>1, <2>2, FS_Injection
    <2> QED BY <1>1, <1>2, <1>3, <1>4, <2>3
  <1>7. PICK t \in 1 .. m : s[t] = x
    <2>1. s \in Injection(1 .. m, whole)
      BY <1>2, <1>5 DEF Injection, IsInjective
    <2>2. s \in Surjection(1 .. m, whole)
      BY <1>3, <2>1, FS_Injection
    <2> QED BY <1>6, <2>2 DEF Surjection
  <1>8. t >= f
    <2> SUFFICES ASSUME t < f PROVE FALSE
      BY <1>2
    <2>1. t \in 1 .. i
      BY <1>1, <1>2, <1>4
    <2>2. o[t] \in whole /\ o[t] \in Range(o) /\ pool[o[t]] = pool[s[t]]
      BY <1>1, <2>1 DEF Along, Range, i
    <2>3. PICK u \in 1 .. m : s[u] = o[t]
      <3>1. s \in Injection(1 .. m, whole)
        BY <1>2, <1>5 DEF Injection, IsInjective
      <3>2. s \in Surjection(1 .. m, whole)
        BY <1>3, <3>1, FS_Injection
      <3> QED BY <2>2, <3>2 DEF Surjection
    <2>4. t = u
      BY <2>2, <2>3 DEF Top, m
    <2> QED BY <1>6, <1>7, <2>2, <2>3, <2>4
  <1>9. pool[x] = pool[s[f]] /\ pool[o[i]] = pool[s[f]] /\ pool[s[i + 1]] = pool[s[f]] /\ SelfSigned(pool[s[f]])
        /\ pool[s[m]] = pool[s[f]]
    <2>1. t \in f .. m /\ i \in f .. m /\ i + 1 \in f .. m /\ m \in f .. m /\ f >= f
      BY <1>1, <1>2, <1>4, <1>8
    <2>2. \A k \in f .. m : pool[s[k]] = pool[s[f]]
      BY DEF Top, m
    <2>3. pool[o[i]] = pool[s[i]]
      BY <1>1 DEF Along, i
    <2>4. SelfSigned(pool[s[f]])
      BY <1>2, <2>1 DEF Top, m
    <2> QED BY <1>7, <2>1, <2>2, <2>3, <2>4
  <1>10. Issues(pool[s[m]], pool[s[m]])
    <2> DEFINE p == Read(pool, s)
    <2>1. DOMAIN p = 1 .. m /\ Len(p) = m /\ \A k \in 1 .. m : p[k] = pool[s[k]]
      BY <1>2 DEF Read
    <2>2. Accepted(j, p)
      BY DEF IsWay
    <2> HIDE DEF p
    <2>3. Issues(Last(p), Last(p)) /\ Last(p) = p[m] /\ m \in 1 .. m
      BY <1>2, <2>1, <2>2 DEF Accepted, Last
    <2> QED BY <2>1, <2>3
  <1>11. Issues(pool[x], pool[Last(o)])
    BY <1>1, <1>9, <1>10
  <1>12. y \in whole /\ y \notin Range(o) /\ Issues(pool[y], pool[o[i]]) /\ Candidates(pool, o) # {}
    BY <1>1, <1>6, <1>11, ChoiceIssues DEF whole
  <1> HIDE DEF y
  <1>13. pool[y] = pool[o[i]]
    <2>1. y # o[i] /\ SelfSigned(pool[o[i]]) /\ o[i] \in DOMAIN pool /\ y \in DOMAIN pool
      BY <1>1, <1>9, <1>12 DEF whole
    <2> QED BY <1>12, <2>1 DEF Fork
  <1> QED BY <1>9, <1>12, <1>13 DEF i, y, whole

-----------------------------------------------------------------------------
(* The builder does not leave the way.                                     *)
Follows(j, pool, o) ==
  \E s, f : /\ IsWay(j, pool, s) /\ Top(pool, s, f) /\ Along(pool, o, s)
            /\ j.anchored => Len(o) <= f

(* No name but the first of a way is without an issuer's.                  *)
LEMMA LeafIsFirst ==
  ASSUME NEW j, NEW pool \in Seq(Certificate), ~j.anchored, ~Ring(pool), NEW s, IsWay(j, pool, s)
  PROVE  Leaves(pool) = {s[1]}
  <1> DEFINE m == Len(s)
             whole == DOMAIN pool
  <1>1. /\ m \in Nat \ {0} /\ m = Len(pool) /\ whole = 1 .. m /\ s \in [1 .. m -> whole]
        /\ \A a, b \in 1 .. m : s[a] = s[b] => a = b
        /\ \A k \in 1 .. m - 1 : Issues(pool[s[k + 1]], pool[s[k]])
    <2>1. s \in Seq(DOMAIN pool) /\ Len(s) \in Nat \ {0} /\ Len(s) = Len(pool)
      BY WayIs DEF IsWay
    <2>2. s \in [1 .. Len(s) -> DOMAIN pool] /\ DOMAIN pool = 1 .. Len(pool)
      BY <2>1
    <2> QED BY <2>1, <2>2, WayIs
  <1> HIDE DEF m, whole
  <1>2. IsFiniteSet(1 .. m) /\ IsFiniteSet(whole) /\ Cardinality(1 .. m) = Cardinality(whole)
    <2>1. 1 \in Int /\ m \in Int
      BY <1>1
    <2> QED BY <1>1, <2>1, FS_Interval
  <1>3. s \in Surjection(1 .. m, whole)
    <2>1. s \in Injection(1 .. m, whole)
      BY <1>1 DEF Injection, IsInjective
    <2> QED BY <1>2, <2>1, FS_Injection
  <1>4. Leaves(pool) # {}
    BY DEF Ring, Leaves
  <1>5. ASSUME NEW x \in Leaves(pool) PROVE x = s[1]
    <2>1. x \in whole /\ \A k \in whole \ {x} : ~names_equal(pool[k].issuer, pool[x].subject)
      BY DEF Leaves, whole
    <2>2. PICK t \in 1 .. m : s[t] = x
      BY <1>3, <2>1 DEF Surjection
    <2>3. ASSUME t # 1 PROVE FALSE
      <3> DEFINE h == t - 1
      <3>1. h \in 1 .. m - 1 /\ h \in 1 .. m /\ h + 1 = t /\ h # t
        BY <1>1, <2>2, <2>3
      <3> HIDE DEF h
      <3>2. Issues(pool[x], pool[s[h]]) /\ s[h] \in whole /\ s[h] # x
        BY <1>1, <2>2, <3>1
      <3> QED BY <2>1, <3>2 DEF Issues
    <2> QED BY <2>2, <2>3
  <1> QED BY <1>4, <1>5

(* The builder starts at the leaf of the way.                             *)
LEMMA StartFollows ==
  ASSUME NEW j, NEW pool \in Seq(Certificate), pool # <<>>, Promised(j, pool)
  PROVE  Follows(j, pool, StartOf(j, pool))
  <1> DEFINE o == StartOf(j, pool)
  <1>1. PICK s : IsWay(j, pool, s)
    BY PathIsWay DEF Promised
  <1>2. PICK f : Top(pool, s, f)
    BY <1>1, WayHasTop DEF Promised
  <1>3. Len(s) \in Nat \ {0} /\ f \in 1 .. Len(s)
    BY <1>1, <1>2, WayIs DEF Top
  <1>4. o = <<s[1]>>
    <2>1. CASE j.anchored
      BY <1>1, <2>1 DEF StartOf, IsWay
    <2>2. CASE ~j.anchored
      <3>1. Leaves(pool) = {s[1]}
        BY <1>1, <2>2, LeafIsFirst DEF Promised
      <3>2. Cardinality({s[1]}) = 1
        BY FS_Singleton
      <3>3. (CHOOSE i \in {s[1]} : TRUE) = s[1]
        OBVIOUS
      <3>4. CASE Len(pool) > 1
        BY <2>2, <3>1, <3>2, <3>3, <3>4 DEF StartOf
      <3>5. CASE ~(Len(pool) > 1)
        <4>0. Len(pool) \in Nat /\ Len(pool) # 0 /\ DOMAIN pool = 1 .. Len(pool)
          OBVIOUS
        <4>1. Len(pool) = 1 /\ DOMAIN pool = {1}
          <5>1. Len(pool) = 1
            BY <3>5, <4>0
          <5> QED BY <4>0, <5>1
        <4>2. s[1] = 1
          <5>0. 1 \in 1 .. Len(s)
            BY <1>3
          <5>1. s[1] \in DOMAIN pool
            BY <1>1, <5>0, WayIs
          <5> QED BY <4>1, <5>1
        <4>3. o = [i \in {1} |-> i]
          BY <2>2, <3>5, <4>1 DEF StartOf, FileOrder
        <4> QED BY <4>2, <4>3
      <3> QED BY <3>4, <3>5
    <2> QED BY <2>1, <2>2
  <1> HIDE DEF o
  <1>5. Len(o) = 1 /\ o[1] = s[1] /\ \A k \in 1 .. Len(o) : k = 1
    BY <1>4
  <1>6. Along(pool, o, s) /\ Len(o) <= f
    BY <1>3, <1>5 DEF Along
  <1> QED BY <1>1, <1>2, <1>6 DEF Follows, o

(* Every link is the next of the way.                                      *)
LEMMA AppendFollows ==
  ASSUME NEW pool \in Seq(Certificate), NEW o, IsPath(o, pool), NEW s \in Seq(DOMAIN pool), Along(pool, o, s),
         Len(o) < Len(s), NEW y \in DOMAIN pool, pool[y] = pool[s[Len(o) + 1]]
  PROVE  Along(pool, Append(o, y), s) /\ Len(Append(o, y)) = Len(o) + 1
  <1>1. o \in Seq(DOMAIN pool) /\ Len(o) \in Nat /\ Len(s) \in Nat
    BY DEF IsPath
  <1>2. /\ Len(Append(o, y)) = Len(o) + 1
        /\ \A i \in 1 .. Len(o) : Append(o, y)[i] = o[i]
        /\ Append(o, y)[Len(o) + 1] = y
    BY <1>1, Appended
  <1>3. ASSUME NEW k \in 1 .. Len(o) + 1
        PROVE  pool[Append(o, y)[k]] = pool[s[k]]
    <2>1. k \in 1 .. Len(o) \/ k = Len(o) + 1
      BY <1>1
    <2> QED BY <1>2, <2>1 DEF Along
  <1> QED BY <1>1, <1>2, <1>3 DEF Along

LEMMA LinkFollows ==
  ASSUME NEW j, NEW pool \in Seq(Certificate), Promised(j, pool), NEW o, IsPath(o, pool),
         Follows(j, pool, o), ~Built(j, pool, o), NEW first \in Int
  PROVE  Follows(j, pool, IF j.anchored THEN build_from(pool, o, first) ELSE assemble_order(pool, o))
  <1>1. PICK s, f : /\ IsWay(j, pool, s) /\ Top(pool, s, f) /\ Along(pool, o, s)
                    /\ j.anchored => Len(o) <= f
    BY DEF Follows
  <1>2. /\ s \in Seq(DOMAIN pool) /\ Len(s) \in Nat \ {0} /\ f \in 1 .. Len(s) /\ ~Fork(pool)
        /\ o \in Seq(DOMAIN pool) /\ Len(o) \in Nat \ {0} /\ Last(o) = o[Len(o)] /\ Len(o) <= Len(s)
        /\ pool[Last(o)] = pool[s[Len(o)]]
    <2>1. s \in Seq(DOMAIN pool) /\ Len(s) \in Nat \ {0}
      BY <1>1, WayIs
    <2>2. o \in Seq(DOMAIN pool) /\ Len(o) \in Nat \ {0} /\ Last(o) = o[Len(o)]
      BY DEF IsPath, Last
    <2>3. f \in 1 .. Len(s) /\ ~Fork(pool)
      BY <1>1 DEF Top, Promised
    <2>4. Len(o) <= Len(s) /\ pool[o[Len(o)]] = pool[s[Len(o)]]
      <3>1. Len(o) \in 1 .. Len(o)
        BY <2>2
      <3> QED BY <1>1, <3>1 DEF Along
    <2> QED BY <2>1, <2>2, <2>3, <2>4
  <1>3. CASE j.anchored
    <2>1. ~SelfSigned(pool[s[Len(o)]]) /\ Len(o) \in 1 .. Len(s)
      BY <1>2, <1>3 DEF Built
    <2>2. Len(o) < f
      BY <1>1, <1>2, <2>1 DEF Top
    <2> DEFINE y == Choice(pool, o, first)
    <2>3. y \in DOMAIN pool /\ pool[y] = pool[s[Len(o) + 1]]
      BY <1>1, <1>2, <2>2, ClimbsAlong
    <2> HIDE DEF y
    <2>4. Along(pool, Append(o, y), s) /\ Len(Append(o, y)) = Len(o) + 1
      <3>1. Len(o) < Len(s)
        BY <1>2, <2>2
      <3> QED BY <1>1, <1>2, <2>3, <3>1, AppendFollows
    <2>5. Len(Append(o, y)) <= f
      BY <1>2, <2>2, <2>4
    <2>6. build_from(pool, o, first) = Append(o, y)
      BY DEF build_from, y
    <2> QED BY <1>1, <1>3, <2>4, <2>5, <2>6 DEF Follows
  <1>4. CASE ~j.anchored
    <2>1. Len(o) # Len(pool) /\ Len(s) = Len(pool) /\ Len(o) < Len(s)
      BY <1>1, <1>2, <1>4 DEF Built, IsWay
    <2> DEFINE y == Choice(pool, o, 1)
    <2>2. y \in DOMAIN pool /\ pool[y] = pool[s[Len(o) + 1]] /\ Candidates(pool, o) # {}
      <3>1. CASE Len(o) < f
        BY <1>1, <1>2, <3>1, ClimbsAlong
      <3>2. CASE ~(Len(o) < f)
        <4>1. f <= Len(o) /\ Len(o) < Len(pool)
          BY <1>2, <2>1, <3>2
        <4> QED BY <1>1, <1>2, <1>4, <4>1, OnlyCopiesAbove, SMTT(30)
      <3> QED BY <3>1, <3>2
    <2> HIDE DEF y
    <2>3. Along(pool, Append(o, y), s)
      BY <1>1, <1>2, <2>1, <2>2, AppendFollows
    <2>4. assemble_order(pool, o) = Append(o, y)
      BY <2>2 DEF assemble_order, y
    <2> QED BY <1>1, <1>4, <2>3, <2>4 DEF Follows
  <1> QED BY <1>3, <1>4

-----------------------------------------------------------------------------
(* What is accepted the judge calls valid.                                 *)
LEMMA VerifiedIsGood ==
  ASSUME NEW c, NEW key, verify_signature(c, key) = "ok"
  PROVE  check_sig(c, key) = "good"
  <1>1. rsa_range_ok(c.alg, key.bits)
    BY DEF verify_signature
  <1> QED BY <1>1 DEF check_sig

LEMMA ConstraintByMayIssue ==
  ASSUME NEW p \in Seq(Certificate), NEW i \in 2 .. Len(p), MayIssue(p, i)
  PROVE  check_ca_constraint(p, i) = {}
  <1>1. p[i] \in Certificate /\ p[i].pathlen \in Nat
    <2>1. p[i] \in Certificate
      OBVIOUS
    <2> QED BY <2>1 DEF Certificate
  <1>2. CASE p[i].ca = "yes" /\ i - 2 <= p[i].pathlen /\ p[i].usage # "other"
    <2>1. i \in Int
      OBVIOUS
    <2>2. ~(i - 2 > p[i].pathlen)
      BY <1>1, <1>2, <2>1
    <2> QED BY <1>2, <2>2 DEF check_ca_constraint
  <1>3. CASE p[i].ca = "none" /\ SelfSigned(p[i]) /\ i = Len(p) /\ (p[i].v1 \/ p[i].usage = "sign")
             /\ p[i].usage # "other"
    BY <1>3 DEF check_ca_constraint
  <1> QED BY <1>2, <1>3 DEF MayIssue

LEMMA AcceptedIsValid ==
  ASSUME NEW j, NEW pool \in Seq(Certificate), NEW o, IsPath(o, pool), Accepted(j, Read(pool, o)),
         Len(o) # 1 \/ j.anchored \/ j.allow
  PROVE  chain_status(check_chain(j, pool, o)) = "valid"
  <1> DEFINE c == Read(pool, o)
             r == check_chain(j, pool, o)
             single == Len(c) = 1 /\ ~j.anchored
  <1>1. c \in Seq(Certificate) /\ Len(c) = Len(o) /\ Len(c) \in Nat \ {0} /\ DOMAIN c = 1 .. Len(c)
    BY DEF Read, IsPath
  <1>2. Last(c) = c[Len(c)]
    BY DEF Last
  <1> HIDE DEF c
  <1>3. /\ \A i \in 1 .. Len(c) - 1 : Issues(c[i + 1], c[i])
        /\ \A i \in 2 .. Len(c) : MayIssue(c, i)
        /\ \A i \in DOMAIN c : InWindow(c[i], j.now)
        /\ SelfSigned(Last(c))
        /\ j.anchored => Last(c) \in Range(j.anchors)
        /\ ~j.anchored => Issues(Last(c), Last(c))
    BY DEF Accepted, c
  <1>4. ~j.anchored => check_sig(Last(c), Last(c).key) = "good"
    BY <1>3, VerifiedIsGood DEF Issues
  <1>5. CASE single
    <2>1. Last(c) = c[1] /\ 1 \in DOMAIN c
      BY <1>1, <1>2, <1>5
    <2>2. SelfSigned(c[1]) /\ j.allow /\ check_sig(c[1], c[1].key) = "good" /\ InWindow(c[1], j.now)
      BY <1>1, <1>3, <1>4, <1>5, <2>1
    <2>3. verify_single(j, c[1]) = {}
      BY <2>2 DEF verify_single
    <2>4. r.issues = {} /\ r.uncertain = {}
      BY <1>5, <2>2, <2>3 DEF check_chain, Read, c
    <2> HIDE DEF r
    <2> QED BY <2>4 DEF chain_status, r
  <1>6. CASE ~single
    <2>1. \A i \in 1 .. Len(c) - 1 : i \in Linked(c) /\ Signed(c, i) = "good" /\ check_ca_constraint(c, i + 1) = {}
      <3> SUFFICES ASSUME NEW i \in 1 .. Len(c) - 1
                   PROVE  i \in Linked(c) /\ Signed(c, i) = "good" /\ check_ca_constraint(c, i + 1) = {}
        OBVIOUS
      <3>1. Issues(c[i + 1], c[i])
        BY <1>3
      <3>2. i \in Linked(c) /\ Signed(c, i) = "good"
        BY <3>1, VerifiedIsGood DEF Issues, Linked, Signed
      <3>3. i + 1 \in 2 .. Len(c)
        BY <1>1
      <3>4. check_ca_constraint(c, i + 1) = {}
        BY <1>1, <1>3, <3>3, ConstraintByMayIssue
      <3> QED BY <3>2, <3>4
    <2>2. Linked(c) \subseteq 1 .. Len(c) - 1
      BY DEF Linked
    <2>3. LinkIssues(c) = {}
      <3>1. (1 .. Len(c) - 1) \ Linked(c) = {}
        BY <2>1
      <3>2. {k \in Linked(c) : Signed(c, k) = "bad"} = {}
        BY <2>1, <2>2
      <3>3. \A i \in Linked(c) : {<<i + 1, what>> : what \in check_ca_constraint(c, i + 1)} = {}
        BY <2>1, <2>2
      <3>4. UNION {{<<i + 1, what>> : what \in check_ca_constraint(c, i + 1)} : i \in Linked(c)} = {}
        BY <3>3
      <3> QED BY <3>1, <3>2, <3>4 DEF LinkIssues
    <2>4. EndIssues(j, c) = {}
      BY <1>3, <1>4 DEF EndIssues
    <2>5. Unchecked(j, c) = {}
      <3>1. {i \in Linked(c) : Signed(c, i) = "unknown"} = {}
        BY <2>1, <2>2
      <3>2. ~(SelfSigned(Last(c)) /\ ~(j.anchored /\ Last(c) \in Range(j.anchors))
              /\ check_sig(Last(c), Last(c).key) = "unknown")
        BY <1>3, <1>4
      <3> QED BY <3>1, <3>2 DEF Unchecked
    <2>6. {<<i, "window">> : i \in {k \in DOMAIN c : ~InWindow(c[k], j.now)}} = {}
      BY <1>3
    <2>7. /\ r.issues = LinkIssues(c) \cup EndIssues(j, c)
                        \cup {<<i, "window">> : i \in {k \in DOMAIN c : ~InWindow(c[k], j.now)}}
          /\ r.uncertain = Unchecked(j, c)
      BY <1>6 DEF check_chain, Read, c
    <2>8. r.issues = {} /\ r.uncertain = {}
      BY <2>3, <2>4, <2>5, <2>6, <2>7
    <2> HIDE DEF r
    <2> QED BY <2>8 DEF chain_status, r
  <1> QED BY <1>5, <1>6

(* A chain that is built along a way is accepted as the way is: without    *)
(* anchors it is the way, with them it ends at the first copy of its root. *)
LEMMA BuiltIsAccepted ==
  ASSUME NEW j, NEW pool \in Seq(Certificate), Promised(j, pool), NEW o, IsPath(o, pool),
         Follows(j, pool, o), Built(j, pool, o)
  PROVE  Accepted(j, Read(pool, o))
  <1>1. PICK s, f : /\ IsWay(j, pool, s) /\ Top(pool, s, f) /\ Along(pool, o, s)
                    /\ j.anchored => Len(o) <= f
    BY DEF Follows
  <1> DEFINE c == Read(pool, o)
             p == Read(pool, s)
             n == Len(o)
             m == Len(s)
  <1>2. n \in Nat \ {0} /\ c \in Seq(Certificate) /\ Len(c) = n /\ DOMAIN c = 1 .. n
        /\ \A i \in 1 .. n : c[i] = pool[o[i]]
    BY SMTT(30) DEF Read, IsPath
  <1>3. m \in Nat \ {0} /\ p \in Seq(Certificate) /\ Len(p) = m /\ DOMAIN p = 1 .. m
        /\ \A i \in 1 .. m : p[i] = pool[s[i]]
    <2>1. IsPath(s, pool)
      BY <1>1 DEF IsWay
    <2> QED BY <2>1 DEF Read, IsPath
  <1>4. n <= m /\ \A i \in 1 .. n : c[i] = p[i] /\ i \in 1 .. m
    BY <1>1, <1>2, <1>3 DEF Along
  <1>5. Accepted(j, p)
    BY <1>1 DEF IsWay
  <1>6. CASE ~j.anchored
    <2>1. n = m
      BY <1>1, <1>6 DEF Built, IsWay
    <2> HIDE DEF c, p, n, m
    <2>2. c = p
      BY <1>2, <1>3, <1>4, <2>1, SameSeq
    <2> QED BY <1>5, <2>2 DEF c
  <1>7. CASE j.anchored
    <2>1. f \in 1 .. m /\ n <= f /\ \A i \in 1 .. m : SelfSigned(pool[s[i]]) <=> i >= f
      BY <1>1, <1>7 DEF Top
    <2>2. n = f
      <3>1. CASE SelfSigned(pool[Last(o)])
        <4>1. Last(o) = o[n] /\ n \in 1 .. n
          BY <1>2 DEF Last
        <4>2. SelfSigned(pool[s[n]]) /\ n \in 1 .. m
          BY <1>1, <1>4, <3>1, <4>1 DEF Along
        <4> HIDE DEF n, m
        <4> QED BY <1>2, <1>3, <2>1, <4>2
      <3>2. CASE Candidates(pool, o) = {}
        <4>1. ASSUME Len(o) < f PROVE FALSE
          <5>1. Choice(pool, o, 1) \in DOMAIN pool /\ Candidates(pool, o) # {}
            <6> HIDE DEF c, p, n, m
            <6>1. ~Fork(pool) /\ 1 \in Int
              BY DEF Promised
            <6>2. IsWay(j, pool, s) /\ Top(pool, s, f) /\ Along(pool, o, s)
              BY <1>1
            <6> QED BY <4>1, <6>1, <6>2, ClimbsAlong
          <5> QED BY <3>2, <5>1
        <4>2. n \in Int /\ f \in Int /\ ~(n < f)
          BY <1>2, <1>3, <2>1, <4>1
        <4> QED BY <2>1, <4>2
      <3> QED BY <1>7, <3>1, <3>2 DEF Built
    <2>3. p[f] = p[m]
      <3>1. m \in f .. m /\ f \in 1 .. m /\ m \in 1 .. m
        BY <1>3, <2>1
      <3> QED BY <1>1, <1>3, <3>1 DEF Top
    <2> HIDE DEF c, p
    <2>4. /\ Last(c) = c[n] /\ c[n] = p[f] /\ Last(p) = p[m] /\ Last(c) = Last(p)
      BY <1>2, <1>3, <1>4, <2>2, <2>3 DEF Last
    <2>5. /\ \A i \in 1 .. m - 1 : Issues(p[i + 1], p[i])
          /\ \A i \in 2 .. m : MayIssue(p, i)
          /\ \A i \in 1 .. m : InWindow(p[i], j.now)
          /\ SelfSigned(Last(p)) /\ Last(p) \in Range(j.anchors)
      BY <1>3, <1>5, <1>7 DEF Accepted
    <2> HIDE DEF n, m
    <2>6. ASSUME NEW i \in 1 .. n - 1 PROVE Issues(c[i + 1], c[i])
      <3>1. i \in 1 .. n /\ i + 1 \in 1 .. n /\ i \in 1 .. m - 1
        BY <1>2, <1>3, <1>4
      <3> QED BY <1>4, <2>5, <3>1
    <2>7. ASSUME NEW i \in 2 .. n PROVE MayIssue(c, i)
      <3>1. i \in 1 .. n /\ i \in 2 .. m /\ i <= n
        BY <1>2, <1>3, <1>4
      <3>2. MayIssue(p, i) /\ c[i] = p[i]
        BY <1>4, <2>5, <3>1
      <3>3. i = m => i = n
        BY <1>2, <1>3, <1>4, <3>1
      <3> QED BY <1>2, <1>3, <3>2, <3>3 DEF MayIssue
    <2>8. \A i \in DOMAIN c : InWindow(c[i], j.now)
      BY <1>2, <1>4, <2>5
    <2>9. SelfSigned(Last(c)) /\ Last(c) \in Range(j.anchors)
      BY <2>4, <2>5
    <2> QED BY <1>2, <1>7, <2>6, <2>7, <2>8, <2>9 DEF Accepted, c
  <1> QED BY <1>6, <1>7

-----------------------------------------------------------------------------
(* The run of the command keeps to the ways, and so loses none.            *)
Kept(j, r) == Promised(j, r.pool) => chain_status(r) = "valid" \/ (Len(r.pool) = 1 /\ ~j.allow)
WayInv ==
  /\ order # <<>> /\ Promised(job, Here) => Follows(job, Here, order)
  /\ \A n \in DOMAIN reports : Kept(job, reports[n])

LEMMA StartKeepsWay ==
  ASSUME ChainInv, WayInv, Start
  PROVE  WayInv'
  <1>1. Left /\ order' = StartOf(job, Here) /\ job' = job /\ reports' = reports
    BY DEF Start
  <1>2. Here' = Here /\ Here \in Seq(Certificate) /\ Here # <<>>
    BY <1>1, HereIsSeq DEF Here, Pool
  <1>3. Promised(job, Here) => Follows(job, Here, order')
    BY <1>1, <1>2, StartFollows
  <1> QED BY <1>1, <1>2, <1>3 DEF WayInv

LEMMA LinkKeepsWay ==
  ASSUME ChainInv, WayInv, Link
  PROVE  WayInv'
  <1>1. /\ Left /\ order # <<>> /\ ~Built(job, Here, order) /\ job' = job /\ reports' = reports
        /\ order' = IF job.anchored THEN build_from(Here, order, AnchorsFrom) ELSE assemble_order(Here, order)
    BY DEF Link
  <1>2. Here' = Here /\ Here \in Seq(Certificate) /\ AnchorsFrom \in Int
    BY <1>1, HereIsSeq DEF Here, Pool
  <1>3. IsPath(order, Here)
    BY <1>1 DEF ChainInv
  <1>4. ASSUME Promised(job, Here) PROVE Follows(job, Here, order')
    <2>1. Follows(job, Here, order)
      BY <1>1, <1>4 DEF WayInv
    <2> QED BY <1>1, <1>2, <1>3, <1>4, <2>1, LinkFollows
  <1> QED BY <1>1, <1>2, <1>4 DEF WayInv

LEMMA JudgeKeepsWay ==
  ASSUME ChainInv, WayInv, Judge
  PROVE  WayInv'
  <1> DEFINE r == check_chain(job, Here, order)
  <1>1. /\ Left /\ order # <<>> /\ Built(job, Here, order)
        /\ job' = job /\ order' = <<>> /\ reports' = Append(reports, r)
    BY DEF Judge
  <1>2. IsPath(order, Here) /\ Here \in Seq(Certificate) /\ r.pool = Here
    BY <1>1, HereIsSeq DEF ChainInv, check_chain
  <1>3. Kept(job, r)
    <2> SUFFICES ASSUME Promised(job, Here), ~(Len(Here) = 1 /\ ~job.allow)
                 PROVE  chain_status(r) = "valid"
      BY <1>2 DEF Kept
    <2>1. Follows(job, Here, order)
      BY <1>1 DEF WayInv
    <2>2. Accepted(job, Read(Here, order))
      BY <1>1, <1>2, <2>1, BuiltIsAccepted
    <2>3. Len(order) # 1 \/ job.anchored \/ job.allow
      BY <1>1 DEF Built
    <2> QED BY <1>2, <2>2, <2>3, AcceptedIsValid
  <1> HIDE DEF r
  <1>4. PICK S : reports \in Seq(S)
    BY DEF ChainInv
  <1>5. \A n \in DOMAIN reports' : \/ n \in DOMAIN reports /\ reports'[n] = reports[n]
                                   \/ reports'[n] = r
    <2>1. /\ DOMAIN reports = 1 .. Len(reports) /\ DOMAIN reports' = 1 .. Len(reports) + 1 /\ Len(reports) \in Nat
          /\ \A n \in 1 .. Len(reports) : reports'[n] = reports[n]
          /\ reports'[Len(reports) + 1] = r
      BY <1>1, <1>4, Appended
    <2> QED BY <2>1
  <1>6. \A n \in DOMAIN reports' : Kept(job, reports'[n])
    BY <1>3, <1>5 DEF WayInv
  <1> QED BY <1>1, <1>6 DEF WayInv

LEMMA OthersKeepWay ==
  ASSUME ChainInv, WayInv, Fail \/ Emit \/ UNCHANGED vars
  PROVE  WayInv'
  <1>1. job' = job /\ order' = order /\ reports' = reports
    BY DEF Fail, Emit, vars
  <1>2. Here' = Here
    BY <1>1 DEF Here, Pool
  <1> QED BY <1>1, <1>2 DEF WayInv

(* Whatever the files hold: where there is a chain to find, no certificate *)
(* has two issuers to choose between and, without anchors, one name is the *)
(* leaf's alone, verify-chain finds a chain, never taking a link back, and *)
(* calls it valid; but for a certificate that is all there is, which is    *)
(* its own root and may not be trusted for that (src/cert/verify_chain.rs, *)
(* build_from, assemble_order and check_chain).                            *)
THEOREM LosesNone == Spec => []LosesOnlyAtForks
  <1>1. Init => ChainInv /\ Sound /\ WayInv
    <2>1. Init => WayInv
      <3> SUFFICES ASSUME Init PROVE WayInv
        OBVIOUS
      <3>1. order = <<>> /\ DOMAIN reports = {}
        BY DEF Init
      <3> QED BY <3>1 DEF WayInv
    <2> QED BY <2>1, ChainStarts
  <1>2. ChainInv /\ Sound /\ WayInv /\ [Next]_vars => ChainInv' /\ Sound' /\ WayInv'
    <2>1. ChainInv /\ Sound /\ [Next]_vars => ChainInv' /\ Sound'
      BY StartKeeps, LinkKeeps, JudgeKeeps, FailKeeps, EmitKeeps, ChainStuttering DEF Next
    <2>2. ChainInv /\ WayInv /\ [Next]_vars => WayInv'
      BY StartKeepsWay, LinkKeepsWay, JudgeKeepsWay, OthersKeepWay DEF Next
    <2> QED BY <2>1, <2>2
  <1>3. WayInv => LosesOnlyAtForks
    BY DEF WayInv, Kept, LosesOnlyAtForks
  <1> QED BY <1>1, <1>2, <1>3, PTL DEF Spec
=============================================================================
