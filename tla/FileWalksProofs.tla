---------------------------- MODULE FileWalksProofs ----------------------------
(***************************************************************************)
(* What a walk says of a tree that other programs change while it goes on  *)
(* (WalksAreTrue of FileWalks), for every tree, every question and any     *)
(* number of changes.                                                      *)
(***************************************************************************)
EXTENDS FileWalks, NumbersProofs

-----------------------------------------------------------------------------
(* Paths.                                                                  *)

Under(p, d) == p = d \/ Within(p, d)
Prefix(p, k) == SubSeq(p, 1, k)

(* Two paths are the same when they have the same names.                   *)
LEMMA SamePath ==
  ASSUME NEW S, NEW p \in Seq(S), NEW q \in Seq(S), Len(p) = Len(q), \A i \in 1..Len(p) : p[i] = q[i]
  PROVE  p = q
  OBVIOUS

(* What a prefix of a path is.                                             *)
LEMMA PrefixIs ==
  ASSUME NEW S, NEW p \in Seq(S), NEW k \in 0..Len(p)
  PROVE  /\ Prefix(p, k) \in Seq(S) /\ Len(Prefix(p, k)) = k
         /\ \A i \in 1..k : Prefix(p, k)[i] = p[i]
  BY DEF Prefix

(* A prefix of a prefix.                                                   *)
LEMMA PrefixOfPrefix ==
  ASSUME NEW S, NEW p \in Seq(S), NEW k \in 0..Len(p), NEW j \in 0..k
  PROVE  Prefix(Prefix(p, k), j) = Prefix(p, j)
<1>1. /\ Prefix(p, k) \in Seq(S) /\ Len(Prefix(p, k)) = k
      /\ \A i \in 1..k : Prefix(p, k)[i] = p[i]
  BY PrefixIs
<1>2. j \in 0..Len(Prefix(p, k)) /\ j \in 0..Len(p)
  BY <1>1
<1>3. /\ Prefix(Prefix(p, k), j) \in Seq(S) /\ Len(Prefix(Prefix(p, k), j)) = j
      /\ \A i \in 1..j : Prefix(Prefix(p, k), j)[i] = Prefix(p, k)[i]
  BY <1>1, <1>2, PrefixIs
<1>4. /\ Prefix(p, j) \in Seq(S) /\ Len(Prefix(p, j)) = j
      /\ \A i \in 1..j : Prefix(p, j)[i] = p[i]
  BY <1>2, PrefixIs
<1>5. \A i \in 1..j : i \in 1..k
  OBVIOUS
<1> QED
  BY <1>1, <1>3, <1>4, <1>5, SamePath

(* Lying within a directory, in terms of prefixes.                         *)
LEMMA WithinIs ==
  ASSUME NEW S, NEW p \in Seq(S), NEW d \in Seq(S)
  PROVE  /\ Within(p, d) <=> Len(d) < Len(p) /\ Prefix(p, Len(d)) = d
         /\ Under(p, d) <=> Len(d) <= Len(p) /\ Prefix(p, Len(d)) = d
         /\ Within(p, Root) <=> p # Root
<1>1. Prefix(p, Len(p)) = p
  <2>1. Len(p) \in 0..Len(p)
    OBVIOUS
  <2> QED
    BY <2>1, PrefixIs, SamePath
<1>2. Within(p, d) <=> Len(d) < Len(p) /\ Prefix(p, Len(d)) = d
  BY DEF Within, Prefix
<1>3. ASSUME Len(d) = Len(p), Prefix(p, Len(d)) = d PROVE p = d
  BY <1>1, <1>3
<1>4. Under(p, d) <=> Len(d) <= Len(p) /\ Prefix(p, Len(d)) = d
  BY <1>1, <1>2, <1>3 DEF Under
<1>5. Within(p, Root) <=> p # Root
  <2>1. Root \in Seq(S) /\ Len(Root) = 0
    BY DEF Root
  <2>2. Prefix(p, 0) = Root
    BY <2>1, PrefixIs, SamePath
  <2>3. Len(p) = 0 => p = Root
    BY <1>1, <2>2
  <2> QED
    BY <2>1, <2>2, <2>3 DEF Within, Prefix
<1> QED
  BY <1>2, <1>4, <1>5

(* What lies within a path within another lies within that one.            *)
LEMMA WithinTrans ==
  ASSUME NEW S, NEW p \in Seq(S), NEW q \in Seq(S), NEW d \in Seq(S), Under(p, q), Under(q, d)
  PROVE  Under(p, d) /\ (Within(p, q) \/ Within(q, d) => Within(p, d))
<1>1. Len(q) <= Len(p) /\ Prefix(p, Len(q)) = q /\ Len(d) <= Len(q) /\ Prefix(q, Len(d)) = d
  BY WithinIs
<1>2. Prefix(p, Len(d)) = d
  BY <1>1, PrefixOfPrefix
<1>3. Within(p, q) \/ Within(q, d) => Len(d) < Len(p)
  BY <1>1 DEF Within
<1> QED
  BY <1>1, <1>2, <1>3, WithinIs

(* Of two directories above a path one is above the other.                 *)
LEMMA AboveIsAChain ==
  ASSUME NEW S, NEW p \in Seq(S), NEW d \in Seq(S), NEW e \in Seq(S), Under(p, d), Under(p, e)
  PROVE  Under(d, e) \/ Under(e, d)
<1>1. Len(d) <= Len(p) /\ Prefix(p, Len(d)) = d /\ Len(e) <= Len(p) /\ Prefix(p, Len(e)) = e
  BY WithinIs
<1>2. CASE Len(e) <= Len(d)
  BY <1>1, <1>2, PrefixOfPrefix, WithinIs
<1>3. CASE Len(d) <= Len(e)
  BY <1>1, <1>3, PrefixOfPrefix, WithinIs
<1> QED
  BY <1>2, <1>3

(* The next step from a directory towards a path within it.                *)
LEMMA StepTowards ==
  ASSUME NEW S, NEW p \in Seq(S), NEW d \in Seq(S), Within(p, d)
  PROVE  LET q == Prefix(p, Len(d) + 1)
         IN /\ q \in Seq(S) /\ Len(q) = Len(d) + 1 /\ Parent(q) = d /\ Under(p, q) /\ Len(q) <= Len(p)
            /\ Name(q) = p[Len(d) + 1]
<1> DEFINE k == Len(d) + 1
           q == Prefix(p, k)
<1>1. Len(d) < Len(p) /\ Prefix(p, Len(d)) = d /\ k \in 0..Len(p) /\ Len(d) \in 0..k
  BY WithinIs
<1>2. q \in Seq(S) /\ Len(q) = k /\ \A i \in 1..k : q[i] = p[i]
  BY <1>1, PrefixIs
<1>3. Prefix(q, Len(d)) = d
  BY <1>1, PrefixOfPrefix
<1>4. Parent(q) = d
  <2>1. Len(q) - 1 = Len(d)
    BY <1>2
  <2> QED
    BY <1>3, <2>1 DEF Parent, Prefix
<1>5. Under(p, q)
  BY <1>1, <1>2, WithinIs
<1> QED
  BY <1>1, <1>2, <1>4, <1>5 DEF Name

(* What is above a path is its parent or above that.                       *)
LEMMA ParentIs ==
  ASSUME NEW S, NEW p \in Seq(S), NEW d \in Seq(S), Within(p, d)
  PROVE  Parent(p) \in Seq(S) /\ Under(Parent(p), d) /\ (d # Root => Parent(p) # Root)
<1>1. Len(d) < Len(p) /\ Prefix(p, Len(d)) = d /\ Len(d) \in Nat /\ Len(p) \in Nat
  BY WithinIs
<1>2. Len(p) - 1 \in 0..Len(p) /\ Len(d) \in 0..(Len(p) - 1)
  BY <1>1
<1>3. Parent(p) = Prefix(p, Len(p) - 1)
  BY DEF Parent, Prefix
<1>4. Parent(p) \in Seq(S) /\ Len(Parent(p)) = Len(p) - 1 /\ Prefix(Parent(p), Len(d)) = d
  BY <1>1, <1>2, <1>3, PrefixIs, PrefixOfPrefix, ZenonT(60)
<1>5. Under(Parent(p), d)
  BY <1>2, <1>4, WithinIs
<1>6. ASSUME Parent(p) = Root PROVE d = Root
  BY <1>5, <1>6 DEF Under, Within, Root
<1> QED
  BY <1>4, <1>5, <1>6

(* An entry of a directory lies within it, and no entry within another.    *)
LEMMA EntriesOf ==
  ASSUME NEW S, NEW d \in Seq(S), NEW p \in Seq(S), Len(p) = Len(d) + 1, Parent(p) = d
  PROVE  /\ Within(p, d) /\ p # Root
         /\ \A q \in Seq(S) : Len(q) = Len(p) => ~Within(q, p)
         /\ \A e \in Seq(S) : Under(p, e) => p = e \/ Under(d, e)
         /\ \A i \in 1..Len(d) : p[i] = d[i]
<1>1. Len(p) - 1 = Len(d) /\ Len(d) \in 0..Len(p)
  OBVIOUS
<1>2. Prefix(p, Len(d)) = d
  BY <1>1 DEF Parent, Prefix
<1>3. Within(p, d) /\ p # Root
  BY <1>1, <1>2, WithinIs DEF Root
<1>4. \A q \in Seq(S) : Len(q) = Len(p) => ~Within(q, p)
  BY DEF Within
<1>5. ASSUME NEW e \in Seq(S), Under(p, e), p # e PROVE Under(d, e)
  <2>1. Within(p, e) /\ Len(e) < Len(p) /\ Prefix(p, Len(e)) = e
    BY <1>5, WithinIs DEF Under
  <2>2. Len(e) \in 0..Len(d)
    BY <2>1
  <2>3. Prefix(d, Len(e)) = e
    BY <1>1, <1>2, <2>1, <2>2, PrefixOfPrefix
  <2> QED
    BY <2>2, <2>3, WithinIs
<1>6. \A i \in 1..Len(d) : p[i] = d[i]
  BY <1>1, <1>2, PrefixIs
<1> QED
  BY <1>3, <1>4, <1>5, <1>6

-----------------------------------------------------------------------------
(* Trees.                                                                  *)

(* Everything above a path of a tree is a directory of it.                 *)
LEMMA AboveIsDir ==
  ASSUME NEW t, TreeOK(t), NEW p \in DOMAIN t, NEW d \in Paths, Within(p, d), d # Root
  PROVE  d \in DOMAIN t /\ t[d].type = "dir"
<1>1. p \in Paths
  BY DEF TreeOK
<1>2. Len(d) < Len(p) /\ Prefix(p, Len(d)) = d
  BY <1>1, WithinIs DEF Paths
<1>3. Len(d) # 0
  BY SamePath DEF Paths, Root
<1>4. Len(d) \in 1..(Len(p) - 1)
  BY <1>1, <1>2, <1>3 DEF Paths
<1> QED
  BY <1>2, <1>4 DEF TreeOK, Prefix

(* Conversely, this is all there is to a well-formed tree.                 *)
LEMMA DirsMakeATree ==
  ASSUME NEW t, IsFiniteSet(DOMAIN t), DOMAIN t \subseteq Paths \ {Root}, t \in [DOMAIN t -> Nodes],
         \A p \in DOMAIN t : \A d \in Paths : Within(p, d) /\ d # Root => d \in DOMAIN t /\ t[d].type = "dir"
  PROVE  TreeOK(t)
<1>1. SUFFICES ASSUME NEW p \in DOMAIN t, NEW k \in 1..(Len(p) - 1)
               PROVE  SubSeq(p, 1, k) \in DOMAIN t /\ t[SubSeq(p, 1, k)].type = "dir"
  BY DEF TreeOK
<1>2. p \in Paths /\ k \in 0..Len(p) /\ k < Len(p)
  BY DEF Paths
<1>3. Prefix(p, k) \in Paths /\ Len(Prefix(p, k)) = k
  BY <1>2, PrefixIs DEF Paths
<1>4. Within(p, Prefix(p, k)) /\ Prefix(p, k) # Root
  BY <1>2, <1>3, WithinIs DEF Paths, Root
<1> QED
  BY <1>3, <1>4 DEF Prefix

(* What another program writes leaves a tree, and a file where it wrote.   *)
Written(t, p, data) ==
  [q \in DOMAIN t \cup {p} |-> IF q = p THEN [type |-> "file", data |-> data, mtime |-> Now, to |-> None] ELSE t[q]]
(* A tree in which a file was written is one.                              *)
LEMMA WriteMakesATree ==
  ASSUME WalkAssumptions, NEW t, TreeOK(t), NEW w \in Writes, IsDir(t, Parent(w[1])),
         w[1] \in DOMAIN t => t[w[1]].type = "file"
  PROVE  /\ TreeOK(Written(t, w[1], w[2]))
         /\ DOMAIN Written(t, w[1], w[2]) = DOMAIN t \cup {w[1]}
         /\ Written(t, w[1], w[2])[w[1]].type = "file"
         /\ \A p \in DOMAIN t : p # w[1] => Written(t, w[1], w[2])[p] = t[p]
<1> DEFINE p == w[1]
           node == [type |-> "file", data |-> w[2], mtime |-> Now, to |-> None]
           new == Written(t, p, w[2])
<1>1. p \in Paths /\ p # Root /\ w[2] \in Seq(Int) /\ Now \in Int
  BY DEF WalkAssumptions
<1>2. node \in Nodes
  BY <1>1 DEF Nodes
<1>3. /\ DOMAIN new = DOMAIN t \cup {p} /\ new[p] = node
      /\ \A q \in DOMAIN t : q # p => new[q] = t[q]
  BY DEF Written
<1>4. t \in [DOMAIN t -> Nodes] /\ DOMAIN t \subseteq Paths \ {Root} /\ IsFiniteSet(DOMAIN t)
  BY DEF TreeOK
<1>5. new \in [DOMAIN new -> Nodes]
  BY <1>2, <1>3, <1>4 DEF Written
<1>6. IsFiniteSet(DOMAIN new) /\ DOMAIN new \subseteq Paths \ {Root}
  BY <1>1, <1>3, <1>4, FS_AddElement
<1>7. ASSUME NEW q \in DOMAIN new, NEW d \in Paths, Within(q, d), d # Root
      PROVE  d \in DOMAIN new /\ new[d].type = "dir"
  <2>1. CASE q = p
    <3>1. Parent(p) \in Paths /\ Under(Parent(p), d) /\ Parent(p) # Root
      BY <1>1, <1>7, <2>1, ParentIs DEF Paths
    <3>2. d \in DOMAIN t /\ t[d].type = "dir"
      BY <1>7, <3>1, AboveIsDir DEF IsDir, Under
    <3> QED
      BY <1>3, <3>2, <2>1
  <2>2. CASE q # p
    <3>1. q \in DOMAIN t
      BY <1>3, <2>2
    <3>2. d \in DOMAIN t /\ t[d].type = "dir"
      BY <1>7, <3>1, AboveIsDir
    <3> QED
      BY <1>3, <3>2
  <2> QED
    BY <2>1, <2>2
<1>8. TreeOK(new)
  <2> HIDE DEF new, p, node
  <2> QED
    BY <1>5, <1>6, <1>7, DirsMakeATree
<1> QED
  BY <1>3, <1>8

(* What another program deletes goes with all that is within it.           *)
Remains(t, p) == {q \in DOMAIN t : q # p /\ ~Within(q, p)}
Deleted(t, p) == [q \in Remains(t, p) |-> t[q]]
(* A tree from which an entry was deleted, with all below it, is one.      *)
LEMMA DeleteMakesATree ==
  ASSUME NEW t, TreeOK(t), NEW p \in DOMAIN t
  PROVE  /\ TreeOK(Deleted(t, p))
         /\ DOMAIN Deleted(t, p) \subseteq DOMAIN t
         /\ \A q \in DOMAIN Deleted(t, p) : Deleted(t, p)[q] = t[q]
<1> DEFINE new == Deleted(t, p)
<1>1. DOMAIN new = Remains(t, p) /\ Remains(t, p) \in SUBSET DOMAIN t
  BY DEF Deleted, Remains
<1>2. \A q \in DOMAIN new : new[q] = t[q]
  BY DEF Deleted
<1>3. t \in [DOMAIN t -> Nodes] /\ DOMAIN t \subseteq Paths \ {Root} /\ IsFiniteSet(DOMAIN t)
  BY DEF TreeOK
<1>4. new \in [DOMAIN new -> Nodes]
  BY <1>1, <1>3 DEF Deleted
<1>5. IsFiniteSet(DOMAIN new)
  BY <1>1, <1>3, FS_Subset
<1>6. ASSUME NEW q \in DOMAIN new, NEW d \in Paths, Within(q, d), d # Root
      PROVE  d \in DOMAIN new /\ new[d].type = "dir"
  <2>1. q \in DOMAIN t /\ q \in Paths /\ p \in Paths
    BY <1>1, <1>3
  <2>2. d \in DOMAIN t /\ t[d].type = "dir"
    BY <1>6, <2>1, AboveIsDir
  <2>3. ~Under(d, p)
    <3>1. ASSUME Under(d, p) PROVE Within(q, p)
      BY <1>6, <2>1, <3>1, WithinTrans DEF Under, Paths
    <3> QED
      BY <1>1, <3>1 DEF Remains
  <2>4. d \in Remains(t, p)
    BY <2>2, <2>3 DEF Remains, Under
  <2> QED
    BY <1>1, <1>2, <2>2, <2>4
<1>7. TreeOK(new)
  <2> HIDE DEF new
  <2> QED
    BY <1>1, <1>3, <1>4, <1>5, <1>6, DirsMakeATree
<1> QED
  BY <1>1, <1>2, <1>7

-----------------------------------------------------------------------------
(* The invariant.                                                          *)

Rows == [path : Paths, size : Int, mtime : Int]
Entries == [path : Paths, type : {"file", "dir", "link"}]
FoundAt(p) == \E r \in found : r.path = p

TypesOK ==
  /\ cmd \in Commands \cup {None} /\ code \in {-1, 0, 1, 2}
  /\ tree \in was /\ \A t \in was : TreeOK(t)
  /\ pending \subseteq Entries /\ found \subseteq Rows /\ IsFiniteSet(found)
  /\ hashed \subseteq [row : found, hash : Seq(Int) \cup {None}] /\ IsFiniteSet(hashed)
  /\ cmd = None => was = {tree} /\ pending = {} /\ found = {} /\ hashed = {} /\ code = -1
  /\ code = -1 => rows = <<>>

(* Nobody makes a link or changes what an entry is without deleting it.    *)
Steady ==
  /\ \A p \in DOMAIN tree : IsLink(tree, p) => \A t \in was : p \in DOMAIN t /\ t[p] = tree[p]
  /\ \A p \in Paths : (\A t \in was : p \in DOMAIN t) => \A t \in was : t[p].type = tree[p].type

(* What is still to be looked at was there, and is of the kind it was.     *)
WasListed(e) == \E t \in was : e.path \in DOMAIN t /\ t[e.path].type = e.type
PendingOK ==
  \A e \in pending :
    \/ e.path = Root /\ e.type = "dir"
    \/ /\ e.path # Root /\ WasListed(e)
       /\ IF cmd.op = "tree" THEN e.type = "dir" /\ FoundAt(e.path) ELSE Reached(tree, e.path)

(* The walk comes to every path once.                                      *)
Apart ==
  /\ \A e, f \in pending : Under(e.path, f.path) => e = f
  /\ \A e \in pending, r \in found : ~Within(r.path, e.path) /\ (cmd.op # "tree" => r.path # e.path)
  /\ \A r, s \in found : r.path = s.path => r = s

(* What has been found was what was asked for.                             *)
FoundAs(r) ==
  \/ r.path = Root
  \/ \E t, u \in was :
       /\ Named(t, r.path) /\ Passed(u, r.path)
       /\ cmd.op \in {"largest", "duplicates"} => r = Row(r.path, Looked(u, r.path))
Hangs(r) == r.path # Root /\ (Len(r.path) = 1 \/ FoundAt(Parent(r.path)))
FoundOK == \A r \in found : IF cmd.op = "tree" THEN Hangs(r) ELSE FoundAs(r)

(* What was there all the time has been found or is still ahead.           *)
AllDrawn(p) == \A t \in was : Drawn(t, p)
Complete ==
  cmd # None /\ code # 2 =>
    \A p \in Paths :
      IF cmd.op = "tree" THEN AllDrawn(p) => FoundAt(p) \/ \E e \in pending : Within(p, e.path)
      ELSE Stable(p) => FoundAt(p) \/ \E e \in pending : Under(p, e.path)

(* A hash is that of what the file held at some moment.                    *)
HashOf(h) ==
  /\ h.hash # None => \E t \in was : Resolves(t, h.row.path) /\ Looked(t, h.row.path).data = h.hash
  /\ Stable(h.row.path) => h.hash # None
HashedOK ==
  /\ \A h, g \in hashed : h.row = g.row => h = g
  /\ \A h \in hashed : cmd.op = "duplicates" /\ HashOf(h)

(* What is printed is what the walk has gathered, in some order, cut.      *)
Vanished == \E t, u \in was : DOMAIN t \ DOMAIN u # {}
Orders == IF cmd.op = "duplicates" THEN SortedBy(Grouped, GroupKey) ELSE SortedBy(found, Key)
AnsweredOK ==
  /\ code = 2 => /\ rows = <<>> /\ cmd.op \in {"find", "glob"}
                 /\ Refused(cmd) \/ (cmd.op = "glob" /\ Vanished)
  /\ code \in {0, 1} =>
       /\ pending = {} /\ (cmd.op = "duplicates" => ToHash = {})
       /\ \E s \in Orders :
            /\ rows = First(Kept(s), Room)
            /\ code = IF Kept(s) = <<>> /\ cmd.op # "tree" THEN 1 ELSE 0

WalkInv ==
  /\ TypesOK /\ Steady /\ PendingOK /\ Apart
  /\ FoundOK /\ Complete /\ HashedOK /\ AnsweredOK

-----------------------------------------------------------------------------
(* What a question asks of a tree does not depend on how far the walk is.  *)
LEMMA SameQuestion ==
  ASSUME cmd' = cmd, ref' = ref
  PROVE  \A t, p : /\ Named(t, p)' <=> Named(t, p)
                   /\ Passed(t, p)' <=> Passed(t, p)
                   /\ Matches(t, p)' <=> Matches(t, p)
                   /\ Resolves(t, p)' <=> Resolves(t, p)
                   /\ Drawn(t, p)' <=> Drawn(t, p)
                   /\ Reached(t, p)' <=> Reached(t, p)
                   /\ Looked(t, p)' = Looked(t, p)
<1>1. \A t, p : Reached(t, p)' <=> Reached(t, p)
  BY DEF Reached
<1>2. \A t, p : Looked(t, p)' = Looked(t, p)
  BY DEF Looked
<1>3. \A t, p : Resolves(t, p)' <=> Resolves(t, p)
  BY DEF Resolves
<1>4. \A t, p : Named(t, p)' <=> Named(t, p)
  BY <1>1, <1>2, <1>3 DEF Named
<1>5. \A t, p : Passed(t, p)' <=> Passed(t, p)
  BY <1>2, <1>3 DEF Passed
<1>6. \A t, p : Matches(t, p)' <=> Matches(t, p)
  BY <1>4, <1>5 DEF Matches
<1>7. \A t, p : Drawn(t, p)' <=> Drawn(t, p)
  BY <1>1 DEF Drawn
<1> QED
  BY <1>1, <1>2, <1>3, <1>4, <1>5, <1>6, <1>7

(* Stable, spelled out.                                                    *)
LEMMA StableIs ==
  /\ \A p : Stable(p) <=> \A t \in was : Matches(t, p)
  /\ \A p : Stable(p)' <=> \A t \in was' : Matches(t, p)'
  BY DEF Stable, Always

(* More moments: what was so at one still was, what was so all the time    *)
(* still was so all the time before.                                       *)
LEMMA MoreMoments ==
  ASSUME cmd' = cmd, ref' = ref, was \subseteq was'
  PROVE  /\ \A p : Stable(p)' => Stable(p)
         /\ \A p : AllDrawn(p)' => AllDrawn(p)
         /\ \A r : FoundAs(r) => FoundAs(r)'
         /\ \A e : WasListed(e) => WasListed(e)'
         /\ \A h : HashOf(h) => HashOf(h)'
<1>1. \A p : Stable(p)' => Stable(p)
  BY SameQuestion, StableIs
<1>2. \A p : AllDrawn(p)' => AllDrawn(p)
  BY SameQuestion DEF AllDrawn
<1>3. \A r : FoundAs(r) => FoundAs(r)'
  BY SameQuestion DEF FoundAs
<1>4. \A e : WasListed(e) => WasListed(e)'
  BY DEF WasListed
<1>5. \A h : HashOf(h) => HashOf(h)'
  BY <1>1, SameQuestion DEF HashOf
<1> QED
  BY <1>1, <1>2, <1>3, <1>4, <1>5

-----------------------------------------------------------------------------
(* Before a command begins nothing has been found.                         *)
LEMMA InitKeepsInv ==
  ASSUME WalkAssumptions, Init
  PROVE  WalkInv
<1>1. TreeOK(tree)
  BY DEF Init, WalkAssumptions
<1>2. TypesOK
  BY <1>1, FS_EmptySet DEF Init, TypesOK
<1>3. Steady
  BY DEF Init, Steady
<1>4. PendingOK /\ Apart /\ FoundOK /\ HashedOK
  BY DEF Init, PendingOK, Apart, FoundOK, HashedOK
<1>5. Complete /\ AnsweredOK
  BY DEF Init, Complete, AnsweredOK
<1> QED
  BY <1>2, <1>3, <1>4, <1>5 DEF WalkInv

(* What other programs do: they make no links, and nothing is of another   *)
(* kind without having been deleted.                                       *)
Succeeds(new, old) ==
  /\ \A p \in DOMAIN new : IsLink(new, p) => p \in DOMAIN old /\ new[p] = old[p]
  /\ \A p \in DOMAIN new \cap DOMAIN old : new[p].type = old[p].type
(* Any such change keeps the invariant.                                    *)
LEMMA ChangeKeepsInv ==
  ASSUME WalkInv, NEW new, Change(new), TreeOK(new), Succeeds(new, tree)
  PROVE  WalkInv'
<1> USE DEF WalkInv
<1>1. /\ cmd # None /\ code = -1 /\ tree' = new /\ was' = was \cup {new}
      /\ UNCHANGED <<cmd, ref, pending, found, hashed, rows, code>>
  BY DEF Change
<1>2. TypesOK'
  BY <1>1 DEF TypesOK
<1>3. Steady'
  <2>1. ASSUME NEW p \in DOMAIN new, IsLink(new, p), NEW t \in was \cup {new}
        PROVE  p \in DOMAIN t /\ t[p] = new[p]
    <3>1. p \in DOMAIN tree /\ new[p] = tree[p] /\ IsLink(tree, p)
      BY <2>1 DEF Succeeds, IsLink
    <3> QED
      BY <2>1, <3>1 DEF Steady
  <2>2. ASSUME NEW p \in Paths, \A t \in was \cup {new} : p \in DOMAIN t, NEW t \in was \cup {new}
        PROVE  t[p].type = new[p].type
    <3>1. tree \in was
      BY DEF TypesOK
    <3>2. \A u \in was : u[p].type = tree[p].type
      BY <2>2 DEF Steady
    <3>3. new[p].type = tree[p].type
      BY <2>2, <3>1 DEF Succeeds
    <3> QED
      BY <3>2, <3>3
  <2>3. (\A p \in DOMAIN tree : IsLink(tree, p) => \A t \in was : p \in DOMAIN t /\ t[p] = tree[p])'
    BY <1>1, <2>1 DEF IsLink
  <2>4. (\A p \in Paths : (\A t \in was : p \in DOMAIN t) => \A t \in was : t[p].type = tree[p].type)'
    BY <1>1, <2>2
  <2> QED
    BY <2>3, <2>4 DEF Steady
<1>4. was \subseteq was' /\ cmd' = cmd /\ ref' = ref
  BY <1>1
<1>5. PendingOK'
  BY <1>1, <1>4, MoreMoments DEF PendingOK, Reached, FoundAt
<1>6. Apart'
  BY <1>1 DEF Apart
<1>7. FoundOK'
  BY <1>1, <1>4, MoreMoments DEF FoundOK, Hangs, FoundAt
<1>8. Complete'
  BY <1>1, <1>4, MoreMoments DEF Complete, FoundAt
<1>9. HashedOK'
  BY <1>1, <1>4, MoreMoments DEF HashedOK
<1>10. AnsweredOK'
  BY <1>1 DEF AnsweredOK
<1> QED
  BY <1>2, <1>3, <1>5, <1>6, <1>7, <1>8, <1>9, <1>10

(* So does writing a file,                                                 *)
LEMMA WriteKeepsInv ==
  ASSUME WalkAssumptions, WalkInv, Write
  PROVE  WalkInv'
<1>1. TreeOK(tree)
  BY DEF WalkInv, TypesOK
<1>2. PICK w \in Writes : /\ IsDir(tree, Parent(w[1])) /\ (w[1] \in DOMAIN tree => tree[w[1]].type = "file")
                          /\ Change(Written(tree, w[1], w[2]))
  BY DEF Write, Written
<1> DEFINE new == Written(tree, w[1], w[2])
<1>3. /\ TreeOK(new) /\ DOMAIN new = DOMAIN tree \cup {w[1]} /\ new[w[1]].type = "file"
      /\ \A p \in DOMAIN tree : p # w[1] => new[p] = tree[p]
  BY <1>1, <1>2, WriteMakesATree
<1> HIDE DEF new
<1>4. Succeeds(new, tree)
  BY <1>2, <1>3 DEF Succeeds, IsLink
<1> QED
  BY <1>2, <1>3, <1>4, ChangeKeepsInv DEF new

(* and deleting an entry.                                                  *)
LEMMA DeleteKeepsInv ==
  ASSUME WalkInv, Delete
  PROVE  WalkInv'
<1>1. TreeOK(tree)
  BY DEF WalkInv, TypesOK
<1>2. PICK p \in DOMAIN tree : Change(Deleted(tree, p))
  BY DEF Delete, Deleted, Remains
<1> DEFINE new == Deleted(tree, p)
<1>3. TreeOK(new) /\ DOMAIN new \subseteq DOMAIN tree /\ \A q \in DOMAIN new : new[q] = tree[q]
  BY <1>1, DeleteMakesATree
<1> HIDE DEF new
<1>4. Succeeds(new, tree)
  BY <1>3 DEF Succeeds
<1> QED
  BY <1>2, <1>3, <1>4, ChangeKeepsInv DEF new

(* A command that is refused finds nothing, another begins at the root.    *)
LEMMA StartKeepsInv ==
  ASSUME WalkAssumptions, WalkInv, NEW c \in Commands, Start(c)
  PROVE  WalkInv'
<1>1. /\ cmd' = c /\ c # None /\ CommandOK(c) /\ was' = {tree} /\ was = {tree}
      /\ found = {} /\ hashed = {} /\ code = -1 /\ rows = <<>>
      /\ UNCHANGED <<tree, found, hashed, rows>>
      /\ \/ ~Refused(c) /\ pending' = {Entry(Root, "dir")} /\ code' = -1
         \/ Refused(c) /\ pending' = {} /\ code' = 2
  BY DEF Start, WalkInv, TypesOK, WalkAssumptions
<1>2. TypesOK'
  <2>1. Entry(Root, "dir") \in Entries
    BY DEF Entry, Entries, Root, Paths
  <2> QED
    BY <1>1, <2>1 DEF WalkInv, TypesOK
<1>3. Steady'
  BY <1>1 DEF WalkInv, Steady
<1>4. PendingOK' /\ FoundOK' /\ HashedOK'
  BY <1>1 DEF PendingOK, FoundOK, HashedOK, Entry
<1>5. Apart'
  BY <1>1 DEF Apart
<1>6. Complete'
  <2>1. ASSUME code' # 2, NEW p \in Paths
        PROVE  /\ AllDrawn(p)' => \E e \in pending' : Within(p, e.path)
               /\ \E e \in pending' : Under(p, e.path)
    <3>1. pending' = {Entry(Root, "dir")} /\ Entry(Root, "dir").path = Root
      BY <1>1, <2>1 DEF Entry
    <3>2. Root \in Paths /\ Len(Root) = 0
      BY DEF Root, Paths
    <3>3. (Within(p, Root) <=> p # Root) /\ Under(p, Root)
      BY <3>2, WithinIs DEF Under, Paths
    <3>4. AllDrawn(p)' => p \in DOMAIN tree
      BY <1>1 DEF AllDrawn, Drawn
    <3>5. p \in DOMAIN tree => p # Root
      BY DEF WalkInv, TypesOK, TreeOK
    <3> QED
      BY <3>1, <3>3, <3>4, <3>5
  <2> QED
    BY <1>1, <2>1 DEF Complete
<1>7. AnsweredOK'
  <2>1. Refused(c) => c.op = "find"
    BY <1>1 DEF Refused, CommandOK
  <2>2. Refused(c) => Refused(cmd)'
    BY <1>1 DEF Refused
  <2> QED
    BY <1>1, <2>1, <2>2 DEF AnsweredOK
<1> QED
  BY <1>2, <1>3, <1>4, <1>5, <1>6, <1>7 DEF WalkInv

-----------------------------------------------------------------------------
(* One entry after the other.                                              *)

ChildOf(p, d) == p \in Paths /\ Len(p) = Len(d) + 1 /\ Parent(p) = d

(* Going on from an entry to its children keeps paths apart.               *)
LEMMA GoOnKeepsApart ==
  ASSUME TypesOK, Apart, NEW e \in pending, NEW more, NEW new, GoOn(e, more, new),
         \A f \in more : ChildOf(f.path, e.path),
         \A f, g \in more : f.path = g.path => f = g,
         \A r \in new : IF cmd.op = "tree" THEN ChildOf(r.path, e.path) ELSE r.path = e.path,
         \A r, s \in new : r.path = s.path => r = s
  PROVE  Apart'
<1>1. /\ pending' = (pending \ {e}) \cup more /\ found' = found \cup new /\ cmd' = cmd
      /\ \A f \in pending : f.path \in Paths
      /\ \A r \in found : r.path \in Paths
  BY DEF GoOn, TypesOK, Entries, Rows
<1>2. e.path \in Paths
  BY <1>1
<1>3. ASSUME NEW p, ChildOf(p, e.path), NEW f \in pending \ {e}
      PROVE  ~Under(p, f.path) /\ ~Under(f.path, p)
  <2>1. f.path \in Paths /\ ~Under(e.path, f.path) /\ ~Under(f.path, e.path)
    BY <1>1, <1>3 DEF Apart
  <2>2. Within(p, e.path) /\ (Under(p, f.path) => p = f.path \/ Under(e.path, f.path))
    BY <1>2, <1>3, <2>1, EntriesOf DEF ChildOf, Paths
  <2>3. Under(f.path, p) => Under(f.path, e.path)
    BY <1>2, <1>3, <2>1, <2>2, WithinTrans DEF ChildOf, Under, Paths
  <2> QED
    BY <2>1, <2>2, <2>3 DEF Under
<1>4. ASSUME NEW p, ChildOf(p, e.path), NEW q, ChildOf(q, e.path)
      PROVE  ~Within(q, p)
  BY <1>2, <1>4, EntriesOf DEF ChildOf, Paths
<1>5. ASSUME NEW p, ChildOf(p, e.path)
      PROVE  Within(p, e.path) /\ p # e.path /\ ~Within(e.path, p)
  BY <1>2, <1>5, EntriesOf DEF ChildOf, Paths, Within
<1>6. ASSUME NEW f \in pending', NEW g \in pending', Under(f.path, g.path) PROVE f = g
  BY <1>1, <1>3, <1>4, <1>6 DEF Apart, Under
<1>7. ASSUME NEW f \in pending', NEW r \in found'
      PROVE  ~Within(r.path, f.path) /\ (cmd.op # "tree" => r.path # f.path)
  <2>1. CASE r \in found /\ f \in pending
    BY <2>1 DEF Apart
  <2>2. CASE r \in found /\ f \in more
    <3>1. ~Within(r.path, e.path) /\ Within(f.path, e.path) /\ r.path \in Paths /\ f.path \in Paths
      BY <1>1, <1>5, <2>2 DEF Apart, ChildOf
    <3>2. Under(r.path, f.path) => Within(r.path, e.path)
      BY <1>2, <3>1, WithinTrans DEF Under, Paths
    <3> QED
      BY <3>1, <3>2 DEF Under
  <2>3. CASE r \in new /\ cmd.op = "tree"
    BY <1>1, <1>3, <1>4, <2>3 DEF Under
  <2>4. CASE r \in new /\ cmd.op # "tree"
    <3>1. r.path = e.path
      BY <2>4
    <3>2. CASE f \in more
      BY <1>5, <3>1, <3>2
    <3>3. CASE f \in pending \ {e}
      BY <3>1, <3>3 DEF Apart, Under
    <3> QED
      BY <1>1, <3>2, <3>3
  <2> QED
    BY <1>1, <2>1, <2>2, <2>3, <2>4
<1>8. ASSUME NEW r \in found', NEW s \in found', r.path = s.path PROVE r = s
  <2>1. ASSUME NEW x \in found, NEW y \in new PROVE x.path # y.path
    BY <1>5, <2>1 DEF Apart
  <2> QED
    BY <1>1, <1>8, <2>1 DEF Apart
<1> QED
  BY <1>1, <1>6, <1>7, <1>8 DEF Apart

(* What going on leaves as it is.                                          *)
LEMMA GoOnKeepsRest ==
  ASSUME WalkInv, NEW e \in pending, NEW more, NEW new, GoOn(e, more, new), code = -1,
         more \subseteq Entries, new \subseteq Rows, IsFiniteSet(new)
  PROVE  TypesOK' /\ Steady' /\ HashedOK' /\ AnsweredOK'
<1>1. /\ pending' = (pending \ {e}) \cup more /\ found' = found \cup new
      /\ UNCHANGED <<tree, was, cmd, ref, hashed, rows, code>>
  BY DEF GoOn
<1>2. IsFiniteSet(found')
  BY <1>1, FS_Union DEF WalkInv, TypesOK
<1>3. TypesOK'
  BY <1>1, <1>2 DEF WalkInv, TypesOK
<1>4. Steady' /\ AnsweredOK'
  BY <1>1 DEF WalkInv, Steady, AnsweredOK
<1>5. HashedOK'
  BY <1>1, MoreMoments DEF WalkInv, HashedOK
<1> QED
  BY <1>3, <1>4, <1>5

(* The ways a visit can go.                                                *)
Unseen(e) == (Through(e, cmd) /\ ~Reaches(e)) \/ Pruned(e.path, TypeOf(e, cmd), cmd)
Gone(e) == e.path # Root /\ e.path \notin DOMAIN tree
More(e) ==
  IF TypeOf(e, cmd) = "dir" /\ Deeper(e.path, cmd)
  THEN {Entry(p, tree[p].type) : p \in Listing(e.path)} ELSE {}
RowOf(e) == IF e.path = Root THEN Bare(Root) ELSE Row(e.path, Stat(e, cmd))
Misses(e) ==
  \/ ~Wanted(e.path, TypeOf(e, cmd), cmd)
  \/ NeedsStat(cmd) /\ (Gone(e) \/ (e.path # Root /\ ~Passes(Stat(e, cmd), cmd, ref)))
(* A visit passes the entry over, gives up, or goes on.                    *)
LEMMA VisitCases ==
  ASSUME NEW e, Visit(e)
  PROVE  /\ code = -1 /\ cmd.op # "tree"
         /\ \/ Unseen(e) /\ GoOn(e, {}, {})
            \/ ~Unseen(e) /\ Misses(e) /\ GoOn(e, More(e), {})
            \/ /\ ~Unseen(e) /\ Wanted(e.path, TypeOf(e, cmd), cmd) /\ ~NeedsStat(cmd)
               /\ GoOn(e, More(e), {Bare(e.path)})
            \/ /\ ~Unseen(e) /\ Gone(e) /\ cmd.op = "glob" /\ code' = 2 /\ pending' = {}
               /\ UNCHANGED <<tree, was, cmd, ref, found, hashed, rows>>
            \/ /\ ~Unseen(e) /\ Wanted(e.path, TypeOf(e, cmd), cmd) /\ NeedsStat(cmd) /\ ~Gone(e)
               /\ e.path # Root => Passes(Stat(e, cmd), cmd, ref)
               /\ GoOn(e, More(e), {RowOf(e)})
<1> DEFINE broken == Through(e, cmd) /\ ~Reaches(e)
           type == TypeOf(e, cmd)
           more == IF ~broken /\ type = "dir" /\ Deeper(e.path, cmd)
                   THEN {Entry(p, tree[p].type) : p \in Listing(e.path)} ELSE {}
           wanted == Wanted(e.path, type, cmd)
           passes == Passes(Stat(e, cmd), cmd, ref)
           row == IF e.path = Root THEN Bare(Root) ELSE Row(e.path, Stat(e, cmd))
<1>1. code = -1 /\ cmd.op # "tree"
  BY DEF Visit
<1>2. CASE broken \/ Pruned(e.path, type, cmd)
  BY <1>1, <1>2 DEF Visit, Unseen
<1>3. CASE ~(broken \/ Pruned(e.path, type, cmd))
  <2>1. ~Unseen(e) /\ more = More(e)
    BY <1>3 DEF Unseen, More
  <2>2. IF ~wanted THEN GoOn(e, more, {})
        ELSE IF ~NeedsStat(cmd) THEN GoOn(e, more, {Bare(e.path)})
        ELSE IF Gone(e) /\ cmd.op = "glob" THEN
               /\ code' = 2 /\ pending' = {}
               /\ UNCHANGED <<tree, was, cmd, ref, found, hashed, rows>>
        ELSE IF Gone(e) \/ (e.path # Root /\ ~passes) THEN GoOn(e, more, {})
        ELSE GoOn(e, more, {row})
    <3> HIDE DEF row, passes, wanted
    <3> QED
      BY <1>3 DEF Visit, Gone, row, passes, wanted
  <2>3. row = RowOf(e)
    BY DEF RowOf
  <2>4. CASE ~wanted
    BY <1>1, <2>1, <2>2, <2>4 DEF Misses
  <2>5. CASE wanted /\ ~NeedsStat(cmd)
    BY <1>1, <2>1, <2>2, <2>5
  <2>6. CASE wanted /\ NeedsStat(cmd)
    <3> HIDE DEF row, more
    <3> QED
      BY <1>1, <2>1, <2>2, <2>3, <2>6 DEF Misses
  <2> QED
    BY <2>4, <2>5, <2>6
<1> QED
  BY <1>2, <1>3

(* What is looked up now is what the tree holds now at that path.          *)
LEMMA StatIsLooked ==
  ASSUME WalkInv, cmd.op # "tree", NEW e \in pending, ~Unseen(e), e.path # Root, ~Gone(e)
  PROVE  Resolves(tree, e.path) /\ Stat(e, cmd) = Looked(tree, e.path)
<1>1. e.path \in DOMAIN tree /\ (Through(e, cmd) => Reaches(e))
  BY DEF Gone, Unseen
<1>2. CASE Through(e, cmd)
  BY <1>1, <1>2 DEF Reaches, Stat, Resolves, Looked, Through, IsLink
<1>3. CASE ~Through(e, cmd)
  <2>1. ~(cmd.follow /\ IsLink(tree, e.path))
    <3>1. ASSUME IsLink(tree, e.path) PROVE e.type = "link"
      <4>1. PICK t \in was : e.path \in DOMAIN t /\ t[e.path].type = e.type
        BY DEF WalkInv, PendingOK, WasListed
      <4>2. t[e.path] = tree[e.path]
        BY <1>1, <3>1, <4>1 DEF WalkInv, Steady
      <4> QED
        BY <3>1, <4>1, <4>2 DEF IsLink
    <3> QED
      BY <1>3, <3>1 DEF Through
  <2> QED
    BY <1>1, <1>3, <2>1 DEF Stat, Resolves, Looked, IsLink
<1> QED
  BY <1>2, <1>3

(* An entry that is wanted was at some moment what its path named.         *)
LEMMA WantedIsNamed ==
  ASSUME WalkInv, cmd.op # "tree", NEW e \in pending, ~Unseen(e), e.path # Root,
         Wanted(e.path, TypeOf(e, cmd), cmd)
  PROVE  \E t \in was : Named(t, e.path)
<1>1. Reached(tree, e.path) /\ \A t : Reached(t, e.path)
  BY DEF WalkInv, PendingOK, Reached
<1>2. TypeOf(e, cmd) = "dir" => ~should_skip(Name(e.path), cmd.hidden)
  BY DEF Unseen, Pruned
<1>3. CASE Through(e, cmd)
  <2>1. ~Gone(e)
    BY <1>3 DEF Unseen, Reaches, Gone
  <2>2. Resolves(tree, e.path) /\ TypeOf(e, cmd) = Looked(tree, e.path).type
    BY <1>3, <2>1, StatIsLooked DEF TypeOf
  <2>3. tree \in was
    BY DEF WalkInv, TypesOK
  <2> QED
    BY <1>1, <1>2, <2>2, <2>3 DEF Named
<1>4. CASE ~Through(e, cmd)
  <2>1. PICK t \in was : e.path \in DOMAIN t /\ t[e.path].type = e.type
    BY DEF WalkInv, PendingOK, WasListed
  <2>2. Resolves(t, e.path) /\ Looked(t, e.path).type = TypeOf(e, cmd)
    BY <1>4, <2>1 DEF Resolves, Looked, TypeOf, Through
  <2> QED
    BY <1>1, <1>2, <2>2 DEF Named
<1> QED
  BY <1>3, <1>4

(* A path that was what was asked for all the time is found by its entry.  *)
LEMMA StableIsFound ==
  ASSUME WalkInv, cmd.op # "tree", NEW e \in pending, Stable(e.path)
  PROVE  ~Unseen(e) /\ ~Gone(e) /\ ~Misses(e) /\ e.path # Root
<1> DEFINE p == e.path
<1>1. tree \in was /\ TreeOK(tree) /\ \A t \in was : p \in DOMAIN t
  BY StableIs DEF WalkInv, TypesOK, Matches, Named, Resolves
<1>2. Named(tree, p) /\ Passes(Looked(tree, p), cmd, ref) /\ Resolves(tree, p)
  BY <1>1, StableIs DEF Matches, Passed, Named
<1>3. p # Root /\ p \in Paths /\ ~Gone(e)
  BY <1>1 DEF TreeOK, Gone
<1>4. tree[p].type = e.type
  <2>1. PICK t \in was : t[p].type = e.type
    BY <1>3 DEF WalkInv, PendingOK, WasListed
  <2> QED
    BY <1>1, <1>3, <2>1 DEF WalkInv, Steady
<1>5. Stat(e, cmd) = Looked(tree, p) /\ TypeOf(e, cmd) = Looked(tree, p).type
  BY <1>4 DEF Stat, TypeOf, Looked, Through, IsLink
<1>6. Through(e, cmd) => Reaches(e)
  BY <1>1, <1>2, <1>4 DEF Through, Reaches, Resolves, IsLink
<1>7. ~Pruned(p, TypeOf(e, cmd), cmd) /\ Wanted(p, TypeOf(e, cmd), cmd)
  BY <1>2, <1>5 DEF Named, Pruned
<1> QED
  BY <1>2, <1>3, <1>5, <1>6, <1>7 DEF Unseen, Misses

(* The way to a path that is there all the time leads through directories. *)
LEMMA NextIsListed ==
  ASSUME WalkInv, NEW e \in pending, NEW p \in Paths, Within(p, e.path),
         \A t \in was : p \in DOMAIN t
  PROVE  /\ e.type = "dir"
         /\ \E q \in Listing(e.path) :
              /\ Under(p, q) /\ Len(q) <= Len(p) /\ Name(q) = p[Len(q)] /\ ChildOf(q, e.path)
              /\ q = p \/ (Within(p, q) /\ tree[q].type = "dir")
<1> DEFINE d == e.path
           q == Prefix(p, Len(d) + 1)
<1>1. d \in Paths /\ tree \in was /\ \A t \in was : TreeOK(t)
  BY DEF WalkInv, TypesOK, Entries
<1>2. e.type = "dir"
  <2>1. CASE d = Root
    BY <2>1 DEF WalkInv, PendingOK
  <2>2. CASE d # Root
    <3>1. PICK t \in was : d \in DOMAIN t /\ t[d].type = e.type
      BY <2>2 DEF WalkInv, PendingOK, WasListed
    <3>2. t[d].type = "dir"
      BY <1>1, <2>2, AboveIsDir
    <3> QED
      BY <3>1, <3>2
  <2> QED
    BY <2>1, <2>2
<1>3. /\ q \in Paths /\ Len(q) = Len(d) + 1 /\ Parent(q) = d /\ Under(p, q) /\ Len(q) <= Len(p)
      /\ Name(q) = p[Len(d) + 1]
  BY <1>1, StepTowards DEF Paths
<1> HIDE DEF q
<1>4. q # Root
  BY <1>1, <1>3 DEF Root, Paths
<1>5. q \in DOMAIN tree /\ (q = p \/ (Within(p, q) /\ tree[q].type = "dir"))
  BY <1>1, <1>3, <1>4, AboveIsDir DEF Under
<1>6. q \in Listing(d)
  BY <1>3, <1>5 DEF Listing
<1>7. ChildOf(q, d)
  BY <1>3 DEF ChildOf
<1> QED
  BY <1>2, <1>3, <1>5, <1>6, <1>7

(* What a visited directory adds to what is to be looked at.               *)
LEMMA MoreIs ==
  ASSUME WalkAssumptions, WalkInv, cmd # None, cmd.op # "tree", NEW e \in pending, ~Unseen(e)
  PROVE  /\ More(e) \subseteq Entries
         /\ \A f, g \in More(e) : f.path = g.path => f = g
         /\ \A f \in More(e) : /\ ChildOf(f.path, e.path) /\ f.path # Root
                               /\ f.path \in DOMAIN tree /\ tree[f.path].type = f.type
                               /\ Reached(tree, f.path)
<1>1. TreeOK(tree) /\ CommandOK(cmd) /\ e.path \in Paths
  BY DEF WalkInv, TypesOK, WalkAssumptions, Entries
<1>2. ASSUME NEW f \in More(e)
      PROVE  /\ f = Entry(f.path, tree[f.path].type) /\ f.path \in Listing(e.path)
             /\ TypeOf(e, cmd) = "dir" /\ Deeper(e.path, cmd)
  BY <1>2 DEF More, Entry
<1>3. ASSUME NEW f \in More(e)
      PROVE  /\ ChildOf(f.path, e.path) /\ f.path # Root
             /\ f.path \in DOMAIN tree /\ tree[f.path].type = f.type
             /\ tree[f.path] \in Nodes
  BY <1>1, <1>2, <1>3 DEF Entry, Listing, TreeOK, ChildOf
<1>4. More(e) \subseteq Entries
  BY <1>2, <1>3 DEF Entries, Nodes, ChildOf, Entry
<1>5. \A f, g \in More(e) : f.path = g.path => f = g
  BY <1>2
<1>6. ASSUME NEW f \in More(e) PROVE Reached(tree, f.path)
  <2>1. /\ f.path \in Paths /\ Len(f.path) = Len(e.path) + 1 /\ Parent(f.path) = e.path
        /\ \A i \in 1..Len(e.path) : f.path[i] = e.path[i]
    BY <1>1, <1>3, EntriesOf DEF ChildOf, Paths
  <2>2. cmd.depth = None \/ Len(f.path) <= cmd.depth
    <3>1. cmd.depth = None \/ (cmd.depth \in Nat /\ Len(e.path) < cmd.depth)
      BY <1>1, <1>2, <1>6 DEF CommandOK, Deeper
    <3> QED
      BY <1>1, <2>1, <3>1 DEF Paths
  <2>3. ASSUME NEW i \in 1..(Len(f.path) - 1) PROVE ~should_skip(f.path[i], cmd.hidden)
    <3>1. i \in 1..Len(e.path) /\ e.path # Root
      BY <1>1, <2>1, <2>3 DEF Paths, Root
    <3>2. CASE i = Len(e.path)
      <4>1. ~should_skip(Name(e.path), cmd.hidden)
        BY <1>2, <1>6, <3>1 DEF Unseen, Pruned
      <4> QED
        BY <2>1, <3>1, <3>2, <4>1 DEF Name
    <3>3. CASE i # Len(e.path)
      <4>1. Reached(tree, e.path) /\ i \in 1..(Len(e.path) - 1)
        BY <1>1, <3>1, <3>3 DEF WalkInv, PendingOK, Paths
      <4> QED
        BY <2>1, <3>1, <4>1 DEF Reached
    <3> QED
      BY <3>2, <3>3
  <2> QED
    BY <2>2, <2>3 DEF Reached
<1> QED
  BY <1>3, <1>4, <1>5, <1>6

(* A row is made of what was named and passed.                             *)
LEMMA NewRowIs ==
  ASSUME WalkAssumptions, WalkInv, cmd # None, cmd.op # "tree", NEW e \in pending, ~Unseen(e),
         Wanted(e.path, TypeOf(e, cmd), cmd), NEW r,
         \/ ~NeedsStat(cmd) /\ r = Bare(e.path)
         \/ /\ NeedsStat(cmd) /\ ~Gone(e) /\ r = RowOf(e)
            /\ e.path # Root => Passes(Stat(e, cmd), cmd, ref)
  PROVE  r \in Rows /\ r.path = e.path /\ FoundAs(r)
<1>1. TreeOK(tree) /\ tree \in was /\ e.path \in Paths
  BY DEF WalkInv, TypesOK, Entries
<1>2. CASE r = Bare(e.path)
  <2>1. r \in Rows /\ r.path = e.path
    BY <1>1, <1>2 DEF Bare, Rows
  <2>2. CASE e.path = Root
    BY <2>1, <2>2 DEF FoundAs
  <2>3. CASE e.path # Root
    <3>1. CASE ~NeedsStat(cmd)
      <4>1. cmd.op = "find" /\ cmd.size = None /\ cmd.time = None /\ cmd.newer = None
        BY <3>1 DEF NeedsStat
      <4>2. PICK t \in was : Named(t, e.path)
        BY <2>3, WantedIsNamed
      <4>3. Passed(t, e.path)
        BY <4>1, <4>2 DEF Passed, Passes, Named
      <4> QED
        BY <2>1, <4>1, <4>2, <4>3 DEF FoundAs
    <3>2. CASE NeedsStat(cmd)
      <4>1. /\ Resolves(tree, e.path) /\ Stat(e, cmd) = Looked(tree, e.path) /\ r = RowOf(e)
            /\ Passes(Stat(e, cmd), cmd, ref)
        BY <2>3, <3>2, StatIsLooked
      <4>2. PICK t \in was : Named(t, e.path)
        BY <2>3, WantedIsNamed
      <4> QED
        BY <1>1, <2>1, <2>3, <4>1, <4>2 DEF FoundAs, Passed, RowOf
    <3> QED
      BY <3>1, <3>2
  <2> QED
    BY <2>1, <2>2, <2>3
<1>3. CASE r # Bare(e.path)
  <2>1. r = Row(e.path, Stat(e, cmd)) /\ e.path # Root /\ ~Gone(e) /\ Passes(Stat(e, cmd), cmd, ref)
    BY <1>3 DEF RowOf
  <2>2. Resolves(tree, e.path) /\ Stat(e, cmd) = Looked(tree, e.path)
    BY <2>1, StatIsLooked
  <2>3. Stat(e, cmd) \in Nodes
    BY <1>1, <2>2 DEF TreeOK, Resolves, Looked
  <2>4. r \in Rows /\ r.path = e.path
    BY <1>1, <2>1, <2>3 DEF Row, Rows, Nodes, Size
  <2>5. PICK t \in was : Named(t, e.path)
    BY <2>1, WantedIsNamed
  <2> QED
    BY <1>1, <2>1, <2>2, <2>4, <2>5 DEF FoundAs, Passed
<1> QED
  BY <1>2, <1>3

(* Going on from an entry keeps what is there all the time found or ahead. *)
LEMMA GoOnKeepsComplete ==
  ASSUME WalkInv, cmd # None, NEW e \in pending, NEW more, NEW new, GoOn(e, more, new), code = -1,
         \A p \in Paths :
           /\ cmd.op = "tree" /\ AllDrawn(p) /\ Within(p, e.path) =>
                (\E r \in new : r.path = p) \/ \E f \in more : Within(p, f.path)
           /\ cmd.op # "tree" /\ Stable(p) /\ Under(p, e.path) =>
                (\E r \in new : r.path = p) \/ \E f \in more : Under(p, f.path)
  PROVE  Complete'
<1>1. /\ pending' = (pending \ {e}) \cup more /\ found' = found \cup new
      /\ UNCHANGED <<tree, was, cmd, ref, hashed, rows, code>>
  BY DEF GoOn
<1>2. ASSUME NEW p \in Paths, cmd.op = "tree", AllDrawn(p)'
      PROVE  FoundAt(p)' \/ \E f \in pending' : Within(p, f.path)
  <2>1. AllDrawn(p)
    BY <1>1, <1>2, MoreMoments
  <2>2. CASE FoundAt(p)
    BY <1>1, <2>2 DEF FoundAt
  <2>3. CASE \E f \in pending : Within(p, f.path)
    BY <1>1, <1>2, <2>1, <2>3 DEF FoundAt
  <2> QED
    BY <1>2, <2>1, <2>2, <2>3 DEF WalkInv, Complete
<1>3. ASSUME NEW p \in Paths, cmd.op # "tree", Stable(p)'
      PROVE  FoundAt(p)' \/ \E f \in pending' : Under(p, f.path)
  <2>1. Stable(p)
    BY <1>1, <1>3, MoreMoments
  <2>2. CASE FoundAt(p)
    BY <1>1, <2>2 DEF FoundAt
  <2>3. CASE \E f \in pending : Under(p, f.path)
    BY <1>1, <1>3, <2>1, <2>3 DEF FoundAt
  <2> QED
    BY <1>3, <2>1, <2>2, <2>3 DEF WalkInv, Complete
<1> QED
  BY <1>1, <1>2, <1>3 DEF Complete

(* What is there all the time below a visited entry is found or ahead.     *)
LEMMA VisitGoesOn ==
  ASSUME WalkAssumptions, WalkInv, cmd # None, cmd.op # "tree", NEW e \in pending,
         NEW p \in Paths, Stable(p), Within(p, e.path)
  PROVE  ~Unseen(e) /\ \E f \in More(e) : Under(p, f.path)
<1>1. /\ tree \in was /\ (\A t \in was : p \in DOMAIN t) /\ Reached(tree, p)
      /\ e.path \in Paths /\ CommandOK(cmd)
  BY StableIs DEF WalkInv, TypesOK, Matches, Named, Resolves, Entries, WalkAssumptions
<1>2. e.type = "dir"
  BY <1>1, NextIsListed
<1>3. PICK q \in Listing(e.path) : Under(p, q)
  BY <1>1, NextIsListed
<1>4. Len(e.path) < Len(p) /\ Prefix(p, Len(e.path)) = e.path
  BY <1>1, WithinIs DEF Paths
<1>5. TypeOf(e, cmd) = "dir" /\ ~Through(e, cmd)
  BY <1>2 DEF TypeOf, Through
<1>6. Deeper(e.path, cmd)
  <2>1. cmd.depth = None \/ (cmd.depth \in Nat /\ Len(p) <= cmd.depth)
    BY <1>1 DEF Reached, CommandOK
  <2> QED
    BY <1>1, <1>4, <2>1 DEF Deeper, Paths
<1>7. e.path # Root => ~should_skip(Name(e.path), cmd.hidden)
  <2>1. ASSUME e.path # Root PROVE Len(e.path) \in 1..(Len(p) - 1)
    BY <1>1, <1>4, <2>1, SamePath DEF Paths, Root
  <2>2. ASSUME e.path # Root PROVE Name(e.path) = p[Len(e.path)]
    <3>1. Len(e.path) \in 0..Len(p) /\ Len(e.path) \in 1..Len(e.path)
      BY <1>1, <2>1, <2>2 DEF Paths
    <3> QED
      BY <1>4, <3>1, PrefixIs DEF Name, Paths
  <2> QED
    BY <1>1, <2>1, <2>2 DEF Reached
<1>8. ~Unseen(e)
  BY <1>5, <1>7 DEF Unseen, Pruned
<1>9. Entry(q, tree[q].type) \in More(e) /\ Entry(q, tree[q].type).path = q
  BY <1>3, <1>5, <1>6 DEF More, Entry
<1> QED
  BY <1>3, <1>8, <1>9

(* The rows and entries a visit adds are as they should be.                *)
LEMMA VisitGoOn ==
  ASSUME WalkAssumptions, WalkInv, cmd # None, cmd.op # "tree", code = -1, NEW e \in pending,
         NEW more, NEW new, GoOn(e, more, new),
         more = IF Unseen(e) THEN {} ELSE More(e),
         \A r \in new : r \in Rows /\ r.path = e.path /\ FoundAs(r),
         \A r, s \in new : r = s, IsFiniteSet(new),
         Stable(e.path) => new # {}
  PROVE  WalkInv'
<1>1. /\ pending' = (pending \ {e}) \cup more /\ found' = found \cup new
      /\ UNCHANGED <<tree, was, cmd, ref, hashed, rows, code>>
  BY DEF GoOn
<1>2. /\ more \subseteq Entries
      /\ \A f, g \in more : f.path = g.path => f = g
      /\ \A f \in more : /\ ChildOf(f.path, e.path) /\ f.path # Root
                         /\ f.path \in DOMAIN tree /\ tree[f.path].type = f.type
                         /\ Reached(tree, f.path)
  BY MoreIs
<1>3. TypesOK' /\ Steady' /\ HashedOK' /\ AnsweredOK'
  BY <1>2, GoOnKeepsRest
<1>4. Apart'
  <2>1. TypesOK /\ Apart
    BY DEF WalkInv
  <2> QED
    BY <1>2, <2>1, GoOnKeepsApart
<1>5. PendingOK'
  <2>1. ASSUME NEW f \in pending'
        PROVE  \/ f.path = Root /\ f.type = "dir"
               \/ f.path # Root /\ WasListed(f) /\ Reached(tree, f.path)
    <3>1. CASE f \in pending
      BY <3>1 DEF WalkInv, PendingOK
    <3>2. CASE f \in more
      BY <1>2, <3>2 DEF WasListed, WalkInv, TypesOK
    <3> QED
      BY <1>1, <3>1, <3>2
  <2>2. \A f : WasListed(f) => WasListed(f)'
    BY <1>1, MoreMoments
  <2>3. \A t, p : Reached(t, p)' <=> Reached(t, p)
    BY <1>1, SameQuestion
  <2>4. \A p : Reached(tree, p)' <=> Reached(tree, p)
    BY <1>1, <2>3 DEF Reached
  <2> QED
    BY <1>1, <2>1, <2>2, <2>4 DEF PendingOK
<1>6. FoundOK'
  <2>1. \A r \in found' : FoundAs(r)
    BY <1>1 DEF WalkInv, FoundOK
  <2> QED
    BY <1>1, <2>1, MoreMoments DEF FoundOK
<1>7. Complete'
  <2>1. ASSUME NEW p \in Paths, Stable(p), Under(p, e.path)
        PROVE  (\E r \in new : r.path = p) \/ \E f \in more : Under(p, f.path)
    <3>1. CASE p = e.path
      BY <2>1, <3>1
    <3>2. CASE Within(p, e.path)
      BY <2>1, <3>2, VisitGoesOn
    <3> QED
      BY <2>1, <3>1, <3>2 DEF Under
  <2> QED
    BY <2>1, GoOnKeepsComplete
<1> QED
  BY <1>3, <1>4, <1>5, <1>6, <1>7 DEF WalkInv

(* A visit keeps the invariant.                                            *)
LEMMA VisitKeepsInv ==
  ASSUME WalkAssumptions, WalkInv, NEW e \in pending, Visit(e)
  PROVE  WalkInv'
<1>1. code = -1 /\ cmd.op # "tree" /\ cmd # None
  BY VisitCases DEF WalkInv, TypesOK
<1>2. Stable(e.path) => ~Unseen(e) /\ ~Gone(e) /\ ~Misses(e)
  BY <1>1, StableIsFound
<1>3. CASE Unseen(e) /\ GoOn(e, {}, {})
  BY <1>1, <1>2, <1>3, VisitGoOn, FS_EmptySet
<1>4. CASE ~Unseen(e) /\ Misses(e) /\ GoOn(e, More(e), {})
  BY <1>1, <1>2, <1>4, VisitGoOn, FS_EmptySet
<1>5. CASE /\ ~Unseen(e) /\ Wanted(e.path, TypeOf(e, cmd), cmd) /\ ~NeedsStat(cmd)
           /\ GoOn(e, More(e), {Bare(e.path)})
  <2>1. Bare(e.path) \in Rows /\ Bare(e.path).path = e.path /\ FoundAs(Bare(e.path))
    BY <1>1, <1>5, NewRowIs
  <2> DEFINE new == {Bare(e.path)}
  <2>2. /\ \A r \in new : r \in Rows /\ r.path = e.path /\ FoundAs(r)
        /\ \A r, s \in new : r = s
        /\ new # {} /\ IsFiniteSet(new)
    BY <2>1, FS_Singleton
  <2>3. GoOn(e, More(e), new) /\ More(e) = IF Unseen(e) THEN {} ELSE More(e)
    BY <1>5
  <2> HIDE DEF new
  <2> QED
    BY <1>1, <2>2, <2>3, VisitGoOn
<1>6. CASE /\ ~Unseen(e) /\ Wanted(e.path, TypeOf(e, cmd), cmd) /\ NeedsStat(cmd) /\ ~Gone(e)
           /\ e.path # Root => Passes(Stat(e, cmd), cmd, ref)
           /\ GoOn(e, More(e), {RowOf(e)})
  <2>1. RowOf(e) \in Rows /\ RowOf(e).path = e.path /\ FoundAs(RowOf(e))
    BY <1>1, <1>6, NewRowIs
  <2> DEFINE new == {RowOf(e)}
  <2>2. /\ \A r \in new : r \in Rows /\ r.path = e.path /\ FoundAs(r)
        /\ \A r, s \in new : r = s
        /\ new # {} /\ IsFiniteSet(new)
    BY <2>1, FS_Singleton
  <2>3. GoOn(e, More(e), new) /\ More(e) = IF Unseen(e) THEN {} ELSE More(e)
    BY <1>6
  <2> HIDE DEF new
  <2> QED
    BY <1>1, <2>2, <2>3, VisitGoOn
<1>7. CASE /\ Gone(e) /\ cmd.op = "glob" /\ code' = 2 /\ pending' = {}
           /\ UNCHANGED <<tree, was, cmd, ref, found, hashed, rows>>
  <2>1. TypesOK' /\ Steady' /\ PendingOK' /\ Apart' /\ Complete'
    BY <1>7 DEF WalkInv, TypesOK, Steady, PendingOK, Apart, Complete
  <2>2. FoundOK' /\ HashedOK'
    BY <1>7, MoreMoments DEF WalkInv, FoundOK, HashedOK
  <2>3. rows = <<>> /\ tree \in was
    BY <1>1 DEF WalkInv, TypesOK
  <2>4. PICK t \in was : e.path \in DOMAIN t
    BY <1>7 DEF Gone, WalkInv, PendingOK, WasListed
  <2>5. Vanished
    BY <1>7, <2>3, <2>4 DEF Vanished, Gone
  <2>6. AnsweredOK'
    BY <1>7, <2>3, <2>5 DEF AnsweredOK, Vanished
  <2> QED
    BY <2>1, <2>2, <2>6 DEF WalkInv
<1> QED
  BY <1>3, <1>4, <1>5, <1>6, <1>7, VisitCases

(* What a drawn directory shows.                                           *)
ShownOf(e) == IF Deeper(e.path, cmd) THEN Shown(e.path) ELSE {}
RowsOf(S) == {Row(p, tree[p]) : p \in S}
DirsOf(S) == {Entry(p, "dir") : p \in {p \in S : tree[p].type = "dir"}}

(* An entry that is there all the time is shown on the way to what is.     *)
LEMMA DrawingGoesOn ==
  ASSUME WalkAssumptions, WalkInv, cmd # None, NEW e \in pending,
         NEW p \in Paths, AllDrawn(p), Within(p, e.path)
  PROVE  \E q \in ShownOf(e) : q = p \/ (Within(p, q) /\ tree[q].type = "dir")
<1>1. /\ tree \in was /\ (\A t \in was : p \in DOMAIN t) /\ Drawn(tree, p)
      /\ e.path \in Paths /\ CommandOK(cmd)
  BY DEF WalkInv, TypesOK, AllDrawn, Drawn, Entries, WalkAssumptions
<1>2. PICK q \in Listing(e.path) :
        /\ Under(p, q) /\ Len(q) <= Len(p) /\ Name(q) = p[Len(q)] /\ ChildOf(q, e.path)
        /\ q = p \/ (Within(p, q) /\ tree[q].type = "dir")
  BY <1>1, NextIsListed
<1>3. Deeper(e.path, cmd)
  <2>1. cmd.depth = None \/ (cmd.depth \in Nat /\ Len(p) <= cmd.depth)
    BY <1>1 DEF Drawn, Reached, CommandOK
  <2>2. Len(e.path) < Len(p)
    BY DEF Within
  <2> QED
    BY <1>1, <2>1, <2>2 DEF Deeper, Paths
<1>4. q \in Shown(e.path)
  <2>1. CASE q = p
    BY <1>1, <1>2, <2>1 DEF Shown, Drawn, should_skip
  <2>2. CASE Within(p, q) /\ tree[q].type = "dir"
    <3>1. Len(q) \in 1..(Len(p) - 1)
      BY <1>1, <1>2, <2>2 DEF ChildOf, Within, Paths
    <3>2. ~should_skip(Name(q), cmd.hidden)
      BY <1>1, <1>2, <3>1 DEF Drawn, Reached
    <3> QED
      BY <1>2, <2>2, <3>2 DEF Shown
  <2> QED
    BY <1>2, <2>1, <2>2
<1> QED
  BY <1>2, <1>3, <1>4 DEF ShownOf

(* The rows of a directory are as many as its entries.                     *)
LEMMA RowsAreFinite ==
  ASSUME NEW S, IsFiniteSet(S)
  PROVE  IsFiniteSet(RowsOf(S))
<1> DEFINE row == [p \in S |-> Row(p, tree[p])]
<1>1. row \in Surjection(S, RowsOf(S))
  BY DEF Surjection, RowsOf
<1> QED
  BY <1>1, FS_Surjection

(* Drawing a directory keeps the invariant.                                *)
LEMMA ListKeepsInv ==
  ASSUME WalkAssumptions, WalkInv, NEW e \in pending, ListDirectory(e)
  PROVE  WalkInv'
<1> DEFINE more == DirsOf(ShownOf(e))
           new == RowsOf(ShownOf(e))
<1>1. code = -1 /\ cmd.op = "tree" /\ GoOn(e, more, new) /\ cmd # None
  BY DEF ListDirectory, ShownOf, RowsOf, DirsOf, WalkInv, TypesOK
<1>2. /\ pending' = (pending \ {e}) \cup more /\ found' = found \cup new
      /\ UNCHANGED <<tree, was, cmd, ref, hashed, rows, code>>
  BY <1>1 DEF GoOn
<1>3. TreeOK(tree) /\ tree \in was /\ e.path \in Paths
  BY DEF WalkInv, TypesOK, Entries
<1>4. ASSUME NEW p \in ShownOf(e)
      PROVE  p \in DOMAIN tree /\ ChildOf(p, e.path) /\ p # Root /\ p \in Paths /\ tree[p] \in Nodes
  BY <1>3, <1>4 DEF ShownOf, Shown, Listing, ChildOf, TreeOK
<1>5. /\ \A f \in more : /\ f.path \in ShownOf(e) /\ f.type = "dir" /\ tree[f.path].type = "dir"
                         /\ f = Entry(f.path, "dir")
      /\ \A r \in new : r.path \in ShownOf(e) /\ r = Row(r.path, tree[r.path])
  BY DEF DirsOf, RowsOf, Entry, Row
<1>6. ASSUME NEW p \in ShownOf(e)
      PROVE  /\ \E r \in new : r.path = p
             /\ tree[p].type = "dir" => \E f \in more : f.path = p
  <2>1. Row(p, tree[p]) \in new /\ Row(p, tree[p]).path = p
    BY DEF RowsOf, Row
  <2>2. tree[p].type = "dir" => Entry(p, "dir") \in more
    BY DEF DirsOf
  <2>3. Entry(p, "dir").path = p
    BY DEF Entry
  <2> HIDE DEF more, new
  <2> QED
    BY <2>1, <2>2, <2>3
<1> HIDE DEF more, new
<1>7. more \subseteq Entries /\ new \subseteq Rows
  BY <1>4, <1>5 DEF Entries, Rows, Entry, Row, Nodes, Size
<1>8. IsFiniteSet(new)
  <2>1. ShownOf(e) \in SUBSET DOMAIN tree
    BY <1>4
  <2>2. IsFiniteSet(ShownOf(e))
    BY <1>3, <2>1, FS_Subset DEF TreeOK
  <2> QED
    BY <2>2, RowsAreFinite DEF new
<1>9. TypesOK' /\ Steady' /\ HashedOK' /\ AnsweredOK'
  BY <1>1, <1>7, <1>8, GoOnKeepsRest
<1>10. Apart'
  <2>1. TypesOK /\ Apart
    BY DEF WalkInv
  <2>2. /\ \A f \in more : ChildOf(f.path, e.path)
        /\ \A f, g \in more : f.path = g.path => f = g
        /\ \A r \in new : ChildOf(r.path, e.path)
        /\ \A r, s \in new : r.path = s.path => r = s
    BY <1>4, <1>5
  <2> QED
    BY <1>1, <2>1, <2>2, GoOnKeepsApart
<1>11. \A p : FoundAt(p) => FoundAt(p)'
  BY <1>2 DEF FoundAt
<1>12. PendingOK'
  <2>1. ASSUME NEW f \in pending, f.path # Root PROVE f.type = "dir" /\ WasListed(f)' /\ FoundAt(f.path)'
    <3>1. f.type = "dir" /\ WasListed(f) /\ FoundAt(f.path)
      BY <1>1, <2>1 DEF WalkInv, PendingOK
    <3> QED
      BY <1>2, <1>11, <3>1, MoreMoments
  <2>2. ASSUME NEW f \in more PROVE f.path # Root /\ f.type = "dir" /\ WasListed(f)' /\ FoundAt(f.path)'
    BY <1>2, <1>3, <1>4, <1>5, <1>6, <2>2 DEF WasListed, FoundAt
  <2>3. ASSUME NEW f \in pending, f.path = Root PROVE f.type = "dir"
    BY <2>3 DEF WalkInv, PendingOK
  <2> QED
    BY <1>1, <1>2, <2>1, <2>2, <2>3 DEF PendingOK
<1>13. FoundOK'
  <2>1. ASSUME NEW r \in found PROVE Hangs(r)'
    BY <1>1, <1>11, <2>1 DEF WalkInv, FoundOK, Hangs
  <2>2. ASSUME NEW r \in new PROVE Hangs(r)'
    <3>1. r.path # Root /\ Len(r.path) = Len(e.path) + 1 /\ Parent(r.path) = e.path
      BY <1>4, <1>5, <2>2 DEF ChildOf
    <3>2. CASE e.path = Root
      BY <3>1, <3>2 DEF Hangs, Root
    <3>3. CASE e.path # Root
      BY <1>1, <1>11, <3>1, <3>3 DEF WalkInv, PendingOK, Hangs
    <3> QED
      BY <3>2, <3>3
  <2> QED
    BY <1>1, <1>2, <2>1, <2>2 DEF FoundOK
<1>14. Complete'
  <2>1. ASSUME NEW p \in Paths, AllDrawn(p), Within(p, e.path)
        PROVE  (\E r \in new : r.path = p) \/ \E f \in more : Within(p, f.path)
    BY <1>1, <1>6, <2>1, DrawingGoesOn
  <2> QED
    BY <1>1, <2>1, GoOnKeepsComplete
<1> QED
  BY <1>9, <1>10, <1>12, <1>13, <1>14 DEF WalkInv

-----------------------------------------------------------------------------
(* duplicates reads the contents, and a command answers.                   *)

(* The hash of a file is that of what it holds now.                        *)
LEMMA HashKeepsInv ==
  ASSUME WalkAssumptions, WalkInv, NEW r \in ToHash, Hash(r)
  PROVE  WalkInv'
<1> DEFINE p == r.path
           node == tree[IF tree[p].type = "link" THEN tree[p].to ELSE p]
           there == p \in DOMAIN tree /\ (tree[p].type = "link" => tree[p].to \in DOMAIN tree)
           h == [row |-> r, hash |-> IF there THEN node.data ELSE None]
<1>1. /\ code = -1 /\ pending = {} /\ cmd.op = "duplicates" /\ hashed' = hashed \cup {h}
      /\ UNCHANGED <<tree, was, cmd, ref, pending, found, rows, code>>
  BY DEF Hash
<1>2. r \in found /\ \A g \in hashed : g.row # r
  BY DEF ToHash, SameSize
<1>3. TreeOK(tree) /\ tree \in was
  BY DEF WalkInv, TypesOK
<1>4. there => node \in Nodes /\ node.data \in Seq(Int)
  BY <1>3 DEF TreeOK, Nodes
<1>5. h \in [row : found, hash : Seq(Int) \cup {None}] /\ h.row = r
  BY <1>2, <1>4
<1>6. TypesOK'
  <2>1. IsFiniteSet(hashed')
    BY <1>1, FS_AddElement DEF WalkInv, TypesOK
  <2>2. cmd # None
    BY <1>2 DEF WalkInv, TypesOK
  <2> HIDE DEF h
  <2> QED
    BY <1>1, <1>5, <2>1, <2>2 DEF WalkInv, TypesOK
<1>7. HashOf(h)
  <2>1. PICK t \in was : Named(t, p) \/ p = Root
    BY <1>1, <1>2, <1>3 DEF WalkInv, FoundOK, FoundAs
  <2>2. ASSUME there, p = Root PROVE FALSE
    BY <1>3, <2>2 DEF TreeOK
  <2>3. ASSUME there PROVE Resolves(tree, p) /\ Looked(tree, p).data = h.hash
    <3>1. Named(t, p)
      BY <2>1, <2>2, <2>3
    <3>2. CASE tree[p].type = "link"
      <4>1. t[p] = tree[p] /\ p \in DOMAIN t
        BY <2>3, <3>2 DEF WalkInv, Steady, IsLink
      <4>2. Looked(t, p).type = "file"
        BY <1>1, <3>1 DEF Named, Wanted
      <4>3. cmd.follow /\ ~Within(p, tree[p].to)
        BY <3>1, <3>2, <4>1, <4>2 DEF Named, Resolves, Looked
      <4> QED
        BY <2>3, <3>2, <4>3 DEF Resolves, Looked
    <3>3. CASE tree[p].type # "link"
      BY <2>3, <3>3 DEF Resolves, Looked
    <3> QED
      BY <3>2, <3>3
  <2>4. h.hash # None => there
    OBVIOUS
  <2>5. there => h.hash # None
    BY <1>4 DEF WalkAssumptions
  <2>6. ASSUME Stable(p) PROVE there
    <3>1. Matches(tree, p)
      BY <1>3, <2>6, StableIs
    <3>2. CASE tree[p].type = "link"
      BY <1>1, <3>1, <3>2 DEF Matches, Named, Wanted, Resolves, Looked
    <3> QED
      BY <3>1, <3>2 DEF Matches, Named, Resolves
  <2> HIDE DEF there
  <2> QED
    BY <1>3, <1>5, <2>3, <2>4, <2>5, <2>6 DEF HashOf
<1>8. HashedOK'
  <2> HIDE DEF h
  <2>1. \A g \in hashed' : HashOf(g)
    BY <1>1, <1>7 DEF WalkInv, HashedOK
  <2>2. \A g : HashOf(g) => HashOf(g)'
    BY <1>1, MoreMoments
  <2>3. \A f, g \in hashed' : f.row = g.row => f = g
    BY <1>1, <1>2, <1>5 DEF WalkInv, HashedOK
  <2> QED
    BY <1>1, <2>1, <2>2, <2>3 DEF HashedOK
<1>9. Steady' /\ PendingOK' /\ Apart' /\ AnsweredOK'
  BY <1>1 DEF WalkInv, Steady, PendingOK, Apart, AnsweredOK
<1>10. FoundOK' /\ Complete'
  BY <1>1, MoreMoments DEF WalkInv, FoundOK, Complete, FoundAt
<1> QED
  BY <1>6, <1>8, <1>9, <1>10 DEF WalkInv

(* The answer is given once, and changes nothing else.                     *)
LEMMA AnswerKeepsInv ==
  ASSUME WalkInv, Answer
  PROVE  WalkInv'
<1>1. /\ cmd # None /\ code = -1 /\ pending = {} /\ (cmd.op = "duplicates" => ToHash = {})
      /\ UNCHANGED <<tree, was, cmd, ref, pending, found, hashed>>
      /\ \E s \in Orders :
           /\ rows' = First(Kept(s), Room)
           /\ code' = IF Kept(s) = <<>> /\ cmd.op # "tree" THEN 1 ELSE 0
  BY DEF Answer, Orders
<1>2. code' \in {0, 1}
  BY <1>1
<1>3. TypesOK' /\ Steady' /\ PendingOK' /\ Apart'
  BY <1>1, <1>2 DEF WalkInv, TypesOK, Steady, PendingOK, Apart
<1>4. FoundOK' /\ Complete' /\ HashedOK'
  BY <1>1, <1>2, MoreMoments DEF WalkInv, FoundOK, Complete, HashedOK, FoundAt, Hangs
<1>5. Orders' = Orders /\ ToHash' = ToHash /\ Room' = Room /\ \A s : Kept(s)' = Kept(s)
  <2>1. Grouped' = Grouped
    BY <1>1 DEF Grouped, Members
  <2>2. ToHash' = ToHash
    BY <1>1 DEF ToHash, SameSize
  <2>3. SortedBy(found, Key)' = SortedBy(found, Key)
    BY <1>1 DEF SortedBy, Key
  <2>4. SortedBy(Grouped, GroupKey)' = SortedBy(Grouped, GroupKey)
    BY <2>1 DEF SortedBy
  <2>5. \A s : Kept(s)' = Kept(s)
    BY <1>1 DEF Kept
  <2>6. Room' = Room
    BY <1>1 DEF Room
  <2> QED
    BY <1>1, <2>2, <2>3, <2>4, <2>5, <2>6 DEF Orders
<1>6. AnsweredOK'
  BY <1>1, <1>2, <1>5 DEF AnsweredOK
<1> QED
  BY <1>3, <1>4, <1>6 DEF WalkInv

-----------------------------------------------------------------------------
(* Every step keeps the invariant: it holds in every state the walks of    *)
(* src/fs can be in, whatever other programs do meanwhile (fs/mod.rs,      *)
(* pruned_walk, and the commands that use it).                             *)
THEOREM WalksKeepInv ==
  ASSUME WalkAssumptions
  PROVE  Spec => []WalkInv
<1>1. Init => WalkInv
  BY InitKeepsInv
<1>2. WalkInv /\ [Next]_vars => WalkInv'
  <2>1. SUFFICES ASSUME WalkInv, [Next]_vars PROVE WalkInv'
    OBVIOUS
  <2>2. CASE Write
    BY <2>1, <2>2, WriteKeepsInv
  <2>3. CASE Delete
    BY <2>1, <2>3, DeleteKeepsInv
  <2>4. CASE Answer
    BY <2>1, <2>4, AnswerKeepsInv
  <2>5. CASE \E c \in Commands : Start(c)
    BY <2>1, <2>5, StartKeepsInv
  <2>6. CASE \E e \in pending : Visit(e) \/ ListDirectory(e)
    BY <2>1, <2>6, VisitKeepsInv, ListKeepsInv
  <2>7. CASE \E r \in ToHash : Hash(r)
    BY <2>1, <2>7, HashKeepsInv
  <2>8. CASE UNCHANGED vars
    <3>1. UNCHANGED <<tree, was, cmd, ref, pending, found, hashed, rows, code>>
      BY <2>8 DEF vars
    <3>2. TypesOK' /\ Steady' /\ PendingOK' /\ Apart'
      BY <2>1, <3>1 DEF WalkInv, TypesOK, Steady, PendingOK, Apart, WasListed, FoundAt, Reached
    <3>3. FoundOK' /\ Complete' /\ HashedOK'
      BY <2>1, <3>1, MoreMoments DEF WalkInv, FoundOK, Complete, HashedOK, FoundAt, Hangs
    <3>4. Orders' = Orders /\ ToHash' = ToHash /\ (\A s : Kept(s)' = Kept(s)) /\ Room' = Room /\ Vanished' = Vanished
      BY <3>1 DEF Orders, SortedBy, Key, Grouped, Members, ToHash, SameSize, Kept, Room, Vanished
    <3>5. Refused(cmd)' <=> Refused(cmd)
      BY <3>1 DEF Refused
    <3>6. AnsweredOK'
      BY <2>1, <3>1, <3>4, <3>5 DEF WalkInv, AnsweredOK
    <3> QED
      BY <3>2, <3>3, <3>6 DEF WalkInv
  <2> QED
    BY <2>1, <2>2, <2>3, <2>4, <2>5, <2>6, <2>7, <2>8 DEF Next
<1> QED
  BY <1>1, <1>2, PTL DEF Spec

-----------------------------------------------------------------------------
(* The order of what is printed.                                           *)

(* Texts compared byte by byte: nothing is before itself, and what is      *)
(* before what is before another is before it.                             *)
LEMMA LessIsStrict ==
  ASSUME NEW a \in Seq(Int), NEW b \in Seq(Int), NEW c \in Seq(Int)
  PROVE  ~Less(a, a) /\ (Less(a, b) /\ Less(b, c) => Less(a, c))
<1>1. ~Less(a, a)
  BY DEF Less
<1>2. ASSUME Less(a, b), Less(b, c) PROVE Less(a, c)
  <2>1. PICK k \in 0..Len(a) :
          /\ \A l \in 1..k : l <= Len(b) /\ a[l] = b[l]
          /\ IF k = Len(a) THEN k < Len(b) ELSE k < Len(b) /\ a[k + 1] < b[k + 1]
    BY <1>2 DEF Less
  <2>2. PICK m \in 0..Len(b) :
          /\ \A l \in 1..m : l <= Len(c) /\ b[l] = c[l]
          /\ IF m = Len(b) THEN m < Len(c) ELSE m < Len(c) /\ b[m + 1] < c[m + 1]
    BY <1>2 DEF Less
  <2>3. /\ \A l \in Int : l >= 1 /\ l <= Len(a) => a[l] \in Int
        /\ \A l \in Int : l >= 1 /\ l <= Len(b) => b[l] \in Int
        /\ \A l \in Int : l >= 1 /\ l <= Len(c) => c[l] \in Int
    OBVIOUS
  <2>4. CASE k <= m
    <3>1. \A l \in 1..k : l <= Len(c) /\ a[l] = c[l]
      BY <2>1, <2>2, <2>4, SMTT(30)
    <3>2. k < Len(c)
      BY <2>1, <2>2, <2>4
    <3>3. CASE k = Len(a)
      BY <2>1, <3>1, <3>2, <3>3 DEF Less
    <3>4. CASE k # Len(a)
      <4>1. a[k + 1] < b[k + 1] /\ k < Len(b) /\ k + 1 <= Len(a)
        BY <2>1, <3>4
      <4>2. b[k + 1] <= c[k + 1]
        <5>1. CASE k = m
          BY <2>2, <2>3, <3>2, <4>1, <5>1, SMTT(30)
        <5>2. CASE k < m
          BY <2>2, <2>3, <3>2, <4>1, <5>2, SMTT(30)
        <5> QED
          BY <2>4, <5>1, <5>2
      <4>3. a[k + 1] < c[k + 1]
        BY <2>3, <3>2, <4>1, <4>2, SMTT(30)
      <4> QED
        BY <2>1, <3>1, <3>2, <3>4, <4>3 DEF Less
    <3> QED
      BY <3>3, <3>4
  <2>5. CASE m < k
    <3>1. m \in 0..Len(a) /\ \A l \in 1..m : l \in 1..k
      BY <2>5
    <3>2. \A l \in 1..m : l <= Len(c) /\ a[l] = c[l]
      BY <2>1, <2>2, <3>1
    <3>3. m < Len(a) /\ m < Len(b) /\ m < Len(c) /\ a[m + 1] = b[m + 1] /\ b[m + 1] < c[m + 1]
      BY <2>1, <2>2, <2>5, SMTT(30)
    <3> QED
      BY <3>1, <3>2, <3>3 DEF Less
  <2> QED
    BY <2>4, <2>5
<1> QED
  BY <1>1, <1>2

(* Of two different texts one is before the other.                         *)
LEMMA LessIsTotal ==
  ASSUME NEW a \in Seq(Int), NEW b \in Seq(Int), a # b
  PROVE  Less(a, b) \/ Less(b, a)
<1> DEFINE D == {i \in 1..Len(a) : i <= Len(b) /\ a[i] # b[i]}
<1>1. /\ \A l \in 1..Len(a) : a[l] \in Int
      /\ \A l \in 1..Len(b) : b[l] \in Int
      /\ Len(a) \in Nat /\ Len(b) \in Nat
  OBVIOUS
<1>2. CASE D = {}
  <2>1. \A i \in 1..Len(a) : i <= Len(b) => a[i] = b[i]
    BY <1>2
  <2>2. Len(a) # Len(b)
    BY <2>1, SamePath
  <2>3. CASE Len(a) < Len(b)
    <3>1. Len(a) \in 0..Len(a) /\ \A l \in 1..Len(a) : l <= Len(b) /\ a[l] = b[l]
      BY <1>1, <2>1, <2>3
    <3> QED
      BY <2>3, <3>1 DEF Less
  <2>4. CASE Len(b) < Len(a)
    <3>1. Len(b) \in 0..Len(b) /\ \A l \in 1..Len(b) : l <= Len(a) /\ b[l] = a[l]
      BY <1>1, <2>1, <2>4
    <3> QED
      BY <2>4, <3>1 DEF Less
  <2> QED
    BY <1>1, <2>2, <2>3, <2>4
<1>3. CASE D # {}
  <2>1. D \subseteq Nat
    OBVIOUS
  <2>2. PICK i \in D : \A j \in D : i <= j
    BY <1>3, <2>1, LeastNumber
  <2> DEFINE k == i - 1
  <2>3. /\ i \in 1..Len(a) /\ i <= Len(b) /\ a[i] # b[i] /\ i \in 1..Len(b)
        /\ k \in 0..Len(a) /\ k \in 0..Len(b) /\ k # Len(a) /\ k # Len(b)
        /\ k < Len(a) /\ k < Len(b) /\ k + 1 = i
    BY <1>1
  <2>4. \A l \in 1..k : l <= Len(a) /\ l <= Len(b) /\ a[l] = b[l]
    <3>1. SUFFICES ASSUME NEW l \in 1..k PROVE l <= Len(a) /\ l <= Len(b) /\ a[l] = b[l]
      OBVIOUS
    <3>2. l \in 1..Len(a) /\ l <= Len(b) /\ ~(i <= l)
      BY <1>1, <2>3, SMTT(30)
    <3> QED
      BY <2>2, <3>2
  <2>5. a[i] < b[i] \/ b[i] < a[i]
    BY <1>1, <2>3
  <2> HIDE DEF k, D
  <2>6. ASSUME a[i] < b[i] PROVE Less(a, b)
    BY <2>3, <2>4, <2>6 DEF Less
  <2>7. ASSUME b[i] < a[i] PROVE Less(b, a)
    BY <2>3, <2>4, <2>7 DEF Less
  <2> QED
    BY <2>5, <2>6, <2>7
<1> QED
  BY <1>2, <1>3

(* R orders S: as a set of pairs, for the facts below are about two keys.  *)
OrderOf(R, S) ==
  /\ \A x \in S : <<x, x>> \notin R
  /\ \A x, y, z \in S : <<x, y>> \in R /\ <<y, z>> \in R => <<x, z>> \in R
Total(R, S) == \A x, y \in S : x = y \/ <<x, y>> \in R \/ <<y, x>> \in R
Before(R, S, x) == {y \in S : <<y, x>> \in R}
InOrder(s, S, R) ==
  /\ Cardinality(S) \in Nat /\ s \in [1..Cardinality(S) -> S]
  /\ \A x \in S : \E i \in 1..Cardinality(S) : s[i] = x
  /\ \A i, j \in 1..Cardinality(S) : i < j => s[i] # s[j] /\ <<s[j], s[i]>> \notin R

(* Each place of an ordered set is that of one element.                    *)
LEMMA PlacesAreTaken ==
  ASSUME NEW S, IsFiniteSet(S), NEW R, OrderOf(R, S), Total(R, S)
  PROVE  /\ Cardinality(S) \in Nat
         /\ \A x, y \in S : <<x, y>> \in R => Cardinality(Before(R, S, x)) < Cardinality(Before(R, S, y))
         /\ \A x \in S : Cardinality(Before(R, S, x)) \in 0..(Cardinality(S) - 1)
         /\ \A i \in 1..Cardinality(S) : \E x \in S : Cardinality(Before(R, S, x)) = i - 1
<1> DEFINE n == Cardinality(S)
           size(x) == Cardinality(Before(R, S, x))
<1>1. n \in Nat
  BY FS_CardinalityType
<1>2. ASSUME NEW x \in S PROVE IsFiniteSet(Before(R, S, x)) /\ size(x) \in Nat
  <2>1. Before(R, S, x) \in SUBSET S
    BY DEF Before
  <2> QED
    BY <2>1, FS_Subset, FS_CardinalityType
<1>3. ASSUME NEW x \in S, NEW y \in S, <<x, y>> \in R PROVE size(x) < size(y)
  <2>1. x \notin Before(R, S, x) /\ Before(R, S, x) \cup {x} \in SUBSET Before(R, S, y)
    BY <1>3 DEF Before, OrderOf
  <2>2. Cardinality(Before(R, S, x) \cup {x}) = size(x) + 1
    BY <1>2, <2>1, FS_AddElement
  <2>3. Cardinality(Before(R, S, x) \cup {x}) <= size(y)
    BY <1>2, <2>1, FS_Subset
  <2> QED
    BY <1>2, <2>2, <2>3
<1>4. ASSUME NEW x \in S PROVE size(x) \in 0..(n - 1)
  <2>1. Before(R, S, x) \in SUBSET (S \ {x})
    BY DEF Before, OrderOf
  <2>2. IsFiniteSet(S \ {x}) /\ Cardinality(S \ {x}) = n - 1
    BY FS_RemoveElement
  <2>3. size(x) <= n - 1
    BY <2>1, <2>2, FS_Subset
  <2> QED
    BY <1>1, <1>2, <2>3
<1>5. ASSUME NEW i \in 1..n PROVE \E x \in S : size(x) = i - 1
  <2> DEFINE place == [x \in S |-> size(x) + 1]
  <2>1. place \in [S -> 1..n]
    BY <1>1, <1>4
  <2>2. \A x, y \in S : place[x] = place[y] => x = y
    <3>1. SUFFICES ASSUME NEW x \in S, NEW y \in S, place[x] = place[y] PROVE x = y
      OBVIOUS
    <3>2. size(x) = size(y) /\ size(x) \in Nat /\ size(y) \in Nat
      BY <1>2, <3>1
    <3>3. <<x, y>> \notin R /\ <<y, x>> \notin R
      BY <1>3, <3>2
    <3> QED
      BY <3>3 DEF Total
  <2>3. place \in Injection(S, 1..n)
    BY <2>1, <2>2 DEF Injection, IsInjective
  <2>4. IsFiniteSet(1..n) /\ Cardinality(1..n) = n
    BY <1>1, FS_Interval
  <2>5. place \in Surjection(S, 1..n)
    BY <2>3, <2>4, FS_Injection
  <2>6. PICK x \in S : place[x] = i
    BY <2>5 DEF Surjection
  <2>7. size(x) + 1 = i
    BY <2>6
  <2> QED
    BY <1>2, <2>7
<1> QED
  BY <1>1, <1>3, <1>4, <1>5

(* The sequence of the elements by their places is in order.               *)
LEMMA RankedIsInOrder ==
  ASSUME NEW S, IsFiniteSet(S), NEW R, OrderOf(R, S), Total(R, S),
         NEW s \in [1..Cardinality(S) -> S],
         \A i \in 1..Cardinality(S) : Cardinality(Before(R, S, s[i])) = i - 1
  PROVE  InOrder(s, S, R)
<1> DEFINE n == Cardinality(S)
           size(x) == Cardinality(Before(R, S, x))
<1>1. /\ n \in Nat
      /\ \A x, y \in S : <<x, y>> \in R => size(x) < size(y)
      /\ \A x \in S : size(x) \in 0..(n - 1)
  BY PlacesAreTaken
<1>2. \A i \in 1..n : s[i] \in S /\ size(s[i]) = i - 1
  OBVIOUS
<1> HIDE DEF n, size
<1>3. ASSUME NEW x \in S PROVE \E i \in 1..n : s[i] = x
  <2>1. size(x) + 1 \in 1..n
    BY <1>1
  <2>2. s[size(x) + 1] \in S /\ size(s[size(x) + 1]) = size(x)
    BY <1>1, <1>2, <2>1
  <2>3. <<s[size(x) + 1], x>> \notin R /\ <<x, s[size(x) + 1]>> \notin R
    BY <1>1, <2>2
  <2>4. s[size(x) + 1] = x
    BY <2>2, <2>3 DEF Total
  <2> QED
    BY <2>1, <2>4
<1>4. ASSUME NEW i \in 1..n, NEW j \in 1..n, i < j PROVE s[i] # s[j] /\ <<s[j], s[i]>> \notin R
  <2>1. size(s[i]) = i - 1 /\ size(s[j]) = j - 1 /\ s[i] \in S /\ s[j] \in S
    BY <1>2
  <2>2. <<s[j], s[i]>> \in R => size(s[j]) < size(s[i])
    BY <1>1, <2>1
  <2> QED
    BY <1>4, <2>1, <2>2
<1> QED
  BY <1>1, <1>3, <1>4 DEF InOrder, n

(* So is any arrangement of them that does not go against the order.       *)
LEMMA ArrangedIsInOrder ==
  ASSUME NEW S, IsFiniteSet(S), NEW R, NEW s \in SetToSeqs(S),
         \A i, j \in DOMAIN s : i < j => <<s[j], s[i]>> \notin R
  PROVE  InOrder(s, S, R)
<1> DEFINE n == Cardinality(S)
<1>1. n \in Nat /\ s \in [1..n -> S] /\ \A i, j \in 1..n : i # j => s[i] # s[j]
  BY FS_CardinalityType DEF SetToSeqs
<1>2. s \in Injection(1..n, S)
  BY <1>1 DEF Injection, IsInjective
<1>3. IsFiniteSet(1..n) /\ Cardinality(1..n) = n
  BY <1>1, FS_Interval
<1>4. s \in Surjection(1..n, S)
  BY <1>2, <1>3, FS_Injection
<1>5. \A x \in S : \E i \in 1..n : s[i] = x
  BY <1>4 DEF Surjection
<1>6. \A i, j \in 1..n : i < j => s[i] # s[j] /\ <<s[j], s[i]>> \notin R
  BY <1>1
<1> HIDE DEF n
<1> QED
  BY <1>1, <1>5, <1>6 DEF InOrder, n

-----------------------------------------------------------------------------
(* What is printed.                                                        *)

(* A path's key is a text of the length of the path, and its own.          *)
LEMMA PathKeyIs ==
  ASSUME WalkAssumptions
  PROVE  /\ \A p \in Paths : PathKey(p) \in Seq(Int) /\ Len(PathKey(p)) = Len(p)
                             /\ \A i \in 1..Len(p) : PathKey(p)[i] = Rank[p[i]]
         /\ \A p, q \in Paths : PathKey(p) = PathKey(q) => p = q
<1>1. Rank \in [DOMAIN Rank -> Int] /\ \A m, n \in DOMAIN Rank : Rank[m] = Rank[n] => m = n
  BY DEF WalkAssumptions
<1>2. ASSUME NEW p \in Paths
      PROVE  /\ PathKey(p) \in Seq(Int) /\ Len(PathKey(p)) = Len(p)
             /\ \A i \in 1..Len(p) : PathKey(p)[i] = Rank[p[i]]
  <2>1. p \in Seq(DOMAIN Rank) /\ Len(p) \in Nat /\ DOMAIN p = 1..Len(p)
    BY DEF Paths
  <2>2. \A i \in 1..Len(p) : p[i] \in DOMAIN Rank /\ Rank[p[i]] \in Int
    BY <1>1, <2>1
  <2>3. PathKey(p) = [i \in 1..Len(p) |-> Rank[p[i]]]
    BY <2>1 DEF PathKey
  <2>4. PathKey(p) \in [1..Len(p) -> Int]
    BY <2>2, <2>3
  <2> QED
    BY <2>1, <2>3, <2>4
<1>3. ASSUME NEW p \in Paths, NEW q \in Paths, PathKey(p) = PathKey(q) PROVE p = q
  <2>1. Len(p) = Len(q) /\ \A i \in 1..Len(p) : Rank[p[i]] = Rank[q[i]]
    BY <1>2, <1>3
  <2>2. p \in Seq(DOMAIN Rank) /\ q \in Seq(DOMAIN Rank)
    BY DEF Paths
  <2>3. \A i \in 1..Len(p) : p[i] = q[i]
    BY <1>1, <2>1, <2>2
  <2> QED
    BY <2>1, <2>2, <2>3, SamePath
<1> QED
  BY <1>2, <1>3

(* So are the keys the rows are sorted by, texts.                          *)
LEMMA KeyIs ==
  ASSUME WalkAssumptions
  PROVE  /\ \A r \in Rows : Key(r) \in Seq(Int)
         /\ \A r \in Rows, x \in Seq(Int) : GroupKey([row |-> r, hash |-> x]) \in Seq(Int)
<1>1. ASSUME NEW r \in Rows PROVE Key(r) \in Seq(Int)
  <2>1. /\ <<r.mtime>> \in Seq(Int) /\ <<r.size>> \in Seq(Int) /\ <<>> \in Seq(Int)
        /\ <<-r.size>> \in Seq(Int)
    BY DEF Rows
  <2>2. PathKey(r.path) \in Seq(Int)
    BY PathKeyIs DEF Rows
  <2>3. <<-r.size>> \o PathKey(r.path) \in Seq(Int)
    BY <2>1, <2>2
  <2> QED
    BY <2>1, <2>2, <2>3 DEF Key
<1>2. ASSUME NEW r \in Rows, NEW x \in Seq(Int) PROVE GroupKey([row |-> r, hash |-> x]) \in Seq(Int)
  <2>1. <<-r.size>> \in Seq(Int)
    BY DEF Rows
  <2>2. PathKey(r.path) \in Seq(Int)
    BY PathKeyIs DEF Rows
  <2>3. <<-r.size>> \o x \in Seq(Int)
    BY <2>1
  <2>4. (<<-r.size>> \o x) \o PathKey(r.path) \in Seq(Int)
    BY <2>2, <2>3
  <2> QED
    BY <2>4 DEF GroupKey
<1> QED
  BY <1>1, <1>2

(* The order of the rows found, of the files that have duplicates.         *)
RowOrder == {q \in found \X found : Less(Key(q[1]), Key(q[2]))}
FileOrder == {q \in Grouped \X Grouped : Less(GroupKey(q[1]), GroupKey(q[2]))}

(* Their keys order the rows.                                              *)
LEMMA RowsAreOrdered ==
  ASSUME WalkAssumptions, WalkInv
  PROVE  /\ \A x, y \in found : <<x, y>> \in RowOrder <=> Less(Key(x), Key(y))
         /\ OrderOf(RowOrder, found)
<1>1. \A x, y \in found : <<x, y>> \in RowOrder <=> Less(Key(x), Key(y))
  BY DEF RowOrder
<1>2. \A x \in found : Key(x) \in Seq(Int)
  BY KeyIs DEF WalkInv, TypesOK
<1>3. \A x \in found : ~Less(Key(x), Key(x))
  BY <1>2, LessIsStrict
<1>4. \A x, y, z \in found : Less(Key(x), Key(y)) /\ Less(Key(y), Key(z)) => Less(Key(x), Key(z))
  BY <1>2, LessIsStrict
<1> QED
  BY <1>1, <1>3, <1>4 DEF OrderOf

(* Their keys order the files that have duplicates.                        *)
LEMMA FilesAreOrdered ==
  ASSUME WalkAssumptions, WalkInv
  PROVE  /\ \A x, y \in Grouped : <<x, y>> \in FileOrder <=> Less(GroupKey(x), GroupKey(y))
         /\ OrderOf(FileOrder, Grouped)
<1>1. \A x, y \in Grouped : <<x, y>> \in FileOrder <=> Less(GroupKey(x), GroupKey(y))
  BY DEF FileOrder
<1>2. ASSUME NEW h \in Grouped PROVE GroupKey(h) \in Seq(Int)
  <2>1. h \in hashed /\ h.hash # None
    BY DEF Grouped, Read
  <2>2. h.row \in Rows /\ h.hash \in Seq(Int) /\ h = [row |-> h.row, hash |-> h.hash]
    BY <2>1 DEF WalkInv, TypesOK
  <2> QED
    BY <2>2, KeyIs
<1>3. \A x \in Grouped : ~Less(GroupKey(x), GroupKey(x))
  BY <1>2, LessIsStrict
<1>4. \A x, y, z \in Grouped :
        Less(GroupKey(x), GroupKey(y)) /\ Less(GroupKey(y), GroupKey(z)) => Less(GroupKey(x), GroupKey(z))
  BY <1>2, LessIsStrict
<1> QED
  BY <1>1, <1>3, <1>4 DEF OrderOf

(* Sorting them puts them in that order.                                   *)
LEMMA RowsAreSorted ==
  ASSUME WalkAssumptions, WalkInv, NEW s \in SortedBy(found, Key)
  PROVE  InOrder(s, found, RowOrder)
<1> DEFINE n == Cardinality(found)
<1>1. /\ IsFiniteSet(found) /\ OrderOf(RowOrder, found)
      /\ \A x, y \in found : <<x, y>> \in RowOrder <=> Less(Key(x), Key(y))
  BY RowsAreOrdered DEF WalkInv, TypesOK
<1>2. CASE \A x, y \in found : x = y \/ Less(Key(x), Key(y)) \/ Less(Key(y), Key(x))
  <2> DEFINE below(x) == {y \in found : Less(Key(y), Key(x))}
  <2>1. s = [i \in 1..n |-> CHOOSE x \in found : Cardinality(below(x)) = i - 1]
    BY <1>2 DEF SortedBy
  <2>2. Total(RowOrder, found)
    BY <1>1, <1>2 DEF Total
  <2>3. \A x \in found : below(x) = Before(RowOrder, found, x)
    BY <1>1 DEF Before
  <2> HIDE DEF below, n
  <2>4. ASSUME NEW i \in 1..n
        PROVE  s[i] \in found /\ Cardinality(Before(RowOrder, found, s[i])) = i - 1
    <3>1. \E x \in found : Cardinality(Before(RowOrder, found, x)) = i - 1
      BY <1>1, <2>2, PlacesAreTaken DEF n
    <3>2. \E x \in found : Cardinality(below(x)) = i - 1
      BY <2>3, <3>1
    <3>3. s[i] \in found /\ Cardinality(below(s[i])) = i - 1
      BY <2>1, <3>2
    <3> QED
      BY <2>3, <3>3
  <2>5. s \in [1..n -> found]
    BY <2>1, <2>4
  <2> QED
    BY <1>1, <2>2, <2>4, <2>5, RankedIsInOrder DEF n
<1>3. CASE ~(\A x, y \in found : x = y \/ Less(Key(x), Key(y)) \/ Less(Key(y), Key(x)))
  <2>1. s \in SetToSeqs(found) /\ \A i, j \in DOMAIN s : i < j => ~Less(Key(s[j]), Key(s[i]))
    BY <1>3 DEF SortedBy
  <2>2. \A i, j \in DOMAIN s : i < j => <<s[j], s[i]>> \notin RowOrder
    BY <2>1 DEF RowOrder
  <2> QED
    BY <1>1, <2>1, <2>2, ArrangedIsInOrder
<1> QED
  BY <1>2, <1>3

(* The same of the files that have duplicates.                             *)
LEMMA FilesAreSorted ==
  ASSUME WalkAssumptions, WalkInv, NEW s \in SortedBy(Grouped, GroupKey)
  PROVE  InOrder(s, Grouped, FileOrder)
<1> DEFINE n == Cardinality(Grouped)
<1>1. /\ IsFiniteSet(Grouped) /\ OrderOf(FileOrder, Grouped)
      /\ \A x, y \in Grouped : <<x, y>> \in FileOrder <=> Less(GroupKey(x), GroupKey(y))
  <2>1. IsFiniteSet(hashed) /\ Grouped \in SUBSET hashed
    BY DEF WalkInv, TypesOK, Grouped
  <2> QED
    BY <2>1, FS_Subset, FilesAreOrdered
<1>2. CASE \A x, y \in Grouped : x = y \/ Less(GroupKey(x), GroupKey(y)) \/ Less(GroupKey(y), GroupKey(x))
  <2> DEFINE below(x) == {y \in Grouped : Less(GroupKey(y), GroupKey(x))}
  <2>1. s = [i \in 1..n |-> CHOOSE x \in Grouped : Cardinality(below(x)) = i - 1]
    BY <1>2 DEF SortedBy
  <2>2. Total(FileOrder, Grouped)
    BY <1>1, <1>2 DEF Total
  <2>3. \A x \in Grouped : below(x) = Before(FileOrder, Grouped, x)
    BY <1>1 DEF Before
  <2> HIDE DEF below, n
  <2>4. ASSUME NEW i \in 1..n
        PROVE  s[i] \in Grouped /\ Cardinality(Before(FileOrder, Grouped, s[i])) = i - 1
    <3>1. \E x \in Grouped : Cardinality(Before(FileOrder, Grouped, x)) = i - 1
      BY <1>1, <2>2, PlacesAreTaken DEF n
    <3>2. \E x \in Grouped : Cardinality(below(x)) = i - 1
      BY <2>3, <3>1
    <3>3. s[i] \in Grouped /\ Cardinality(below(s[i])) = i - 1
      BY <2>1, <3>2
    <3> QED
      BY <2>3, <3>3
  <2>5. s \in [1..n -> Grouped]
    BY <2>1, <2>4
  <2> QED
    BY <1>1, <2>2, <2>4, <2>5, RankedIsInOrder DEF n
<1>3. CASE ~(\A x, y \in Grouped : x = y \/ Less(GroupKey(x), GroupKey(y)) \/ Less(GroupKey(y), GroupKey(x)))
  <2>1. s \in SetToSeqs(Grouped) /\ \A i, j \in DOMAIN s : i < j => ~Less(GroupKey(s[j]), GroupKey(s[i]))
    BY <1>3 DEF SortedBy
  <2>2. \A i, j \in DOMAIN s : i < j => <<s[j], s[i]>> \notin FileOrder
    BY <2>1 DEF FileOrder
  <2> QED
    BY <1>1, <2>1, <2>2, ArrangedIsInOrder
<1> QED
  BY <1>2, <1>3

-----------------------------------------------------------------------------
(* The first n of a sequence.                                              *)
LEMMA FirstIs ==
  ASSUME WalkAssumptions, NEW S, NEW s \in Seq(S), NEW n \in Nat \cup {None}
  PROVE  /\ First(s, n) \in Seq(S) /\ Len(First(s, n)) <= Len(s)
         /\ \A i \in 1..Len(First(s, n)) : First(s, n)[i] = s[i]
         /\ Len(First(s, n)) = Len(s) \/ (n # None /\ Len(First(s, n)) = n)
         /\ First(s, n) = <<>> => s = <<>> \/ n = 0
<1>1. None \notin Int
  BY DEF WalkAssumptions
<1>2. CASE n = None \/ n >= Len(s)
  <2>1. First(s, n) = s
    BY <1>2 DEF First
  <2> QED
    BY <2>1
<1>3. CASE n # None /\ ~(n >= Len(s))
  <2>1. First(s, n) = SubSeq(s, 1, n) /\ n \in Nat /\ n < Len(s) /\ Len(s) \in Nat
    BY <1>3 DEF First
  <2>2. SubSeq(s, 1, n) = Prefix(s, n) /\ n \in 0..Len(s)
    BY <2>1 DEF Prefix
  <2>3. /\ First(s, n) \in Seq(S) /\ Len(First(s, n)) = n
        /\ \A i \in 1..n : First(s, n)[i] = s[i]
    BY <2>1, <2>2, PrefixIs
  <2>4. First(s, n) = <<>> => n = 0
    BY <2>3
  <2> QED
    BY <1>3, <2>1, <2>3, <2>4
<1> QED
  BY <1>2, <1>3

(* The rows of an answer are the first of everything in its order: all of  *)
(* them, or as many as were asked for.                                     *)
AtTop == cmd.op = "largest" /\ Len(rows) = cmd.top
PrintedFrom(s, n) ==
  /\ Len(rows) \in 0..n /\ \A i \in 1..Len(rows) : rows[i] = s[i]
  /\ DOMAIN rows = 1..Len(rows)
  /\ Len(rows) = n \/ IsCut \/ AtTop
  /\ code = 1 => cmd.op # "tree" /\ (n = 0 \/ (cmd.op = "largest" /\ cmd.top = 0))
  /\ code = 0 /\ cmd.op # "tree" /\ cmd.limit # 0 => rows # <<>>

(* That is what an ended command printed.                                  *)
LEMMA RowsAreFirst ==
  ASSUME WalkAssumptions, WalkInv, code \in {0, 1}, NEW s, NEW S, NEW n \in Nat, s \in [1..n -> S],
         rows = First(Kept(s), Room), code = IF Kept(s) = <<>> /\ cmd.op # "tree" THEN 1 ELSE 0
  PROVE  PrintedFrom(s, n)
<1>1. cmd \in Commands /\ cmd.top \in Nat /\ Room \in Nat \cup {None} /\ (cmd.op # "tree" => Room = cmd.limit)
  <2>1. cmd \in Commands /\ cmd.top \in Nat /\ cmd.limit \in Nat \cup {None}
    BY DEF WalkInv, TypesOK, WalkAssumptions, CommandOK
  <2> QED
    BY <2>1 DEF Room
<1>2. s \in Seq(S) /\ Len(s) = n
  OBVIOUS
<1>3. /\ Kept(s) \in Seq(S) /\ Len(Kept(s)) <= n /\ \A i \in 1..Len(Kept(s)) : Kept(s)[i] = s[i]
      /\ Len(Kept(s)) = n \/ (cmd.op = "largest" /\ Len(Kept(s)) = cmd.top)
      /\ Kept(s) = <<>> => n = 0 \/ (cmd.op = "largest" /\ cmd.top = 0)
  <2>1. CASE cmd.op = "largest"
    <3>1. Kept(s) = First(s, cmd.top)
      BY <2>1 DEF Kept
    <3>2. /\ First(s, cmd.top) \in Seq(S) /\ Len(First(s, cmd.top)) <= Len(s)
          /\ \A i \in 1..Len(First(s, cmd.top)) : First(s, cmd.top)[i] = s[i]
          /\ Len(First(s, cmd.top)) = Len(s) \/ Len(First(s, cmd.top)) = cmd.top
          /\ First(s, cmd.top) = <<>> => s = <<>> \/ cmd.top = 0
      BY <1>1, <1>2, FirstIs
    <3>3. s = <<>> => n = 0
      BY <1>2
    <3> QED
      BY <1>2, <2>1, <3>1, <3>2, <3>3
  <2>2. CASE cmd.op # "largest"
    <3>1. Kept(s) = s
      BY <2>2 DEF Kept
    <3> QED
      BY <1>2, <3>1
  <2> QED
    BY <2>1, <2>2
<1> DEFINE kept == Kept(s)
<1>4. /\ rows \in Seq(S) /\ Len(rows) <= Len(kept) /\ \A i \in 1..Len(rows) : rows[i] = kept[i]
      /\ Len(rows) = Len(kept) \/ (Room # None /\ Len(rows) = Room)
      /\ rows = <<>> => kept = <<>> \/ Room = 0
  BY <1>1, <1>3, FirstIs, ZenonT(60)
<1> HIDE DEF kept
<1>5. /\ kept \in Seq(S) /\ Len(kept) <= n /\ \A i \in 1..Len(kept) : kept[i] = s[i]
      /\ Len(kept) = n \/ (cmd.op = "largest" /\ Len(kept) = cmd.top)
      /\ kept = <<>> => n = 0 \/ (cmd.op = "largest" /\ cmd.top = 0)
      /\ code = IF kept = <<>> /\ cmd.op # "tree" THEN 1 ELSE 0
  BY <1>3 DEF kept
<1>6. Len(rows) \in 0..n /\ DOMAIN rows = 1..Len(rows) /\ \A i \in 1..Len(rows) : rows[i] = s[i]
  BY <1>4, <1>5
<1>7. Len(rows) = n \/ IsCut \/ AtTop
  BY <1>4, <1>5 DEF IsCut, AtTop
<1>8. code = 1 => cmd.op # "tree" /\ (n = 0 \/ (cmd.op = "largest" /\ cmd.top = 0))
  BY <1>5
<1>9. code = 0 /\ cmd.op # "tree" /\ cmd.limit # 0 => rows # <<>>
  BY <1>1, <1>4, <1>5
<1> QED
  BY <1>6, <1>7, <1>8, <1>9 DEF PrintedFrom

(* So an element is printed when nothing has cut the answer short.         *)
LEMMA AllArePrinted ==
  ASSUME NEW s, NEW S, NEW R, InOrder(s, S, R), PrintedFrom(s, Cardinality(S)), ~IsCut, ~AtTop, NEW x \in S
  PROVE  \E i \in DOMAIN rows : rows[i] = x
<1>1. PICK i \in 1..Cardinality(S) : s[i] = x
  BY DEF InOrder
<1>2. Len(rows) = Cardinality(S) /\ rows[i] = s[i] /\ DOMAIN rows = 1..Len(rows)
  BY <1>1 DEF PrintedFrom
<1> QED
  BY <1>1, <1>2

(* The answer to every question but that for duplicates.                   *)
LEMMA AnswerOfRows ==
  ASSUME WalkAssumptions, WalkInv, code \in {0, 1}, cmd.op # "duplicates"
  PROVE  \E s : InOrder(s, found, RowOrder) /\ PrintedFrom(s, Cardinality(found))
<1>1. PICK s \in SortedBy(found, Key) :
        /\ rows = First(Kept(s), Room)
        /\ code = IF Kept(s) = <<>> /\ cmd.op # "tree" THEN 1 ELSE 0
  BY DEF WalkInv, AnsweredOK, Orders
<1>2. InOrder(s, found, RowOrder)
  BY RowsAreSorted
<1>3. PrintedFrom(s, Cardinality(found))
  BY <1>1, <1>2, RowsAreFirst DEF InOrder
<1> QED
  BY <1>2, <1>3

(* The answer to that for duplicates.                                      *)
LEMMA AnswerOfFiles ==
  ASSUME WalkAssumptions, WalkInv, code \in {0, 1}, cmd.op = "duplicates"
  PROVE  \E s : InOrder(s, Grouped, FileOrder) /\ PrintedFrom(s, Cardinality(Grouped))
<1>1. PICK s \in SortedBy(Grouped, GroupKey) :
        /\ rows = First(Kept(s), Room)
        /\ code = IF Kept(s) = <<>> /\ cmd.op # "tree" THEN 1 ELSE 0
  BY DEF WalkInv, AnsweredOK, Orders
<1>2. InOrder(s, Grouped, FileOrder)
  BY FilesAreSorted
<1>3. PrintedFrom(s, Cardinality(Grouped))
  BY <1>1, <1>2, RowsAreFirst DEF InOrder
<1> QED
  BY <1>2, <1>3

(* A path that was as asked for all the time has been found by then.       *)
LEMMA KnownIsFound ==
  ASSUME WalkAssumptions, WalkInv, code \in {0, 1}, NEW p \in Known
  PROVE  /\ p \in Paths /\ p # Root
         /\ cmd.op # "tree" /\ Stable(p) => FoundAt(p)
         /\ cmd.op = "tree" /\ AllDrawn(p) => FoundAt(p)
<1>1. p \in Paths /\ p # Root
  BY DEF Known, WalkInv, TypesOK, TreeOK
<1>2. pending = {} /\ cmd # None /\ code # 2
  BY DEF WalkInv, AnsweredOK, TypesOK
<1> QED
  BY <1>1, <1>2 DEF WalkInv, Complete

-----------------------------------------------------------------------------
(* What WalksAreTrue says follows from the invariant, part by part.        *)

(* What is printed was found.                                              *)
LEMMA PrintedIsFound ==
  ASSUME NEW s, NEW S, NEW R, InOrder(s, S, R), PrintedFrom(s, Cardinality(S))
  PROVE  \A i \in DOMAIN rows : rows[i] \in S /\ i \in 1..Cardinality(S) /\ rows[i] = s[i]
<1>1. ASSUME NEW i \in DOMAIN rows PROVE rows[i] \in S /\ i \in 1..Cardinality(S) /\ rows[i] = s[i]
  <2>1. i \in 1..Len(rows) /\ Len(rows) \in 0..Cardinality(S) /\ Cardinality(S) \in Nat
    BY DEF PrintedFrom, InOrder
  <2>2. i \in 1..Cardinality(S) /\ rows[i] = s[i]
    BY <2>1 DEF PrintedFrom
  <2> QED
    BY <2>2 DEF InOrder
<1> QED
  BY <1>1

(* A command that has ended has one of its exits.                          *)
LEMMA EndsInZeroOrOne ==
  ASSUME WalkInv, Ended
  PROVE  cmd \in Commands /\ cmd # None /\ (code = 2 \/ code \in {0, 1})
  BY DEF WalkInv, TypesOK, Ended

(* A listing names what was asked for, and all of it that stayed.          *)
LEMMA ListingsAreTrue ==
  ASSUME WalkAssumptions, WalkInv
  PROVE  ListingIsTrue
<1> SUFFICES ASSUME Ended, code # 2, cmd.op \in {"glob", "find", "largest"}
             PROVE  /\ \A p \in Printed : p = Root \/ \E t, u \in was : Named(t, p) /\ Passed(u, p)
                    /\ \A p \in Known : Stable(p) =>
                         p \in Printed \/ IsCut \/ (cmd.op = "largest" /\ Len(rows) = cmd.top)
  BY DEF ListingIsTrue
<1>1. code \in {0, 1} /\ cmd.op # "duplicates" /\ cmd.op # "tree"
  BY EndsInZeroOrOne
<1>2. PICK s : InOrder(s, found, RowOrder) /\ PrintedFrom(s, Cardinality(found))
  BY <1>1, AnswerOfRows
<1>3. ASSUME NEW p \in Printed PROVE p = Root \/ \E t, u \in was : Named(t, p) /\ Passed(u, p)
  <2>1. PICK i \in DOMAIN rows : rows[i].path = p
    BY DEF Printed
  <2>2. rows[i] \in found
    BY <1>2, PrintedIsFound
  <2> QED
    BY <1>1, <2>1, <2>2 DEF WalkInv, FoundOK, FoundAs
<1>4. ASSUME NEW p \in Known, Stable(p), ~IsCut, ~AtTop PROVE p \in Printed
  <2>1. PICK r \in found : r.path = p
    BY <1>1, <1>4, KnownIsFound DEF FoundAt
  <2>2. PICK i \in DOMAIN rows : rows[i] = r
    BY <1>2, <1>4, AllArePrinted
  <2> QED
    BY <2>1, <2>2 DEF Printed
<1> QED
  BY <1>3, <1>4 DEF AtTop

(* No file that stayed larger than one printed is left out.                *)
LEMMA LargestFirst ==
  ASSUME WalkAssumptions, WalkInv
  PROVE  LargestAreShown
<1> SUFFICES ASSUME Ended, cmd.op = "largest", NEW p \in Known, NEW i \in DOMAIN rows, Stable(p),
                    \A t \in was : Size(Looked(t, p)) > rows[i].size
             PROVE  \E j \in 1..(i - 1) : rows[j].path = p
  BY DEF LargestAreShown, Always
<1>1. code \in {0, 1} /\ cmd.sort = "largest"
  BY EndsInZeroOrOne DEF WalkInv, AnsweredOK, WalkAssumptions, CommandOK
<1>2. PICK s : InOrder(s, found, RowOrder) /\ PrintedFrom(s, Cardinality(found))
  BY <1>1, AnswerOfRows
<1>3. rows[i] \in found /\ i \in 1..Cardinality(found) /\ rows[i] = s[i]
  BY <1>2, PrintedIsFound
<1>4. PICK r \in found : r.path = p
  BY <1>1, KnownIsFound DEF FoundAt
<1>5. r.size > rows[i].size
  <2>1. p # Root /\ FoundAs(r)
    BY <1>1, <1>4, KnownIsFound DEF WalkInv, FoundOK
  <2>2. PICK u \in was : r = Row(p, Looked(u, p))
    BY <1>4, <2>1 DEF FoundAs
  <2>3. r.size = Size(Looked(u, p))
    BY <2>2 DEF Row
  <2> QED
    BY <2>3
<1>6. PICK j \in 1..Cardinality(found) : s[j] = r
  BY <1>2 DEF InOrder
<1>7. r.size \in Int /\ rows[i].size \in Int /\ r \in Rows /\ rows[i] \in Rows
  BY <1>3 DEF WalkInv, TypesOK, Rows
<1>8. Less(Key(r), Key(rows[i]))
  <2>1. /\ PathKey(r.path) \in Seq(Int) /\ PathKey(rows[i].path) \in Seq(Int)
        /\ Key(r) = <<-r.size>> \o PathKey(r.path)
        /\ Key(rows[i]) = <<-rows[i].size>> \o PathKey(rows[i].path)
    BY <1>1, <1>7, PathKeyIs DEF Key, Rows
  <2>2. Key(r)[1] = -r.size /\ Key(rows[i])[1] = -rows[i].size /\ Len(Key(r)) > 0 /\ Len(Key(rows[i])) > 0
    BY <1>7, <2>1
  <2>3. Key(r) \in Seq(Int) /\ Key(rows[i]) \in Seq(Int)
    BY <1>7, KeyIs
  <2>4. Key(r)[0 + 1] < Key(rows[i])[0 + 1] /\ 0 \in 0..Len(Key(r)) /\ 0 # Len(Key(r)) /\ 0 < Len(Key(rows[i]))
    BY <1>5, <1>7, <2>2, <2>3, SMTT(30)
  <2>5. \A l \in 1..0 : l <= Len(Key(rows[i])) /\ Key(r)[l] = Key(rows[i])[l]
    OBVIOUS
  <2> QED
    BY <2>4, <2>5 DEF Less
<1>9. <<s[j], s[i]>> \in RowOrder
  BY <1>3, <1>6, <1>8, RowsAreOrdered
<1>10. j < i
  <2>1. ~(i < j)
    BY <1>2, <1>3, <1>6, <1>9 DEF InOrder
  <2>2. i # j
    BY <1>3, <1>5, <1>6, <1>7
  <2> QED
    BY <1>2, <1>3, <2>1, <2>2 DEF InOrder
<1>11. j \in 1..(i - 1) /\ j \in 1..Len(rows)
  BY <1>2, <1>10 DEF PrintedFrom
<1>12. rows[j] = r
  BY <1>2, <1>6, <1>11 DEF PrintedFrom
<1> QED
  BY <1>4, <1>11, <1>12

(* Exit 1, 0 and 2 mean what they say.                                     *)
LEMMA ExitsMeanIt ==
  ASSUME WalkAssumptions, WalkInv
  PROVE  ExitsAreTrue
<1> SUFFICES ASSUME Ended
             PROVE  /\ code = 1 => cmd.top = 0 \/ cmd.op = "duplicates" \/ \A p \in Known : ~Stable(p)
                    /\ code = 0 /\ cmd.op # "tree" /\ cmd.limit # 0 => rows # <<>>
                    /\ code = 2 => Refused(cmd) \/ (cmd.op = "glob" /\ \E t, u \in was : DOMAIN t \ DOMAIN u # {})
  BY DEF ExitsAreTrue
<1>1. code = 2 => Refused(cmd) \/ (cmd.op = "glob" /\ \E t, u \in was : DOMAIN t \ DOMAIN u # {})
  BY DEF WalkInv, AnsweredOK, Vanished
<1>2. ASSUME code = 0, cmd.op # "tree", cmd.limit # 0 PROVE rows # <<>>
  BY <1>2, AnswerOfRows, AnswerOfFiles DEF PrintedFrom
<1>3. ASSUME code = 1, cmd.top # 0, cmd.op # "duplicates", NEW p \in Known, Stable(p) PROVE FALSE
  <2>1. PICK s : InOrder(s, found, RowOrder) /\ PrintedFrom(s, Cardinality(found))
    BY <1>3, AnswerOfRows
  <2>2. cmd.op # "tree" /\ Cardinality(found) = 0
    BY <1>3, <2>1 DEF PrintedFrom
  <2>3. found # {}
    BY <1>3, <2>2, KnownIsFound DEF FoundAt
  <2> QED
    BY <2>2, <2>3, FS_EmptySet DEF WalkInv, TypesOK
<1> QED
  BY <1>1, <1>2, <1>3

-----------------------------------------------------------------------------
(* A directory sorts before what lies in it.                               *)
LEMMA ParentIsBefore ==
  ASSUME WalkAssumptions, NEW p \in Paths, Len(p) > 1
  PROVE  Parent(p) \in Paths /\ Less(PathKey(Parent(p)), PathKey(p))
<1>1. Len(p) - 1 \in 0..Len(p) /\ p \in Seq(DOMAIN Rank)
  BY DEF Paths
<1>2. /\ Prefix(p, Len(p) - 1) \in Seq(DOMAIN Rank) /\ Len(Prefix(p, Len(p) - 1)) = Len(p) - 1
      /\ \A i \in 1..(Len(p) - 1) : Prefix(p, Len(p) - 1)[i] = p[i]
  BY <1>1, PrefixIs
<1>3. Parent(p) = Prefix(p, Len(p) - 1)
  BY DEF Parent, Prefix
<1> DEFINE d == Parent(p)
<1>4. d \in Paths /\ Len(d) = Len(p) - 1 /\ \A i \in 1..Len(d) : d[i] = p[i]
  BY <1>2, <1>3 DEF Paths
<1> HIDE DEF d
<1>5. /\ Len(PathKey(d)) = Len(d) /\ \A i \in 1..Len(d) : PathKey(d)[i] = Rank[d[i]]
      /\ Len(PathKey(p)) = Len(p) /\ \A i \in 1..Len(p) : PathKey(p)[i] = Rank[p[i]]
  BY <1>4, PathKeyIs
<1>6. \A i \in 1..Len(d) : i \in 1..Len(p) /\ i <= Len(PathKey(p)) /\ PathKey(d)[i] = PathKey(p)[i]
  BY <1>4, <1>5
<1>7. Len(d) \in 0..Len(PathKey(d)) /\ Len(d) = Len(PathKey(d)) /\ Len(d) < Len(PathKey(p))
  BY <1>1, <1>4, <1>5
<1>8. Less(PathKey(d), PathKey(p))
  BY <1>6, <1>7 DEF Less
<1> QED
  BY <1>4, <1>8 DEF d

(* A drawn tree is ordered by its paths, and no two rows have the same.    *)
LEMMA DrawnOrder ==
  ASSUME WalkAssumptions, WalkInv, cmd # None, cmd.op = "tree"
  PROVE  /\ \A r \in found : Key(r) = PathKey(r.path)
         /\ Total(RowOrder, found)
<1>1. CommandOK(cmd)
  BY DEF WalkInv, TypesOK, WalkAssumptions
<1>2. ASSUME NEW r \in found PROVE Key(r) = PathKey(r.path)
  BY <1>1 DEF CommandOK, Key
<1>3. ASSUME NEW x \in found, NEW y \in found, x # y PROVE <<x, y>> \in RowOrder \/ <<y, x>> \in RowOrder
  <2>1. x.path # y.path /\ x.path \in Paths /\ y.path \in Paths
    BY <1>3 DEF WalkInv, Apart, TypesOK, Rows
  <2>2. PathKey(x.path) # PathKey(y.path) /\ PathKey(x.path) \in Seq(Int) /\ PathKey(y.path) \in Seq(Int)
    BY <2>1, PathKeyIs
  <2>3. Less(Key(x), Key(y)) \/ Less(Key(y), Key(x))
    BY <1>2, <2>2, LessIsTotal
  <2> QED
    BY <2>3, RowsAreOrdered
<1> QED
  BY <1>2, <1>3 DEF Total

(* Every entry is drawn under its own directory, behind those that sort    *)
(* before it, and none that stayed is missing.                             *)
LEMMA DrawnIsTree ==
  ASSUME WalkAssumptions, WalkInv
  PROVE  TreeIsDrawn
<1> SUFFICES ASSUME Ended, cmd.op = "tree"
             PROVE  /\ \A i \in DOMAIN rows :
                         /\ Len(rows[i].path) = 1 \/ \E j \in 1..(i - 1) : rows[j].path = Parent(rows[i].path)
                         /\ \A j \in 1..(i - 1) : Less(PathKey(rows[j].path), PathKey(rows[i].path))
                    /\ \A p \in Known : AllDrawn(p) => p \in Printed \/ IsCut
  BY DEF TreeIsDrawn, Always, AllDrawn
<1>1. cmd # None /\ code \in {0, 1}
  BY EndsInZeroOrOne DEF WalkInv, AnsweredOK
<1>2. PICK s : InOrder(s, found, RowOrder) /\ PrintedFrom(s, Cardinality(found))
  BY <1>1, AnswerOfRows
<1>3. ASSUME NEW i \in DOMAIN rows, NEW j \in 1..(i - 1)
      PROVE  j \in DOMAIN rows /\ <<rows[j], rows[i]>> \in RowOrder
  <2>1. i \in 1..Cardinality(found) /\ rows[i] = s[i] /\ i \in 1..Len(rows) /\ Len(rows) \in Nat
    BY <1>2, PrintedIsFound DEF PrintedFrom
  <2>2. j \in 1..Len(rows) /\ j < i
    BY <2>1
  <2>3. j \in DOMAIN rows /\ j \in 1..Cardinality(found) /\ rows[j] = s[j]
    BY <1>2, <2>2, PrintedIsFound DEF PrintedFrom
  <2>4. s[j] # s[i] /\ <<s[i], s[j]>> \notin RowOrder /\ s[i] \in found /\ s[j] \in found
    BY <1>2, <2>1, <2>2, <2>3 DEF InOrder
  <2> QED
    BY <1>1, <2>1, <2>3, <2>4, DrawnOrder DEF Total
<1>4. ASSUME NEW i \in DOMAIN rows, NEW j \in 1..(i - 1)
      PROVE  Less(PathKey(rows[j].path), PathKey(rows[i].path))
  <2>1. rows[i] \in found /\ rows[j] \in found /\ <<rows[j], rows[i]>> \in RowOrder
    BY <1>2, <1>3, <1>4, PrintedIsFound
  <2> QED
    BY <1>1, <2>1, RowsAreOrdered, DrawnOrder
<1>5. ASSUME NEW i \in DOMAIN rows, Len(rows[i].path) # 1
      PROVE  \E j \in 1..(i - 1) : rows[j].path = Parent(rows[i].path)
  <2> DEFINE p == rows[i].path
  <2>1. rows[i] \in found /\ i \in 1..Cardinality(found) /\ rows[i] = s[i]
    BY <1>2, PrintedIsFound
  <2>2. p \in Paths /\ p # Root /\ FoundAt(Parent(p))
    BY <1>5, <2>1 DEF WalkInv, FoundOK, Hangs, TypesOK, Rows
  <2>3. Len(p) > 1
    <3>1. p \in Seq(DOMAIN Rank) /\ Root \in Seq(DOMAIN Rank) /\ Len(Root) = 0
      BY <2>2 DEF Paths, Root
    <3>2. Len(p) > 0
      BY <2>2, <3>1, WithinIs DEF Within
    <3>3. Len(p) \in Nat /\ Len(p) # 1
      BY <1>5, <3>1
    <3>4. \A n \in Nat : n > 0 /\ n # 1 => n > 1
      OBVIOUS
    <3> QED
      BY <3>2, <3>3, <3>4
  <2>4. PICK r \in found : r.path = Parent(p)
    BY <2>2 DEF FoundAt
  <2>5. Less(PathKey(r.path), PathKey(p))
    BY <2>2, <2>3, <2>4, ParentIsBefore
  <2>6. <<r, rows[i]>> \in RowOrder
    BY <1>1, <2>1, <2>5, DrawnOrder, RowsAreOrdered
  <2>7. PICK j \in 1..Cardinality(found) : s[j] = r
    BY <1>2 DEF InOrder
  <2>8. ~(i < j) /\ i # j
    BY <1>2, <2>1, <2>6, <2>7, RowsAreOrdered DEF InOrder, OrderOf
  <2>9. j \in 1..(i - 1) /\ j \in 1..Len(rows)
    BY <1>2, <2>1, <2>8 DEF PrintedFrom, InOrder
  <2>10. rows[j] = r
    BY <1>2, <2>7, <2>9 DEF PrintedFrom
  <2> QED
    BY <2>4, <2>9, <2>10
<1>6. ASSUME NEW p \in Known, AllDrawn(p), ~IsCut PROVE p \in Printed
  <2>1. PICK r \in found : r.path = p
    BY <1>1, <1>6, KnownIsFound DEF FoundAt
  <2>2. PICK i \in DOMAIN rows : rows[i] = r
    BY <1>2, <1>6, AllArePrinted DEF AtTop
  <2> QED
    BY <2>1, <2>2 DEF Printed
<1> QED
  BY <1>4, <1>5, <1>6

-----------------------------------------------------------------------------
(* Files reported as duplicates.                                           *)

(* One with the same size and content is a member of the same group, and   *)
(* every member of a group of two is reported.                             *)
LEMMA GroupsAreShared ==
  ASSUME WalkInv, NEW h \in hashed, NEW g \in hashed, Read(h), Read(g), g # h,
         g.row.size = h.row.size, g.hash = h.hash
  PROVE  h \in Grouped /\ g \in Grouped
<1>1. {h, g} \in SUBSET Members(h) /\ Members(g) = Members(h) /\ Members(h) \in SUBSET hashed
  BY DEF Members
<1>2. IsFiniteSet(Members(h)) /\ Cardinality({h, g}) <= Cardinality(Members(h))
  BY <1>1, FS_Subset DEF WalkInv, TypesOK
<1>3. Cardinality({h, g}) = 2
  <2>1. IsFiniteSet({h}) /\ Cardinality({h}) = 1
    BY FS_Singleton
  <2>2. g \notin {h}
    OBVIOUS
  <2>3. Cardinality({h} \cup {g}) = 1 + 1
    BY <2>1, <2>2, FS_AddElement
  <2>4. {h} \cup {g} = {h, g}
    OBVIOUS
  <2> QED
    BY <2>3, <2>4
<1>4. Cardinality(Members(h)) >= 2
  BY <1>2, <1>3
<1> QED
  BY <1>1, <1>4 DEF Grouped

(* In a group of two there is another.                                     *)
LEMMA GroupsAreOfTwo ==
  ASSUME WalkInv, NEW h \in Grouped
  PROVE  \E g \in Grouped : g.hash = h.hash /\ g # h /\ g.row.path # h.row.path
<1>1. h \in hashed /\ Read(h) /\ Cardinality(Members(h)) >= 2 /\ h \in Members(h)
  BY DEF Grouped, Members
<1>2. PICK g \in Members(h) : g # h
  <2>1. SUFFICES ASSUME Members(h) = {h} PROVE FALSE
    BY <1>1
  <2>2. Cardinality({h}) = 1
    BY FS_Singleton
  <2> QED
    BY <1>1, <2>1, <2>2
<1>3. g \in hashed /\ Read(g) /\ g.row.size = h.row.size /\ g.hash = h.hash
  BY DEF Members
<1>4. g \in Grouped
  BY <1>1, <1>2, <1>3, GroupsAreShared
<1>5. g.row \in found /\ h.row \in found /\ g.row # h.row
  BY <1>1, <1>2, <1>3 DEF WalkInv, TypesOK, HashedOK
<1>6. g.row.path # h.row.path
  BY <1>5 DEF WalkInv, Apart
<1> QED
  BY <1>2, <1>3, <1>4, <1>6

(* A file that stayed as it was has been read when another has its size.   *)
LEMMA StableIsRead ==
  ASSUME WalkAssumptions, WalkInv, code \in {0, 1}, cmd.op = "duplicates",
         NEW p \in Known, NEW q \in Known, p # q, Stable(p), Stable(q),
         \A t, u \in was : Looked(t, p).data = Looked(u, q).data
  PROVE  \E h, g \in Grouped : h.row.path = p /\ g.row.path = q /\ h.hash = g.hash
<1>1. PICK r \in found : r.path = p
  BY KnownIsFound DEF FoundAt
<1>2. PICK r2 \in found : r2.path = q
  BY KnownIsFound DEF FoundAt
<1>3. p # Root /\ q # Root
  BY KnownIsFound
<1>4. r.size = r2.size
  <2>1. PICK t \in was : r = Row(p, Looked(t, p))
    BY <1>1, <1>3 DEF WalkInv, FoundOK, FoundAs
  <2>2. PICK u \in was : r2 = Row(q, Looked(u, q))
    BY <1>2, <1>3 DEF WalkInv, FoundOK, FoundAs
  <2>3. Looked(t, p).data = Looked(u, q).data
    OBVIOUS
  <2> QED
    BY <2>1, <2>2, <2>3 DEF Row, Size
<1>5. r \in SameSize /\ r2 \in SameSize
  BY <1>1, <1>2, <1>4 DEF SameSize
<1>6. ToHash = {}
  BY DEF WalkInv, AnsweredOK
<1>7. PICK h \in hashed : h.row = r
  BY <1>5, <1>6 DEF ToHash
<1>8. PICK g \in hashed : g.row = r2
  BY <1>5, <1>6 DEF ToHash
<1>9. h.hash # None /\ g.hash # None
  BY <1>1, <1>2, <1>7, <1>8 DEF WalkInv, HashedOK, HashOf
<1>10. h.hash = g.hash
  BY <1>1, <1>2, <1>7, <1>8, <1>9 DEF WalkInv, HashedOK, HashOf
<1>11. h # g
  BY <1>1, <1>2, <1>7, <1>8
<1> QED
  BY <1>1, <1>2, <1>4, <1>7, <1>8, <1>9, <1>10, <1>11, GroupsAreShared DEF Read

(* Files reported together had the same content, and those that had it all *)
(* the time are reported together.                                         *)
LEMMA DuplicatesHaveTheirContent ==
  ASSUME WalkAssumptions, WalkInv
  PROVE  DuplicatesAreReal
<1> SUFFICES ASSUME Ended, cmd.op = "duplicates"
             PROVE  /\ \A i \in DOMAIN rows :
                         /\ \E t \in was : /\ Resolves(t, rows[i].row.path)
                                           /\ Looked(t, rows[i].row.path).data = rows[i].hash
                         /\ IsCut \/ \E j \in DOMAIN rows : /\ j # i /\ rows[j].hash = rows[i].hash
                                                            /\ rows[j].row.path # rows[i].row.path
                    /\ \A p, q \in Known :
                         p # q /\ Stable(p) /\ Stable(q) /\ (\A t, u \in was : Looked(t, p).data = Looked(u, q).data) =>
                           IsCut \/ \E i, j \in DOMAIN rows : /\ rows[i].row.path = p /\ rows[j].row.path = q
                                                              /\ rows[i].hash = rows[j].hash
  BY DEF DuplicatesAreReal, Sometime
<1>1. code \in {0, 1} /\ ~AtTop
  BY EndsInZeroOrOne DEF WalkInv, AnsweredOK, AtTop
<1>2. PICK s : InOrder(s, Grouped, FileOrder) /\ PrintedFrom(s, Cardinality(Grouped))
  BY <1>1, AnswerOfFiles
<1>3. ASSUME NEW i \in DOMAIN rows
      PROVE  /\ \E t \in was : Resolves(t, rows[i].row.path) /\ Looked(t, rows[i].row.path).data = rows[i].hash
             /\ IsCut \/ \E j \in DOMAIN rows : /\ j # i /\ rows[j].hash = rows[i].hash
                                                /\ rows[j].row.path # rows[i].row.path
  <2>1. rows[i] \in Grouped
    BY <1>2, PrintedIsFound
  <2>2. rows[i] \in hashed /\ rows[i].hash # None
    BY <2>1 DEF Grouped, Read
  <2>3. \E t \in was : Resolves(t, rows[i].row.path) /\ Looked(t, rows[i].row.path).data = rows[i].hash
    BY <2>2 DEF WalkInv, HashedOK, HashOf
  <2>4. ASSUME ~IsCut
        PROVE  \E j \in DOMAIN rows : j # i /\ rows[j].hash = rows[i].hash /\ rows[j].row.path # rows[i].row.path
    <3>1. PICK g \in Grouped : g.hash = rows[i].hash /\ g # rows[i] /\ g.row.path # rows[i].row.path
      BY <2>1, GroupsAreOfTwo
    <3>2. PICK j \in DOMAIN rows : rows[j] = g
      BY <1>1, <1>2, <2>4, AllArePrinted
    <3> QED
      BY <3>1, <3>2
  <2> QED
    BY <2>3, <2>4
<1>4. ASSUME NEW p \in Known, NEW q \in Known, p # q, Stable(p), Stable(q),
             \A t, u \in was : Looked(t, p).data = Looked(u, q).data, ~IsCut
      PROVE  \E i, j \in DOMAIN rows : /\ rows[i].row.path = p /\ rows[j].row.path = q
                                       /\ rows[i].hash = rows[j].hash
  <2>1. PICK h \in Grouped, g \in Grouped : h.row.path = p /\ g.row.path = q /\ h.hash = g.hash
    BY <1>1, <1>4, StableIsRead
  <2>2. PICK i \in DOMAIN rows : rows[i] = h
    BY <1>1, <1>2, <1>4, AllArePrinted
  <2>3. PICK j \in DOMAIN rows : rows[j] = g
    BY <1>1, <1>2, <1>4, AllArePrinted
  <2> QED
    BY <2>1, <2>2, <2>3
<1> QED
  BY <1>3, <1>4

-----------------------------------------------------------------------------
(* What a walk says of a tree that other programs change while it goes on  *)
(* is true: a listing names what was asked for and loses nothing that      *)
(* stayed, the largest files come first, duplicates have had one content,  *)
(* a drawn tree hangs together, and the exits mean what they say (glob.rs, *)
(* find.rs, largest.rs, duplicates.rs, tree.rs).                           *)
THEOREM WalksTellTheTruth ==
  ASSUME WalkAssumptions
  PROVE  Spec => []WalksAreTrue
<1>1. WalkInv => WalksAreTrue
  BY ListingsAreTrue, LargestFirst, DuplicatesHaveTheirContent, DrawnIsTree, ExitsMeanIt DEF WalksAreTrue
<1> QED
  BY <1>1, WalksKeepInv, PTL
=============================================================================
