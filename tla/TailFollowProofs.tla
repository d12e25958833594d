--------------------------- MODULE TailFollowProofs ---------------------------
(***************************************************************************)
(* Proofs about TailFollow, for every content, chunk size, length bound    *)
(* and number of rewrites: its type invariant; that bytes-mode polling     *)
(* prints the file without a gap or a repetition; that the rows of lines   *)
(* mode are the lines of the file under their numbers; and that numbering  *)
(* starts again only after a rewrite.  Lines mode needs a theory of texts  *)
(* first: where newlines are, how lines are cut, and how lossy decoding    *)
(* treats both.                                                            *)
(***************************************************************************)
EXTENDS TailFollow, NumbersProofs, SequenceTheorems, TLAPS

USE DEF followerVars, writerVars, lineVars, historyVars, envVars, printVars,
        pollUnchanged

(* A chunk of the writer is a sequence of bytes.                           *)
LEMMA ChunkType == \A chunk \in Chunks : chunk \in Seq(Byte)
BY BytesAssumption

(* The ways a subsequence is cut from a typed sequence.                    *)
LEMMA SubSeqType ==
  ASSUME NEW S, NEW s \in Seq(S), NEW m \in Nat \ {0}, NEW n \in 0 .. Len(s)
  PROVE  /\ SubSeq(s, m, n) \in Seq(S)
         /\ Len(SubSeq(s, m, n)) = IF m <= n THEN n - m + 1 ELSE 0
BY SubSeqProperties, ElementOfSeq

(* What the follower has open is a sequence of bytes ...                   *)
LEMMA ContentType == StateTypeOK /\ fd # 0 => Content \in Seq(Byte)
BY ElementOfSeq DEF StateTypeOK, Content

(* ... and so is what a read of it adds.                                   *)
LEMMA FreshType ==
  StateTypeOK /\ fd # 0 => Fresh \in Seq(Byte) /\ Len(Fresh) \in Nat
BY ContentType, SubSeqType, LenProperties DEF StateTypeOK, Fresh

(* The types before the first step.                                        *)
LEMMA StateTypeInit == Init => StateTypeOK
<1> SUFFICES ASSUME Init PROVE StateTypeOK
  OBVIOUS
<1>1. PICK c \in Seq(Byte) : inodes = <<c>>
  BY BytesAssumption DEF Init
<1>2. inodes \in Seq(Seq(Byte)) /\ inodes # <<>> /\ Len(inodes) = 1
  BY <1>1
<1>3. out \in Seq(Byte)
  BY EmptySeq DEF Init
<1>4. named \in 0 .. Len(inodes) /\ fd \in 0 .. Len(inodes)
  BY <1>2 DEF Init
<1> QED
  BY <1>2, <1>3, <1>4, Zenon DEF Init, StateTypeOK

(* Every step keeps the types.                                             *)
LEMMA StateTypeStep == StateTypeOK /\ [Next]_vars => StateTypeOK'
<1> SUFFICES ASSUME StateTypeOK, [Next]_vars PROVE StateTypeOK'
  OBVIOUS
<1> USE DEF StateTypeOK
<1>1. ASSUME NEW chunk \in Chunks, Append_(chunk) PROVE StateTypeOK'
  BY <1>1, ChunkType, ConcatProperties, ElementOfSeq DEF Append_, Current
<1>2. CASE Truncate
  BY <1>2 DEF Truncate, Current
<1>3. CASE RenameAway
  BY <1>3 DEF RenameAway
<1>4. CASE Recreate
  BY <1>4, EmptySeq, AppendProperties DEF Recreate
<1>5. CASE CloseReader
  BY <1>5 DEF CloseReader
<1>6. CASE Expire
  BY <1>6 DEF Expire
<1>7. CASE StartLines
  <2>1. inodes[named] \in Seq(Byte)
    BY <1>7, ElementOfSeq DEF StartLines
  <2> QED BY <1>7, <2>1 DEF StartLines
<1>8. CASE StartBytes
  <2>1. inodes[named] \in Seq(Byte)
    BY <1>8, ElementOfSeq DEF StartBytes
  <2>2. seen' \in Nat /\ pc' \in {"measure", "readlast"}
    BY <1>8, <2>1, LenProperties DEF StartBytes
  <2> QED BY <1>8, <2>2 DEF StartBytes
<1>9. CASE ReadLast
  <2>1. fd # 0 /\ args.n \in Nat
    BY <1>9, CountsAssumption DEF ReadLast
  <2>2. Content \in Seq(Byte)
    BY <2>1, ContentType
  <2>3. SaturatingSub(seen, args.n) + 1 \in Nat \ {0}
    BY <2>1 DEF SaturatingSub
  <2>4. LastBytes \in Seq(Byte)
    <3>1. Len(Content) \in 0 .. Len(Content)
      BY <2>2, LenProperties
    <3> HIDE DEF StateTypeOK
    <3> QED BY <2>2, <2>3, <3>1, SubSeqType DEF LastBytes
  <2> QED BY <1>9, <2>4 DEF ReadLast
<1>10. CASE Measure
  <2>1. inodes[named] \in Seq(Byte)
    BY <1>10, ElementOfSeq DEF Measure
  <2> QED BY <1>10, <2>1 DEF Measure
<1>11. CASE Open
  BY <1>11 DEF Open
<1>12. CASE PathMissing \/ Stop \/ BrokenPipe
  <2>1. pc' = "done" /\ outcome' \in {"Found", "NotFound", "brokenpipe", "error"}
    BY <1>12 DEF PathMissing, Stop, BrokenPipe, EndWith
  <2>2. UNCHANGED <<envVars, fd, seen, offset, lineVars, grew, out, historyVars>>
    BY <1>12 DEF PathMissing, Stop, BrokenPipe, EndWith
  <2> QED BY <2>1, <2>2
<1>13. CASE Nap \/ StatSame \/ StatLonger \/ EmitDone
  BY <1>13 DEF Nap, StatSame, StatLonger, EmitDone
<1>14. CASE StatShorter
  BY <1>14 DEF StatShorter
<1>15. CASE ReadLines
  <2>1. fd # 0
    BY <1>15 DEF ReadLines
  <2> QED BY <1>15, <2>1, FreshType DEF ReadLines
<1>16. CASE ReadBytes
  <2>1. fd # 0
    BY <1>16 DEF ReadBytes
  <2> QED BY <1>16, <2>1, FreshType, ConcatProperties DEF ReadBytes
<1>17. CASE EmitLine
  <2>1. args.mode # "bytes"
    BY <1>17 DEF EmitLine
  <2> QED BY <1>17, <2>1 DEF EmitLine
<1>18. CASE Done \/ UNCHANGED vars
  BY <1>18 DEF Done, vars
<1> QED
  BY <1>1, <1>2, <1>3, <1>4, <1>5, <1>6, <1>7, <1>8, <1>9, <1>10, <1>11, <1>12,
     <1>13, <1>14, <1>15, <1>16, <1>17, <1>18
  DEF Next, Environment, Follower

(* The type invariant holds of every behaviour.                            *)
THEOREM StateTypes == Spec => []StateTypeOK
<1> USE StateTypeInit, StateTypeStep
<1> QED BY PTL DEF Spec

-----------------------------------------------------------------------------
(* Cutting a concatenation before, or through, its seam.                   *)
LEMMA CutBeforeSeam ==
  ASSUME NEW S, NEW s \in Seq(S), NEW t \in Seq(S),
         NEW m \in Nat \ {0}, NEW n \in 0 .. Len(s)
  PROVE  SubSeq(s \o t, m, n) = SubSeq(s, m, n)
<1>1. CASE n < m
  BY <1>1, SubSeqEmpty
<1>2. CASE m <= n
  BY <1>2, SubSeqOfConcat1
<1> QED BY <1>1, <1>2

(* Through it, to the end.                                                 *)
LEMMA CutThroughSeam ==
  ASSUME NEW S, NEW s \in Seq(S), NEW t \in Seq(S), NEW m \in 1 .. Len(s) + 1
  PROVE  SubSeq(s \o t, m, Len(s \o t)) = SubSeq(s, m, Len(s)) \o t
<1> DEFINE left == SubSeq(s \o t, m, Len(s \o t))
           head == SubSeq(s, m, Len(s))
<1>1. /\ s \o t \in Seq(S) /\ Len(s \o t) = Len(s) + Len(t)
      /\ Len(s) \in Nat /\ Len(t) \in Nat
      /\ \A i \in 1 .. Len(s) + Len(t) :
           (s \o t)[i] = IF i <= Len(s) THEN s[i] ELSE t[i - Len(s)]
  BY ConcatProperties, LenProperties
<1>2. /\ head \in Seq(S) /\ Len(head) = Len(s) - m + 1
      /\ \A i \in 1 .. Len(s) - m + 1 : head[i] = s[m + i - 1]
  BY <1>1, SubSeqProperties, ElementOfSeq
<1>3. /\ left \in Seq(S) /\ Len(left) = Len(s) + Len(t) - m + 1
      /\ \A i \in 1 .. Len(s) + Len(t) - m + 1 : left[i] = (s \o t)[m + i - 1]
  BY <1>1, SubSeqProperties, ElementOfSeq
<1>4. /\ head \o t \in Seq(S) /\ Len(head \o t) = Len(head) + Len(t)
      /\ \A i \in 1 .. Len(head) + Len(t) :
           (head \o t)[i] = IF i <= Len(head) THEN head[i] ELSE t[i - Len(head)]
  BY <1>2, ConcatProperties
<1> HIDE DEF left, head
<1>5. Len(left) = Len(head \o t)
  BY <1>1, <1>2, <1>3, <1>4
<1>6. ASSUME NEW i \in 1 .. Len(left) PROVE left[i] = (head \o t)[i]
  <2>1. /\ i \in 1 .. Len(s) + Len(t) - m + 1
        /\ i \in 1 .. Len(head) + Len(t)
        /\ m + i - 1 \in 1 .. Len(s) + Len(t)
    BY <1>1, <1>2, <1>3
  <2>2. left[i] = (s \o t)[m + i - 1]
    BY <1>3, <2>1
  <2>3. CASE m + i - 1 <= Len(s)
    <3>1. i \in 1 .. Len(s) - m + 1 /\ i <= Len(head)
      BY <1>1, <1>2, <2>1, <2>3
    <3>2. left[i] = s[m + i - 1] /\ head[i] = s[m + i - 1]
      BY <1>1, <1>2, <2>1, <2>2, <2>3, <3>1
    <3> QED BY <1>4, <2>1, <3>1, <3>2
  <2>4. CASE m + i - 1 > Len(s)
    <3>1. i > Len(head) /\ m + i - 1 - Len(s) = i - Len(head)
      BY <1>1, <1>2, <2>1, <2>4
    <3>2. (s \o t)[m + i - 1] = t[m + i - 1 - Len(s)]
      BY <1>1, <2>1, <2>4
    <3>3. (head \o t)[i] = t[i - Len(head)]
      BY <1>4, <2>1, <3>1
    <3> QED BY <2>2, <3>1, <3>2, <3>3
  <2>5. m + i - 1 <= Len(s) \/ m + i - 1 > Len(s)
    BY <1>1, <2>1
  <2> QED BY <2>3, <2>4, <2>5
<1>7. left = head \o t
  BY <1>3, <1>4, <1>5, <1>6, SeqEqual
<1> QED BY <1>7 DEF left, head

-----------------------------------------------------------------------------
(* Bytes mode.  BytesContiguous is not inductive: what was consumed must   *)
(* still be there, and it is only from the moment the offset is measured.  *)
Printed == SubSeq(out, epoch + 1, Len(out))

BytesInv ==
  /\ args.mode = "bytes" /\ pc = "open" /\ ~stale => offset <= Len(Content)
  /\ args.mode = "bytes" /\ Following =>
       /\ epoch \in 0 .. Len(out)
       /\ base \in 0 .. offset
       /\ offset \in 0 .. Len(Content)
       /\ Printed = SubSeq(Content, base + 1, offset)

(* A step after which polling goes on and that left the printed part, the  *)
(* consumed part and the history alone keeps the invariant.                *)
LEMMA BytesInvStutter ==
  ASSUME StateTypeOK, BytesInv,
         UNCHANGED <<inodes, fd, args, offset, out, epoch, base>>,
         pc' = "open" => pc = "open" /\ (~stale' => ~stale),
         Following' => Following
  PROVE  BytesInv'
BY DEF BytesInv, Printed, Content

(* The writer's steps change files only: an append keeps what was there,   *)
(* and a truncation of a file in use makes the follower stale.             *)
LEMMA BytesInvWriter ==
  ASSUME StateTypeOK, BytesInv, Environment
  PROVE  BytesInv'
<1> USE DEF StateTypeOK
<1>1. ASSUME NEW chunk \in Chunks, Append_(chunk) PROVE BytesInv'
  <2>1. CASE fd # 0
    <3>1. /\ Content \in Seq(Byte)
          /\ Content' \in {Content, Content \o chunk}
          /\ UNCHANGED <<args, pc, fd, offset, out, stale, epoch, base>>
      <4>1. inodes' = [inodes EXCEPT ![Len(inodes)] = inodes[Len(inodes)] \o chunk]
        BY <1>1 DEF Append_, Current
      <4>2. fd \in 1 .. Len(inodes) /\ fd' = fd /\ inodes[fd] \in Seq(Byte)
        BY <1>1, <2>1, ElementOfSeq DEF Append_
      <4>3. inodes'[fd] \in {inodes[fd], inodes[fd] \o chunk}
        <5>1. fd = Len(inodes) => inodes'[fd] = inodes[fd] \o chunk
          BY <4>1, <4>2
        <5>2. fd # Len(inodes) => inodes'[fd] = inodes[fd]
          BY <4>1, <4>2
        <5> QED BY <5>1, <5>2
      <4>4. UNCHANGED <<args, pc, fd, offset, out, stale, epoch, base>>
        BY <1>1 DEF Append_
      <4> QED BY <4>2, <4>3, <4>4 DEF Content
    <3>2. /\ Len(Content) \in Nat /\ Len(Content') >= Len(Content)
          /\ \A m \in Nat \ {0}, n \in 0 .. Len(Content) :
               SubSeq(Content', m, n) = SubSeq(Content, m, n)
      BY <3>1, ChunkType, ConcatProperties, LenProperties, CutBeforeSeam
    <3>3. (Following' <=> Following) /\ Printed' = Printed
      BY <3>1 DEF Following, Polling, Printed
    <3>4. base \in 0 .. offset /\ offset \in 0 .. Len(Content) =>
            SubSeq(Content', base + 1, offset) = SubSeq(Content, base + 1, offset)
      <4>1. base \in 0 .. offset => base + 1 \in Nat \ {0}
        OBVIOUS
      <4> QED BY <3>2, <4>1
    <3>5. offset <= Len(Content) => offset <= Len(Content')
      BY <3>1, <3>2, LenProperties, ChunkType, ConcatProperties
    <3>6. ASSUME args.mode = "bytes", Following' PROVE
            /\ epoch' \in 0 .. Len(out') /\ base' \in 0 .. offset'
            /\ offset' \in 0 .. Len(Content')
            /\ Printed' = SubSeq(Content', base' + 1, offset')
      <4>1. /\ epoch \in 0 .. Len(out) /\ base \in 0 .. offset
            /\ offset \in 0 .. Len(Content)
            /\ Printed = SubSeq(Content, base + 1, offset)
        BY <3>3, <3>6 DEF BytesInv
      <4> QED BY <3>1, <3>2, <3>3, <3>4, <3>5, <4>1
    <3> QED BY <3>1, <3>5, <3>6 DEF BytesInv
  <2>2. CASE fd = 0
    <3>1. pc' \in {"start", "done"}
      BY <1>1, <2>2 DEF Append_
    <3> QED BY <3>1 DEF BytesInv, Following, Polling
  <2> QED BY <2>1, <2>2
<1>2. CASE Truncate
  <2>1. CASE fd = Current
    <3>1. stale' \/ offset = 0
      <4>1. offset = 0 \/ offset > 0
        OBVIOUS
      <4>2. stale' = (stale \/ (fd = Current /\ offset > 0))
        BY <1>2 DEF Truncate
      <4> QED BY <2>1, <4>1, <4>2, Zenon
    <3>2. CASE offset = 0 /\ ~stale'
      <4>1. /\ Content' = <<>> /\ Len(Content') = 0
            /\ UNCHANGED <<args, pc, fd, offset, out, epoch, base>>
            /\ ~stale
        BY <1>2, <2>1, <3>2 DEF Truncate, Content, Current
      <4>2. Following' = Following /\ Printed' = Printed
        BY <4>1, <3>2 DEF Following, Polling, Printed
      <4>3. base = 0 => SubSeq(Content', base + 1, offset) = <<>>
                        /\ SubSeq(Content, base + 1, offset) = <<>>
        BY <3>2, SubSeqEmpty
      <4> QED BY <3>2, <4>1, <4>2, <4>3 DEF BytesInv
    <3>3. CASE stale'
      <4>1. ~Following'
        BY <3>3 DEF Following
      <4> QED BY <3>3, <4>1 DEF BytesInv
    <3> QED BY <3>1, <3>2, <3>3 DEF Truncate
  <2>2. CASE fd # Current
    <3>1. UNCHANGED <<args, pc, fd, offset, out, stale, epoch, base>>
      BY <1>2, <2>2 DEF Truncate
    <3>2. fd # 0 => Content' = Content
      BY <1>2, <2>2 DEF Truncate, Content, Current
    <3>3. fd = 0 => pc \in {"start", "done"}
      OBVIOUS
    <3> QED BY <3>1, <3>2, <3>3 DEF BytesInv, Following, Polling, Printed
  <2> QED BY <2>1, <2>2
<1>3. CASE RenameAway
  BY <1>3 DEF RenameAway, BytesInv, Following, Polling, Printed, Content
<1>4. CASE Recreate
  <2>1. UNCHANGED <<args, pc, fd, offset, out, stale, epoch, base>>
    BY <1>4 DEF Recreate
  <2>2. fd # 0 => Content' = Content
    BY <1>4, EmptySeq, AppendProperties DEF Recreate, Content
  <2>3. fd = 0 => pc \in {"start", "done"}
    OBVIOUS
  <2> QED BY <2>1, <2>2, <2>3 DEF BytesInv, Following, Polling, Printed
<1>5. CASE CloseReader \/ Expire
  BY <1>5 DEF CloseReader, Expire, BytesInv, Following, Polling, Printed, Content
<1> QED
  BY <1>1, <1>2, <1>3, <1>4, <1>5 DEF Environment

(* The follower's steps.                                                   *)
LEMMA BytesInvFollower ==
  ASSUME StateTypeOK, BytesInv, Follower
  PROVE  BytesInv'
<1> USE DEF StateTypeOK
<1>1. CASE StartLines \/ ReadLines \/ EmitLine
  <2>1. args'.mode # "bytes"
    BY <1>1 DEF StartLines, ReadLines, EmitLine
  <2> QED BY <2>1 DEF BytesInv
<1>2. CASE StartBytes \/ ReadLast
  <2>1. pc' \in {"measure", "readlast"}
    BY <1>2 DEF StartBytes, ReadLast
  <2> QED BY <2>1 DEF BytesInv, Following, Polling
<1>3. CASE Measure
  <2>1. pc' = "open" /\ offset' = Len(Content')
    BY <1>3 DEF Measure, Content
  <2>2. offset' <= Len(Content')
    BY <1>3, <2>1, ElementOfSeq, LenProperties DEF Measure
  <2> QED BY <2>1, <2>2 DEF BytesInv, Following, Polling
<1>4. CASE Open
  <2>1. CASE args.mode = "bytes"
    <3>1. /\ pc = "open" /\ pc' = "loop" /\ fd' = named /\ fd # 0 /\ named # 0
          /\ epoch' = Len(out) /\ base' = offset
          /\ stale' = (stale \/ (fd # named /\ offset > 0))
          /\ UNCHANGED <<inodes, args, offset, out>>
      BY <1>4, <2>1 DEF Open
    <3>2. inodes[named] \in Seq(Byte) /\ Len(inodes[named]) \in Nat
      BY <3>1, ElementOfSeq, LenProperties
    <3>3. Len(out) \in Nat
      BY <2>1, LenProperties
    <3>4. Following' => offset' \in 0 .. Len(Content')
      <4>1. Following' => ~stale' /\ (fd = named \/ ~(offset > 0)) /\ ~stale
        BY <3>1, Zenon DEF Following
      <4>2. ~stale => offset <= Len(inodes[fd])
        BY <2>1, <3>1 DEF BytesInv, Content
      <4>3. Content' = inodes[named] /\ offset' = offset
        BY <3>1 DEF Content
      <4> QED BY <3>2, <4>1, <4>2, <4>3
    <3>5. Printed' = <<>> /\ SubSeq(Content', base' + 1, offset') = <<>>
      BY <3>1, <3>3, SubSeqEmpty DEF Printed
    <3> QED BY <3>1, <3>3, <3>4, <3>5 DEF BytesInv
  <2>2. CASE args.mode # "bytes"
    BY <1>4, <2>2 DEF Open, BytesInv
  <2> QED BY <2>1, <2>2
<1>5. CASE PathMissing \/ Stop \/ BrokenPipe
  <2>1. pc' = "done"
    BY <1>5 DEF PathMissing, Stop, BrokenPipe, EndWith
  <2> QED BY <2>1 DEF BytesInv, Following, Polling
<1>6. CASE Nap \/ StatSame \/ StatLonger \/ EmitDone
  BY <1>6, BytesInvStutter
  DEF Nap, StatSame, StatLonger, EmitDone, Following, Polling
<1>7. CASE StatShorter
  <2>1. CASE args.mode = "bytes"
    <3>1. /\ pc' = "loop" /\ fd # 0 /\ offset' = 0 /\ base' = 0 /\ epoch' = Len(out)
          /\ UNCHANGED <<inodes, args, fd, out>>
      BY <1>7, <2>1 DEF StatShorter
    <3>2. Len(out) \in Nat /\ Len(Content') \in Nat
      BY <2>1, <3>1, ContentType, LenProperties DEF Content
    <3>3. Printed' = <<>> /\ SubSeq(Content', base' + 1, offset') = <<>>
      BY <3>1, <3>2, SubSeqEmpty DEF Printed
    <3> QED BY <3>1, <3>2, <3>3 DEF BytesInv
  <2>2. CASE args.mode # "bytes"
    BY <1>7, <2>2 DEF StatShorter, BytesInv
  <2> QED BY <2>1, <2>2
<1>8. CASE ReadBytes
  <2>1. CASE Following
    <3>1. /\ fd # 0 /\ args.mode = "bytes" /\ pc' = "loop"
          /\ out' = out \o Fresh /\ offset' = offset + Len(Fresh)
          /\ UNCHANGED <<inodes, args, fd, stale, epoch, base>>
      BY <1>8 DEF ReadBytes
    <3>2. /\ Content \in Seq(Byte) /\ Fresh \in Seq(Byte)
          /\ Content' = Content
      BY <3>1, ContentType, FreshType DEF Content
    <3>3. /\ epoch \in 0 .. Len(out) /\ base \in 0 .. offset
          /\ offset \in 0 .. Len(Content)
          /\ Printed = SubSeq(Content, base + 1, offset)
      BY <2>1, <3>1 DEF BytesInv
    <3>4. Len(Fresh) = Len(Content) - offset /\ offset' = Len(Content)
      <4>1. Len(Content) \in Nat /\ offset + 1 \in Nat \ {0}
        BY <3>2, LenProperties
      <4>2. Len(Fresh) = IF offset + 1 <= Len(Content)
                         THEN Len(Content) - (offset + 1) + 1 ELSE 0
        BY <3>2, <4>1, SubSeqType DEF Fresh
      <4> QED BY <3>1, <3>3, <4>1, <4>2
    <3>5. Printed' = Printed \o Fresh
      <4>1. out \in Seq(Byte) /\ epoch + 1 \in 1 .. Len(out) + 1
        BY <3>1, <3>3, LenProperties
      <4> QED BY <3>1, <3>2, <4>1, CutThroughSeam DEF Printed
    <3>6. SubSeq(Content, base + 1, offset) \o Fresh
            = SubSeq(Content, base + 1, Len(Content))
      <4>1. /\ Len(Content) \in Nat
            /\ base + 1 \in 1 .. Len(Content) + 1
            /\ offset \in (base + 1) - 1 .. Len(Content)
            /\ Len(Content) \in offset .. Len(Content)
        BY <3>2, <3>3, LenProperties
      <4> QED BY <3>2, <4>1, ConcatAdjacentSubSeq DEF Fresh
    <3>7. Len(out') = Len(out) + Len(Fresh) /\ Len(out) \in Nat /\ Len(Fresh) \in Nat
      BY <3>1, <3>2, ConcatProperties, LenProperties
    <3>8. Len(Content) \in Nat /\ Content' = Content
      BY <3>2, LenProperties
    <3>9. epoch' \in 0 .. Len(out') /\ base' \in 0 .. offset'
          /\ offset' \in 0 .. Len(Content')
      BY <3>1, <3>3, <3>4, <3>7, <3>8, SMTT(30)
    <3>10. Printed' = SubSeq(Content', base' + 1, offset')
      BY <3>1, <3>3, <3>4, <3>5, <3>6, <3>8
    <3> QED BY <3>1, <3>9, <3>10 DEF BytesInv
  <2>2. CASE ~Following
    <3>1. pc' = "loop" /\ ~Following'
      BY <1>8, <2>2 DEF ReadBytes, Following, Polling
    <3> QED BY <3>1 DEF BytesInv
  <2> QED BY <2>1, <2>2
<1> QED
  BY <1>1, <1>2, <1>3, <1>4, <1>5, <1>6, <1>7, <1>8 DEF Follower

(* Every step keeps the invariant.                                         *)
LEMMA BytesInvStep == StateTypeOK /\ BytesInv /\ [Next]_vars => BytesInv'
<1> SUFFICES ASSUME StateTypeOK, BytesInv, [Next]_vars PROVE BytesInv'
  OBVIOUS
<1>1. CASE Done \/ UNCHANGED vars
  BY <1>1 DEF Done, vars, BytesInv, Following, Polling, Printed, Content
<1> QED
  BY <1>1, BytesInvWriter, BytesInvFollower DEF Next

(* What bytes-mode polling prints is the file, every byte once and in      *)
(* order, from where polling began to what was consumed.                   *)
THEOREM BytesAreContiguous == Spec => []BytesContiguous
<1>1. Init => BytesInv
  BY DEF Init, BytesInv, Following, Polling
<1>2. BytesInv => BytesContiguous
  BY DEF BytesInv, BytesContiguous, Printed
<1> QED
  BY <1>1, <1>2, StateTypeInit, StateTypeStep, BytesInvStep, PTL DEF Spec

-----------------------------------------------------------------------------
(* Text: sequences of bytes, of characters, or of both.                    *)
Text == ByteClass \cup CharClass

(* Bytes and characters are text, and so are sequences of them.            *)
LEMMA ByteIsText == Seq(Byte) \subseteq Seq(Text) /\ Seq(CharClass) \subseteq Seq(Text)
<1>1. Byte \subseteq Text /\ CharClass \subseteq Text
  BY BytesAssumption DEF Text
<1> QED BY <1>1, SeqMonotonic

(* The positions of the newlines are finitely many positions of the text.  *)
LEMMA NlType ==
  ASSUME NEW s \in Seq(Text)
  PROVE  /\ NlAt(s) \in SUBSET (1 .. Len(s)) /\ NlAt(s) \in SUBSET (Nat \ {0})
         /\ NlAt(s) \in SUBSET Nat
         /\ IsFiniteSet(NlAt(s)) /\ Cardinality(NlAt(s)) \in Nat
         /\ Len(s) \in Nat
<1>1. NlAt(s) \in SUBSET (1 .. Len(s)) /\ Len(s) \in Nat
  BY LenProperties DEF NlAt
<1>2. IsFiniteSet(1 .. Len(s))
  BY <1>1, FS_Interval
<1>3. IsFiniteSet(NlAt(s))
  BY <1>1, <1>2, FS_Subset
<1> QED BY <1>1, <1>3, FS_CardinalityType

(* The newlines of two texts one after the other.                          *)
LEMMA NlConcat ==
  ASSUME NEW s \in Seq(Text), NEW t \in Seq(Text)
  PROVE  /\ NlAt(s \o t) = NlAt(s) \cup Shifted(Len(s), NlAt(t))
         /\ Cardinality(NlAt(s \o t)) = Cardinality(NlAt(s)) + Cardinality(NlAt(t))
         /\ \A k \in 1 .. Cardinality(NlAt(s)) : Nth(NlAt(s \o t), k) = Nth(NlAt(s), k)
         /\ \A k \in 1 .. Cardinality(NlAt(t)) :
              Nth(NlAt(s \o t), Cardinality(NlAt(s)) + k) = Len(s) + Nth(NlAt(t), k)
<1>1. NlAt(s \o t) = NlAt(s) \cup Shifted(Len(s), NlAt(t))
  <2>1. /\ Len(s) \in Nat /\ Len(t) \in Nat
        /\ DOMAIN s = 1 .. Len(s) /\ DOMAIN t = 1 .. Len(t)
        /\ DOMAIN (s \o t) = 1 .. Len(s) + Len(t)
        /\ \A i \in 1 .. Len(s) + Len(t) :
             (s \o t)[i] = IF i <= Len(s) THEN s[i] ELSE t[i - Len(s)]
    <3>1. s \o t \in Seq(Text) /\ Len(s \o t) = Len(s) + Len(t)
      BY ConcatProperties
    <3> QED BY <3>1, ConcatProperties, LenProperties
  <2>2. ASSUME NEW i \in NlAt(s \o t) PROVE i \in NlAt(s) \cup Shifted(Len(s), NlAt(t))
    <3>1. i \in 1 .. Len(s) + Len(t) /\ (s \o t)[i] = "nl"
      BY <2>1, <2>2 DEF NlAt
    <3>2. CASE i <= Len(s)
      BY <2>1, <3>1, <3>2 DEF NlAt
    <3>3. CASE i > Len(s)
      <4>1. i - Len(s) \in NlAt(t) /\ i = Len(s) + (i - Len(s))
        BY <2>1, <3>1, <3>3 DEF NlAt
      <4> QED BY <4>1 DEF Shifted
    <3> QED BY <2>1, <3>1, <3>2, <3>3
  <2>3. NlAt(s) \subseteq NlAt(s \o t)
    BY <2>1 DEF NlAt
  <2>4. ASSUME NEW j \in NlAt(t) PROVE Len(s) + j \in NlAt(s \o t)
    <3>1. j \in 1 .. Len(t) /\ t[j] = "nl"
      BY <2>1 DEF NlAt
    <3> DEFINE i == Len(s) + j
    <3>2. i \in 1 .. Len(s) + Len(t) /\ ~(i <= Len(s)) /\ i - Len(s) = j
      BY <2>1, <3>1
    <3> HIDE DEF i
    <3>3. (s \o t)[i] = t[j]
      BY <2>1, <3>2
    <3>4. i \in NlAt(s \o t)
      BY <2>1, <3>1, <3>2, <3>3 DEF NlAt
    <3> QED BY <3>4 DEF i
  <2> QED BY <2>2, <2>3, <2>4 DEF Shifted
<1> DEFINE U == NlAt(s) \cup Shifted(Len(s), NlAt(t))
<1>2. /\ Cardinality(U) = Cardinality(NlAt(s)) + Cardinality(NlAt(t))
      /\ \A k \in 1 .. Cardinality(NlAt(s)) : Nth(U, k) = Nth(NlAt(s), k)
      /\ \A k \in 1 .. Cardinality(NlAt(t)) :
           Nth(U, Cardinality(NlAt(s)) + k) = Len(s) + Nth(NlAt(t), k)
  <2>1. /\ Len(s) \in Nat /\ NlAt(s) \in SUBSET (1 .. Len(s))
        /\ NlAt(t) \in SUBSET (Nat \ {0}) /\ IsFiniteSet(NlAt(t))
    BY NlType
  <2> QED BY <2>1, NthContinued, ZenonT(60)
<1> HIDE DEF U
<1>3. NlAt(s \o t) = U
  BY <1>1 DEF U
<1> QED BY <1>1, <1>2, <1>3

(* A piece between two others, and its two neighbours.                     *)
LEMMA Pieces ==
  ASSUME NEW A \in Seq(Text), NEW l \in Seq(Text), NEW B \in Seq(Text)
  PROVE  /\ A \o (l \o B) \in Seq(Text)
         /\ Len(A \o (l \o B)) = Len(A) + Len(l) + Len(B)
         /\ SubSeq(A \o (l \o B), Len(A) + 1, Len(A) + Len(l)) = l
<1> DEFINE s == A \o (l \o B)
           cut == SubSeq(s, Len(A) + 1, Len(A) + Len(l))
<1>1. /\ Len(A) \in Nat /\ Len(l) \in Nat /\ Len(B) \in Nat
      /\ l \o B \in Seq(Text) /\ Len(l \o B) = Len(l) + Len(B)
      /\ \A i \in 1 .. Len(l) : (l \o B)[i] = l[i]
  BY LenProperties, ConcatProperties
<1>2. /\ s \in Seq(Text) /\ Len(s) = Len(A) + Len(l) + Len(B)
      /\ \A i \in 1 .. Len(l) : s[Len(A) + i] = (l \o B)[i]
  <2>1. /\ s \in Seq(Text) /\ Len(s) = Len(A) + Len(l \o B)
        /\ \A i \in 1 .. Len(A) + Len(l \o B) :
             s[i] = IF i <= Len(A) THEN A[i] ELSE (l \o B)[i - Len(A)]
    BY <1>1, ConcatProperties
  <2>2. ASSUME NEW i \in 1 .. Len(l) PROVE s[Len(A) + i] = (l \o B)[i]
    <3> DEFINE j == Len(A) + i
    <3>1. /\ j \in 1 .. Len(A) + Len(l \o B)
          /\ ~(j <= Len(A)) /\ j - Len(A) = i
      BY <1>1
    <3> HIDE DEF j
    <3>2. s[j] = (l \o B)[i]
      BY <2>1, <3>1
    <3> QED BY <3>2 DEF j
  <2> QED BY <1>1, <2>1, <2>2
<1> HIDE DEF s
<1>3. /\ cut \in Seq(Text) /\ Len(cut) = Len(l)
      /\ \A i \in 1 .. Len(l) : cut[i] = s[Len(A) + i]
  <2>1. \A i \in Len(A) + 1 .. Len(A) + Len(l) : s[i] \in Text
    BY <1>1, <1>2, ElementOfSeq
  <2>2. /\ Len(A) + 1 \in Int /\ Len(A) + Len(l) \in Int
        /\ Len(A) + Len(l) - (Len(A) + 1) + 1 = Len(l)
        /\ (Len(A) + 1 <= Len(A) + Len(l) \/ Len(l) = 0)
    BY <1>1
  <2>3. /\ cut \in Seq(Text)
        /\ Len(cut) = IF Len(A) + 1 <= Len(A) + Len(l)
                      THEN Len(A) + Len(l) - (Len(A) + 1) + 1 ELSE 0
        /\ \A i \in 1 .. Len(A) + Len(l) - (Len(A) + 1) + 1 :
             cut[i] = s[Len(A) + 1 + i - 1]
    BY <2>1, <2>2, SubSeqProperties
  <2>4. \A i \in 1 .. Len(l) : Len(A) + 1 + i - 1 = Len(A) + i
    BY <1>1
  <2> HIDE DEF cut
  <2> QED BY <1>1, <2>2, <2>3, <2>4
<1>4. cut = l
  <2> HIDE DEF cut
  <2> QED BY <1>1, <1>2, <1>3, SeqEqual
<1> QED BY <1>2, <1>4 DEF s

(* What ends with a newline, or is empty; what begins with one.            *)
Whole(A) == A = <<>> \/ A[Len(A)] = "nl"
Rest(B) == B = <<>> \/ B[1] = "nl"

(* The last newline of what ends with one, and the first of what begins    *)
(* with one.                                                               *)
LEMMA LastNewline ==
  ASSUME NEW A \in Seq(Text), Whole(A)
  PROVE  NthNl(A, Cardinality(NlAt(A))) = Len(A)
<1> DEFINE c == Cardinality(NlAt(A))
<1>1. CASE A = <<>>
  <2>1. NlAt(A) = {} /\ Len(A) = 0
    BY <1>1 DEF NlAt
  <2> QED BY <2>1, FS_EmptySet DEF NthNl
<1>2. CASE A # <<>>
  <2>1. Len(A) \in 1 .. Len(A) /\ DOMAIN A = 1 .. Len(A)
    BY <1>2, EmptySeq, LenProperties
  <2>2. Len(A) \in NlAt(A)
    BY <1>2, <2>1 DEF Whole, NlAt
  <2>3. {j \in NlAt(A) : j <= Len(A)} = NlAt(A)
    BY NlType
  <2>4. RankIn(NlAt(A), Len(A)) = c
    BY <2>3 DEF RankIn
  <2>5. Nth(NlAt(A), c) = Len(A) /\ c \in 1 .. c
    BY <2>2, <2>4, NlType, NthIs, RankBounds
  <2> QED BY <2>5 DEF NthNl
<1> QED BY <1>1, <1>2

(* The first newline of what begins with one.                              *)
LEMMA FirstNewline ==
  ASSUME NEW B \in Seq(Text), Rest(B), B # <<>>
  PROVE  Nth(NlAt(B), 1) = 1 /\ 1 <= Cardinality(NlAt(B))
<1>1. 1 \in NlAt(B)
  BY EmptySeq, LenProperties DEF Rest, NlAt
<1>2. {j \in NlAt(B) : j <= 1} = {1}
  BY <1>1, NlType
<1>3. RankIn(NlAt(B), 1) = 1
  BY <1>2, FS_Singleton DEF RankIn
<1> QED BY <1>1, <1>3, NlType, NthIs, RankBounds

(* Where a line is cut from.                                               *)
LEMMA LineCut ==
  ASSUME NEW s, NEW k, NEW m, NEW n, NthNl(s, k - 1) = m,
         \/ k <= Cardinality(NlAt(s)) /\ NthNl(s, k) - 1 = n
         \/ ~(k <= Cardinality(NlAt(s))) /\ Len(s) = n
  PROVE  LineAt(s, k) = SubSeq(s, m + 1, n)
BY DEF LineAt

(* The text s: c whole lines A, the line l without its newline, and the    *)
(* rest B.                                                                 *)
IsSplit(s, c, A, l, B) ==
  /\ A \in Seq(Text) /\ l \in Seq(Text) /\ B \in Seq(Text)
  /\ s = A \o (l \o B)
  /\ c = Cardinality(NlAt(A))
  /\ Whole(A) /\ Rest(B) /\ NlAt(l) = {}

(* Then l is line c + 1 of s.                                              *)
LEMMA LineIs ==
  ASSUME NEW s, NEW c, NEW A, NEW l, NEW B, IsSplit(s, c, A, l, B)
  PROVE  /\ c \in Nat
         /\ LineAt(s, c + 1) = l
         /\ Cardinality(NlAt(s)) = c + Cardinality(NlAt(B))
         /\ NthNl(s, c) = Len(A)
         /\ B # <<>> => /\ c + 1 <= Cardinality(NlAt(s))
                        /\ NthNl(s, c + 1) = Len(A) + Len(l) + 1
<1> DEFINE r == l \o B
           d == Cardinality(NlAt(B))
<1> USE DEF IsSplit
<1>1. r \in Seq(Text)
  BY ConcatProperties
<1>2. Cardinality(NlAt(l)) = 0
  BY FS_EmptySet
<1>3. /\ c \in Nat /\ d \in Nat /\ Len(A) \in Nat /\ Len(l) \in Nat
      /\ Len(B) \in Nat
  BY NlType
<1>4. /\ Cardinality(NlAt(r)) = d
      /\ \A k \in 1 .. d : Nth(NlAt(r), k) = Len(l) + Nth(NlAt(B), k)
  <2>1. /\ Cardinality(NlAt(r)) = Cardinality(NlAt(l)) + d
        /\ \A k \in 1 .. d :
             Nth(NlAt(r), Cardinality(NlAt(l)) + k) = Len(l) + Nth(NlAt(B), k)
    BY NlConcat
  <2>2. \A k \in 1 .. d : 0 + k = k
    BY <1>3
  <2> HIDE DEF r, d
  <2> QED BY <1>2, <1>3, <2>1, <2>2
<1>5. /\ Cardinality(NlAt(s)) = c + d
      /\ \A k \in 1 .. c : Nth(NlAt(s), k) = Nth(NlAt(A), k)
      /\ \A k \in 1 .. d : Nth(NlAt(s), c + k) = Len(A) + Nth(NlAt(r), k)
  <2>1. s = A \o r
    OBVIOUS
  <2> HIDE DEF r, d
  <2> QED BY <1>1, <1>4, <2>1, NlConcat
<1> HIDE DEF r, d
<1>6. NthNl(s, c) = Len(A)
  <2>1. NthNl(A, c) = Len(A)
    BY LastNewline
  <2>2. CASE c = 0
    BY <2>1, <2>2 DEF NthNl
  <2>3. CASE c # 0
    <3>1. c \in 1 .. c
      BY <1>3, <2>3
    <3> QED BY <1>5, <2>1, <2>3, <3>1 DEF NthNl
  <2> QED BY <2>2, <2>3
<1>7. /\ Len(s) = Len(A) + Len(l) + Len(B)
      /\ SubSeq(s, Len(A) + 1, Len(A) + Len(l)) = l
  BY Pieces
<1>8. c + 1 - 1 = c /\ c + 1 # 0
  BY <1>3
<1>9. CASE B = <<>>
  <2>1. NlAt(B) = {} /\ Len(B) = 0
    BY <1>9 DEF NlAt
  <2>2. d = 0
    BY <2>1, FS_EmptySet DEF d
  <2>3. ~(c + 1 <= Cardinality(NlAt(s))) /\ Len(s) = Len(A) + Len(l)
    BY <1>3, <1>5, <1>7, <2>1, <2>2
  <2>4. LineAt(s, c + 1) = SubSeq(s, Len(A) + 1, Len(A) + Len(l))
    <3> DEFINE k == c + 1
               n == Len(A) + Len(l)
    <3>1. /\ NthNl(s, k - 1) = Len(A)
          /\ \/ k <= Cardinality(NlAt(s)) /\ NthNl(s, k) - 1 = n
             \/ ~(k <= Cardinality(NlAt(s))) /\ Len(s) = n
      BY <1>3, <1>6, <1>8, <2>3
    <3> HIDE DEF k, n
    <3>2. LineAt(s, k) = SubSeq(s, Len(A) + 1, n)
      BY <3>1, LineCut
    <3> QED BY <3>2 DEF k, n
  <2> QED BY <1>3, <1>5, <1>6, <1>7, <1>9, <2>4 DEF d
<1>10. CASE B # <<>>
  <2>1. Nth(NlAt(B), 1) = 1 /\ 1 \in 1 .. d
    BY <1>3, <1>10, FirstNewline DEF d
  <2>2. NthNl(s, c + 1) = Len(A) + Len(l) + 1
    BY <1>3, <1>4, <1>5, <1>8, <2>1 DEF NthNl
  <2>3. c + 1 <= Cardinality(NlAt(s)) /\ NthNl(s, c + 1) - 1 = Len(A) + Len(l)
    BY <1>3, <1>5, <2>1, <2>2
  <2>4. LineAt(s, c + 1) = SubSeq(s, Len(A) + 1, Len(A) + Len(l))
    <3> DEFINE k == c + 1
               n == Len(A) + Len(l)
    <3>1. /\ NthNl(s, k - 1) = Len(A)
          /\ \/ k <= Cardinality(NlAt(s)) /\ NthNl(s, k) - 1 = n
             \/ ~(k <= Cardinality(NlAt(s))) /\ Len(s) = n
      BY <1>3, <1>6, <1>8, <2>3
    <3> HIDE DEF k, n
    <3>2. LineAt(s, k) = SubSeq(s, Len(A) + 1, n)
      BY <3>1, LineCut
    <3> QED BY <3>2 DEF k, n
  <2> QED BY <1>3, <1>5, <1>6, <1>7, <1>10, <2>2, <2>3, <2>4 DEF d
<1> QED BY <1>9, <1>10

(* A stretch of a sequence.                                                *)
LEMMA Stretch ==
  ASSUME NEW S, NEW s \in Seq(S), NEW m \in 0 .. Len(s), NEW n \in m .. Len(s)
  PROVE  /\ SubSeq(s, m + 1, n) \in Seq(S)
         /\ Len(SubSeq(s, m + 1, n)) = n - m
         /\ \A i \in 1 .. n - m : SubSeq(s, m + 1, n)[i] = s[m + i]
<1> DEFINE cut == SubSeq(s, m + 1, n)
<1>1. Len(s) \in Nat /\ m \in Nat /\ n \in Nat /\ m <= n /\ n <= Len(s)
  BY LenProperties
<1>2. \A i \in m + 1 .. n : s[i] \in S
  <2>1. \A i \in m + 1 .. n : i \in 1 .. Len(s)
    BY <1>1
  <2> QED BY <2>1, ElementOfSeq
<1>3. /\ m + 1 \in Int /\ n \in Int /\ n - (m + 1) + 1 = n - m
      /\ (m + 1 <= n \/ n - m = 0)
  BY <1>1
<1>4. /\ cut \in Seq(S)
      /\ Len(cut) = IF m + 1 <= n THEN n - (m + 1) + 1 ELSE 0
      /\ \A i \in 1 .. n - (m + 1) + 1 : cut[i] = s[m + 1 + i - 1]
  BY <1>2, <1>3, SubSeqProperties
<1>5. \A i \in 1 .. n - m : m + 1 + i - 1 = m + i
  BY <1>1
<1> HIDE DEF cut
<1>6. \A i \in 1 .. n - m : cut[i] = s[m + i]
  BY <1>3, <1>4, <1>5
<1>7. Len(cut) = n - m
  BY <1>1, <1>3, <1>4
<1> QED BY <1>4, <1>6, <1>7 DEF cut

(* Two stretches next to each other.                                       *)
LEMMA Adjacent ==
  ASSUME NEW S, NEW s \in Seq(S), NEW m \in 0 .. Len(s), NEW k \in m .. Len(s),
         NEW n \in k .. Len(s)
  PROVE  SubSeq(s, m + 1, k) \o SubSeq(s, k + 1, n) = SubSeq(s, m + 1, n)
<1> DEFINE a == m + 1
<1>1. Len(s) \in Nat
  BY LenProperties
<1>2. a \in 1 .. Len(s) + 1 /\ k \in a - 1 .. Len(s)
  BY <1>1
<1> HIDE DEF a
<1>3. SubSeq(s, a, k) \o SubSeq(s, k + 1, n) = SubSeq(s, a, n)
  BY <1>2, ConcatAdjacentSubSeq
<1> QED BY <1>3 DEF a

(* Every line lies between whole lines and the rest of the text.           *)
LEMMA LineSplit ==
  ASSUME NEW s \in Seq(Text), NEW c \in 0 .. Cardinality(NlAt(s))
  PROVE  \E A, l, B : /\ IsSplit(s, c, A, l, B)
                      /\ B = <<>> <=> c = Cardinality(NlAt(s))
<1> DEFINE d == Cardinality(NlAt(s))
           p == NthNl(s, c)
           q == IF c = d THEN Len(s) ELSE NthNl(s, c + 1) - 1
           A == SubSeq(s, 1, p)
           l == SubSeq(s, p + 1, q)
           B == SubSeq(s, q + 1, Len(s))
<1>1. /\ d \in Nat /\ c \in Nat /\ Len(s) \in Nat
      /\ NlAt(s) \in SUBSET (1 .. Len(s)) /\ NlAt(s) \in SUBSET Nat
      /\ IsFiniteSet(NlAt(s))
      /\ DOMAIN s = 1 .. Len(s)
  BY NlType, LenProperties
<1>2. /\ c = 0 => p = 0
      /\ c # 0 => p \in NlAt(s) /\ RankIn(NlAt(s), p) = c
  BY <1>1, NthExists DEF NthNl
<1>3. c # d => q + 1 \in NlAt(s) /\ RankIn(NlAt(s), q + 1) = c + 1
  <2> SUFFICES ASSUME c # d PROVE q + 1 \in NlAt(s) /\ RankIn(NlAt(s), q + 1) = c + 1
    OBVIOUS
  <2> DEFINE m == Nth(NlAt(s), c + 1)
  <2>1. c + 1 \in 1 .. d /\ c + 1 # 0
    BY <1>1
  <2>2. m \in NlAt(s) /\ RankIn(NlAt(s), m) = c + 1
    <3> HIDE DEF d
    <3> QED BY <1>1, <2>1, NthExists DEF d
  <2> HIDE DEF m
  <2>3. NthNl(s, c + 1) = m
    BY <2>1 DEF NthNl, m
  <2>4. q + 1 = m
    BY <1>1, <2>2, <2>3
  <2> QED BY <2>2, <2>4
<1> HIDE DEF p, q
<1>4. p \in 0 .. Len(s) /\ q \in p .. Len(s)
  <2>1. p \in 0 .. Len(s)
    BY <1>1, <1>2
  <2>2. CASE c = d
    BY <1>1, <2>1, <2>2 DEF q
  <2>3. CASE c # d
    <3>1. q + 1 \in 1 .. Len(s) /\ q + 1 \in NlAt(s)
      BY <1>1, <1>3, <2>3
    <3>2. q \in Int
      BY <1>1, <2>3, <3>1, NthExists DEF q, NthNl
    <3>3. p <= q
      <4>1. CASE c = 0
        BY <1>2, <3>1, <3>2, <4>1
      <4>2. CASE c # 0
        <5>1. ~(q + 1 < p)
          <6>1. q + 1 < p => RankIn(NlAt(s), q + 1) < RankIn(NlAt(s), p)
            BY <1>1, <1>2, <3>1, <4>2, RankGrows
          <6> QED BY <1>1, <1>2, <1>3, <2>3, <4>2, <6>1
        <5>2. q + 1 # p
          BY <1>1, <1>2, <1>3, <2>3, <4>2
        <5> QED BY <2>1, <3>1, <3>2, <5>1, <5>2
      <4> QED BY <4>1, <4>2
    <3> QED BY <1>1, <2>1, <3>1, <3>2, <3>3
  <2> QED BY <2>2, <2>3
<1>51. p \in Nat /\ q \in Nat /\ Len(s) \in Nat
  BY <1>1, <1>4
<1>5. /\ A \in Seq(Text) /\ l \in Seq(Text) /\ B \in Seq(Text)
      /\ Len(A) = p /\ Len(l) = q - p /\ Len(B) = Len(s) - q
      /\ \A i \in 1 .. p : A[i] = s[i]
      /\ \A i \in 1 .. q - p : l[i] = s[p + i]
      /\ \A i \in 1 .. Len(s) - q : B[i] = s[q + i]
  <2>1. 0 \in 0 .. Len(s) /\ p \in 0 .. Len(s) /\ q \in 0 .. Len(s)
        /\ Len(s) \in q .. Len(s) /\ 0 + 1 = 1 /\ p - 0 = p
        /\ \A i \in 1 .. p : 0 + i = i
    BY <1>1, <1>4
  <2>2. /\ A \in Seq(Text) /\ Len(A) = p - 0
        /\ \A i \in 1 .. p - 0 : A[i] = s[0 + i]
    <3>1. /\ SubSeq(s, 0 + 1, p) \in Seq(Text) /\ Len(SubSeq(s, 0 + 1, p)) = p - 0
          /\ \A i \in 1 .. p - 0 : SubSeq(s, 0 + 1, p)[i] = s[0 + i]
      BY <2>1, Stretch
    <3> QED BY <2>1, <3>1
  <2>3. l \in Seq(Text) /\ Len(l) = q - p /\ \A i \in 1 .. q - p : l[i] = s[p + i]
    BY <1>4, Stretch
  <2>4. /\ B \in Seq(Text) /\ Len(B) = Len(s) - q
        /\ \A i \in 1 .. Len(s) - q : B[i] = s[q + i]
    BY <2>1, Stretch
  <2> HIDE DEF A, l, B
  <2> QED BY <2>1, <2>2, <2>3, <2>4
<1>6. s = A \o (l \o B)
  <2>1. 0 \in 0 .. Len(s) /\ p \in 0 .. Len(s) /\ q \in 0 .. Len(s)
        /\ Len(s) \in q .. Len(s) /\ Len(s) \in p .. Len(s) /\ 0 + 1 = 1
    BY <1>1, <1>4
  <2>2. l \o B = SubSeq(s, p + 1, Len(s))
    BY <1>4, <2>1, Adjacent
  <2>3. SubSeq(s, 0 + 1, p) \o SubSeq(s, p + 1, Len(s)) = SubSeq(s, 0 + 1, Len(s))
    BY <2>1, Adjacent
  <2> QED BY <2>1, <2>2, <2>3, SubSeqFull
<1> HIDE DEF A, l, B
<1>7. NlAt(l) = {}
  <2> SUFFICES ASSUME NEW i \in NlAt(l) PROVE FALSE
    OBVIOUS
  <2> DEFINE j == p + i
  <2>1. i \in 1 .. q - p /\ l[i] = "nl"
    BY <1>5, LenProperties DEF NlAt
  <2>2. j \in 1 .. Len(s) /\ p < j /\ j < q + 1
    BY <1>1, <1>4, <2>1
  <2>3. j \in NlAt(s)
    <3>1. s[j] = "nl"
      <4>1. l[i] = s[p + i]
        BY <1>5, <2>1
      <4> QED BY <2>1, <4>1
    <3> HIDE DEF j
    <3> QED BY <1>1, <2>2, <3>1 DEF NlAt
  <2> HIDE DEF j
  <2>4. RankIn(NlAt(s), j) \in 1 .. d
    BY <1>1, <2>3, RankBounds
  <2>5. c < RankIn(NlAt(s), j)
    <3>1. CASE c = 0
      BY <2>4, <3>1
    <3>2. CASE c # 0
      BY <1>1, <1>2, <2>2, <2>3, <3>2, RankGrows
    <3> QED BY <3>1, <3>2
  <2>6. CASE c = d
    BY <1>1, <2>4, <2>5, <2>6
  <2>7. CASE c # d
    <3>1. RankIn(NlAt(s), j) < RankIn(NlAt(s), q + 1)
      BY <1>1, <1>3, <2>2, <2>3, <2>7, RankGrows
    <3>2. RankIn(NlAt(s), j) < c + 1
      BY <1>3, <2>7, <3>1
    <3>3. RankIn(NlAt(s), j) \in Nat
      BY <1>1, <2>4
    <3> QED BY <1>1, <2>5, <3>2, <3>3
  <2> QED BY <2>6, <2>7
<1>8. c = Cardinality(NlAt(A))
  <2>1. NlAt(A) = {j \in NlAt(s) : j <= p}
    <3>1. DOMAIN A = 1 .. p
      BY <1>5, LenProperties
    <3> QED BY <1>1, <1>4, <1>5, <3>1 DEF NlAt
  <2>2. CASE c = 0
    <3>1. NlAt(A) = {}
      BY <1>1, <1>2, <2>1, <2>2
    <3> QED BY <2>2, <3>1, FS_EmptySet
  <2>3. CASE c # 0
    BY <1>2, <2>1, <2>3 DEF RankIn
  <2> QED BY <2>2, <2>3
<1>9. Whole(A)
  <2>1. CASE c = 0
    BY <1>2, <1>5, <2>1, EmptySeq DEF Whole
  <2>2. CASE c # 0
    <3>1. p \in 1 .. p /\ s[p] = "nl"
      BY <1>1, <1>2, <2>2 DEF NlAt
    <3> QED BY <1>5, <3>1 DEF Whole
  <2> QED BY <2>1, <2>2
<1>10. Rest(B) /\ (B = <<>> <=> c = d)
  <2>1. CASE c = d
    <3>1. Len(B) = 0
      BY <1>1, <1>5, <2>1 DEF q
    <3> QED BY <1>5, <2>1, <3>1, EmptySeq DEF Rest
  <2>2. CASE c # d
    <3>1. q + 1 \in 1 .. Len(s) /\ s[q + 1] = "nl"
      BY <1>1, <1>3, <2>2 DEF NlAt
    <3>2. 1 \in 1 .. Len(s) - q
      BY <1>1, <1>4, <3>1
    <3>3. B[1] = s[q + 1]
      BY <1>5, <3>2
    <3>4. Len(B) = Len(s) - q
      BY <1>5
    <3>5. Len(B) # 0
      BY <1>51, <3>2, <3>4
    <3> QED BY <1>5, <2>2, <3>1, <3>3, <3>5, EmptySeq DEF Rest
  <2> QED BY <2>1, <2>2
<1>11. IsSplit(s, c, A, l, B)
  BY <1>5, <1>6, <1>7, <1>8, <1>9, <1>10 DEF IsSplit
<1> QED BY <1>10, <1>11

-----------------------------------------------------------------------------
(* Decoding.                                                               *)
LEMMA StartsType ==
  ASSUME NEW s \in Seq(Text)
  PROVE  /\ CharStarts(s) \in SUBSET (1 .. Len(s))
         /\ CharStarts(s) \in SUBSET (Nat \ {0}) /\ CharStarts(s) \in SUBSET Nat
         /\ IsFiniteSet(CharStarts(s)) /\ Cardinality(CharStarts(s)) \in Nat
<1>1. CharStarts(s) \in SUBSET (1 .. Len(s)) /\ Len(s) \in Nat
  BY LenProperties DEF CharStarts
<1>2. IsFiniteSet(1 .. Len(s))
  BY <1>1, FS_Interval
<1>3. IsFiniteSet(CharStarts(s))
  BY <1>1, <1>2, FS_Subset
<1> QED BY <1>1, <1>3, FS_CardinalityType

(* Decoding yields one character for each place where one starts.          *)
LEMMA LossyType ==
  ASSUME NEW s \in Seq(Text)
  PROVE  /\ Lossy(s) \in Seq(CharClass)
         /\ Lossy(s) \in Seq(Text)
         /\ Len(Lossy(s)) = Cardinality(CharStarts(s))
         /\ \A k \in 1 .. Cardinality(CharStarts(s)) :
              Lossy(s)[k] = CharAt(s, Nth(CharStarts(s), k))
<1> DEFINE n == Cardinality(CharStarts(s))
           f == [k \in 1 .. n |-> CharAt(s, Nth(CharStarts(s), k))]
<1>1. n \in Nat
  BY StartsType
<1>2. ASSUME NEW k \in 1 .. n PROVE CharAt(s, Nth(CharStarts(s), k)) \in CharClass
  <2>1. Nth(CharStarts(s), k) \in 1 .. Len(s)
    BY StartsType, NthExists
  <2>2. s[Nth(CharStarts(s), k)] \in Text
    BY <2>1, ElementOfSeq
  <2> QED BY <2>2 DEF CharAt, Text, ByteClass, CharClass
<1>3. f \in Seq(CharClass) /\ Len(f) = n
  <2> HIDE DEF n
  <2> QED BY <1>1, <1>2
<1>4. Lossy(s) = f
  BY DEF Lossy
<1>5. \A k \in 1 .. n : f[k] = CharAt(s, Nth(CharStarts(s), k))
  <2> HIDE DEF n
  <2> QED OBVIOUS
<1> HIDE DEF f
<1> QED BY <1>3, <1>4, <1>5, ByteIsText

(* Decoding character by character: a text cut anywhere but within a       *)
(* character is decoded as its two parts are.                              *)
BetweenChars(s, t) == s = <<>> \/ t = <<>> \/ s[Len(s)] # "hi" \/ t[1] # "lo"

(* Where characters start in two texts that meet between characters.       *)
LEMMA StartsConcat ==
  ASSUME NEW s \in Seq(Text), NEW t \in Seq(Text), BetweenChars(s, t)
  PROVE  CharStarts(s \o t) = CharStarts(s) \cup Shifted(Len(s), CharStarts(t))
<1>1. /\ Len(s) \in Nat /\ Len(t) \in Nat
      /\ DOMAIN s = 1 .. Len(s) /\ DOMAIN t = 1 .. Len(t)
      /\ DOMAIN (s \o t) = 1 .. Len(s) + Len(t)
      /\ \A i \in 1 .. Len(s) + Len(t) :
           (s \o t)[i] = IF i <= Len(s) THEN s[i] ELSE t[i - Len(s)]
  <2>1. s \o t \in Seq(Text) /\ Len(s \o t) = Len(s) + Len(t)
    BY ConcatProperties
  <2> QED BY <2>1, ConcatProperties, LenProperties
<1>2. ASSUME NEW i \in 1 .. Len(s)
      PROVE  i \in CharStarts(s \o t) <=> i \in CharStarts(s)
  <2>1. i \in 1 .. Len(s) + Len(t) /\ (s \o t)[i] = s[i]
    BY <1>1
  <2>2. i > 1 => i - 1 \in 1 .. Len(s) + Len(t) /\ (s \o t)[i - 1] = s[i - 1]
    BY <1>1
  <2> QED BY <1>1, <2>1, <2>2 DEF CharStarts
<1>3. ASSUME NEW j \in 1 .. Len(t)
      PROVE  Len(s) + j \in CharStarts(s \o t) <=> j \in CharStarts(t)
  <2> DEFINE i == Len(s) + j
  <2>1. /\ i \in 1 .. Len(s) + Len(t) /\ ~(i <= Len(s)) /\ i - Len(s) = j
        /\ j > 1 => /\ i - 1 \in 1 .. Len(s) + Len(t) /\ ~(i - 1 <= Len(s))
                    /\ i - 1 - Len(s) = j - 1 /\ i > 1
        /\ ~(j > 1) => j = 1 /\ i - 1 = Len(s) /\ (i > 1 <=> Len(s) # 0)
    BY <1>1
  <2> HIDE DEF i
  <2>2. (s \o t)[i] = t[j]
    BY <1>1, <2>1
  <2>3. CASE j > 1
    <3>1. (s \o t)[i - 1] = t[j - 1]
      BY <1>1, <2>1, <2>3
    <3>2. i \in CharStarts(s \o t) <=> j \in CharStarts(t)
      BY <1>1, <2>1, <2>2, <2>3, <3>1 DEF CharStarts
    <3> QED BY <3>2 DEF i
  <2>4. CASE ~(j > 1)
    <3>1. j \in CharStarts(t)
      BY <1>1, <2>4 DEF CharStarts
    <3>2. CASE Len(s) = 0
      <4>1. i \in CharStarts(s \o t)
        BY <1>1, <2>1, <2>4, <3>2 DEF CharStarts
      <4> QED BY <3>1, <4>1 DEF i
    <3>3. CASE Len(s) # 0
      <4>1. s # <<>> /\ t # <<>> /\ Len(s) \in 1 .. Len(s) + Len(t)
        BY <1>1, <3>3
      <4>2. (s \o t)[i - 1] = s[Len(s)]
        BY <1>1, <2>1, <2>4, <4>1
      <4>3. ~(t[j] = "lo" /\ (s \o t)[i - 1] = "hi")
        BY <2>1, <2>4, <4>1, <4>2 DEF BetweenChars
      <4>4. i \in CharStarts(s \o t)
        BY <1>1, <2>1, <2>2, <4>3 DEF CharStarts
      <4> QED BY <3>1, <4>4 DEF i
    <3> QED BY <3>2, <3>3
  <2> QED BY <2>3, <2>4
<1>4. ASSUME NEW i \in CharStarts(s \o t)
      PROVE  i \in CharStarts(s) \cup Shifted(Len(s), CharStarts(t))
  <2>1. i \in 1 .. Len(s) + Len(t)
    BY <1>1 DEF CharStarts
  <2>2. CASE i <= Len(s)
    BY <1>1, <1>2, <2>1, <2>2
  <2>3. CASE i > Len(s)
    <3> DEFINE j == i - Len(s)
    <3>1. j \in 1 .. Len(t) /\ i = Len(s) + j
      BY <1>1, <2>1, <2>3
    <3> HIDE DEF j
    <3>2. j \in CharStarts(t)
      BY <1>3, <3>1
    <3> QED BY <3>1, <3>2 DEF Shifted
  <2> QED BY <1>1, <2>1, <2>2, <2>3
<1>5. CharStarts(s) \subseteq CharStarts(s \o t)
  BY <1>2, StartsType
<1>6. ASSUME NEW j \in CharStarts(t) PROVE Len(s) + j \in CharStarts(s \o t)
  BY <1>3, StartsType
<1> QED BY <1>4, <1>5, <1>6 DEF Shifted

(* Then the decoded whole is the decoded parts, one after the other.       *)
LEMMA LossyConcat ==
  ASSUME NEW s \in Seq(Text), NEW t \in Seq(Text), BetweenChars(s, t)
  PROVE  Lossy(s \o t) = Lossy(s) \o Lossy(t)
<1> DEFINE S == CharStarts(s)
           T == CharStarts(t)
           U == CharStarts(s \o t)
           m == Cardinality(S)
           n == Cardinality(T)
<1>1. /\ s \o t \in Seq(Text) /\ Len(s \o t) = Len(s) + Len(t)
      /\ Len(s) \in Nat /\ Len(t) \in Nat
      /\ \A i \in 1 .. Len(s) + Len(t) :
           (s \o t)[i] = IF i <= Len(s) THEN s[i] ELSE t[i - Len(s)]
  BY ConcatProperties, LenProperties
<1>2. /\ Cardinality(U) = m + n
      /\ \A k \in 1 .. m : Nth(U, k) = Nth(S, k)
      /\ \A k \in 1 .. n : Nth(U, m + k) = Len(s) + Nth(T, k)
  <2>1. U = S \cup Shifted(Len(s), T)
    BY StartsConcat
  <2>2. /\ S \in SUBSET (1 .. Len(s)) /\ T \in SUBSET (Nat \ {0}) /\ IsFiniteSet(T)
    BY StartsType
  <2> DEFINE V == S \cup Shifted(Len(s), T)
  <2>3. /\ Cardinality(V) = m + n
        /\ \A k \in 1 .. m : Nth(V, k) = Nth(S, k)
        /\ \A k \in 1 .. n : Nth(V, m + k) = Len(s) + Nth(T, k)
    <3> HIDE DEF S, T, U
    <3> QED BY <1>1, <2>2, NthContinued, ZenonT(60)
  <2> HIDE DEF S, T, U, V, m, n
  <2>4. U = V
    BY <2>1 DEF V
  <2> QED BY <2>3, <2>4
<1>3. m \in Nat /\ n \in Nat
  BY StartsType
<1>4. /\ Lossy(s) \in Seq(CharClass) /\ Len(Lossy(s)) = m
      /\ \A k \in 1 .. m : Lossy(s)[k] = CharAt(s, Nth(S, k))
  BY LossyType
<1>5. /\ Lossy(t) \in Seq(CharClass) /\ Len(Lossy(t)) = n
      /\ \A k \in 1 .. n : Lossy(t)[k] = CharAt(t, Nth(T, k))
  BY LossyType
<1>6. /\ Lossy(s \o t) \in Seq(CharClass) /\ Len(Lossy(s \o t)) = Cardinality(U)
      /\ \A k \in 1 .. Cardinality(U) : Lossy(s \o t)[k] = CharAt(s \o t, Nth(U, k))
  BY <1>1, LossyType
<1>7. \A k \in 1 .. m : Nth(S, k) \in 1 .. Len(s)
  BY StartsType, NthExists
<1>8. \A k \in 1 .. n : Nth(T, k) \in 1 .. Len(t)
  BY StartsType, NthExists
<1>9. ASSUME NEW i \in 1 .. Len(s) PROVE CharAt(s \o t, i) = CharAt(s, i)
  <2>1. i \in 1 .. Len(s) + Len(t) /\ (s \o t)[i] = s[i]
    BY <1>1
  <2>2. CASE i < Len(s)
    <3>1. /\ i + 1 \in 1 .. Len(s) + Len(t) /\ i + 1 <= Len(s)
          /\ i < Len(s \o t)
      BY <1>1, <2>2
    <3>2. (s \o t)[i + 1] = s[i + 1]
      BY <1>1, <3>1
    <3> QED BY <2>1, <2>2, <3>1, <3>2 DEF CharAt
  <2>3. CASE ~(i < Len(s))
    <3>1. i = Len(s) /\ s # <<>>
      BY <1>1, <2>3
    <3>2. CASE t = <<>>
      <4>1. ~(i < Len(s \o t))
        BY <1>1, <3>1, <3>2, EmptySeq
      <4> QED BY <2>1, <2>3, <4>1 DEF CharAt
    <3>3. CASE t # <<>>
      <4>1. Len(t) # 0
        BY <3>3, EmptySeq
      <4>2. /\ i + 1 \in 1 .. Len(s) + Len(t) /\ ~(i + 1 <= Len(s))
            /\ i + 1 - Len(s) = 1
        BY <1>1, <3>1, <4>1
      <4>3. (s \o t)[i + 1] = t[1]
        BY <1>1, <4>2
      <4>4. ~(s[i] = "hi" /\ (s \o t)[i + 1] = "lo")
        BY <3>1, <3>3, <4>3 DEF BetweenChars
      <4> QED BY <2>1, <2>3, <4>4 DEF CharAt
    <3> QED BY <3>2, <3>3
  <2> QED BY <2>2, <2>3
<1>10. ASSUME NEW j \in 1 .. Len(t)
       PROVE  CharAt(s \o t, Len(s) + j) = CharAt(t, j)
  <2> DEFINE i == Len(s) + j
  <2>1. /\ i \in 1 .. Len(s) + Len(t) /\ ~(i <= Len(s)) /\ i - Len(s) = j
        /\ (i < Len(s \o t) <=> j < Len(t))
        /\ j < Len(t) => /\ i + 1 \in 1 .. Len(s) + Len(t) /\ ~(i + 1 <= Len(s))
                         /\ i + 1 - Len(s) = j + 1
    BY <1>1
  <2> HIDE DEF i
  <2>2. /\ (s \o t)[i] = t[j]
        /\ j < Len(t) => (s \o t)[i + 1] = t[j + 1]
    BY <1>1, <2>1
  <2>3. CharAt(s \o t, i) = CharAt(t, j)
    BY <2>1, <2>2 DEF CharAt
  <2> QED BY <2>3 DEF i
<1> HIDE DEF S, T, U, m, n
<1>11. /\ Lossy(s) \o Lossy(t) \in Seq(CharClass)
       /\ Len(Lossy(s) \o Lossy(t)) = m + n
       /\ \A k \in 1 .. m + n :
            (Lossy(s) \o Lossy(t))[k] = IF k <= m THEN Lossy(s)[k] ELSE Lossy(t)[k - m]
  BY <1>4, <1>5, ConcatProperties
<1>12. ASSUME NEW k \in 1 .. m + n
       PROVE  Lossy(s \o t)[k] = (Lossy(s) \o Lossy(t))[k]
  <2>1. CASE k <= m
    <3>1. k \in 1 .. m
      BY <1>3, <2>1
    <3>2. Lossy(s \o t)[k] = CharAt(s \o t, Nth(S, k))
      BY <1>2, <1>6, <3>1
    <3>3. Lossy(s)[k] = CharAt(s, Nth(S, k))
      BY <1>4, <3>1
    <3> QED BY <1>7, <1>9, <1>11, <2>1, <3>1, <3>2, <3>3
  <2>2. CASE ~(k <= m)
    <3> DEFINE j == k - m
    <3>1. j \in 1 .. n /\ k = m + j
      BY <1>3, <2>2
    <3>2. (Lossy(s) \o Lossy(t))[k] = Lossy(t)[j]
      BY <1>11, <2>2
    <3> HIDE DEF j
    <3>3. Lossy(s \o t)[k] = CharAt(s \o t, Len(s) + Nth(T, j))
      <4>1. Nth(U, k) = Len(s) + Nth(T, j)
        BY <1>2, <3>1
      <4> QED BY <1>2, <1>6, <4>1
    <3>4. Lossy(t)[j] = CharAt(t, Nth(T, j))
      BY <1>5, <3>1
    <3>5. Nth(T, j) \in 1 .. Len(t)
      BY <1>8, <3>1
    <3> QED BY <1>10, <3>2, <3>3, <3>4, <3>5
  <2> QED BY <2>1, <2>2
<1> QED
  BY <1>2, <1>6, <1>11, <1>12, SeqEqual

(* Decoding keeps the newlines.                                            *)
LEMMA LossyNewlines ==
  ASSUME NEW s \in Seq(Text)
  PROVE  Cardinality(NlAt(Lossy(s))) = Cardinality(NlAt(s))
<1> DEFINE S == CharStarts(s)
           rank == [i \in NlAt(s) |-> RankIn(S, i)]
<1>1. /\ S \in SUBSET Nat /\ IsFiniteSet(S) /\ Cardinality(S) \in Nat
      /\ S \in SUBSET (1 .. Len(s))
  BY StartsType
<1>2. /\ Lossy(s) \in Seq(Text) /\ Len(Lossy(s)) = Cardinality(S)
      /\ \A k \in 1 .. Cardinality(S) : Lossy(s)[k] = CharAt(s, Nth(S, k))
  BY LossyType
<1>3. NlAt(s) \in SUBSET S
  BY DEF NlAt, CharStarts
<1>4. \A i \in S : CharAt(s, i) = "nl" <=> i \in NlAt(s)
  BY <1>1, LenProperties DEF CharAt, NlAt
<1>5. DOMAIN Lossy(s) = 1 .. Cardinality(S)
  BY <1>2, LenProperties
<1> HIDE DEF S
<1>6. ASSUME NEW i \in NlAt(s) PROVE rank[i] \in NlAt(Lossy(s)) /\ Nth(S, rank[i]) = i
  <2>1. i \in S
    BY <1>3
  <2>2. RankIn(S, i) \in 1 .. Cardinality(S) /\ Nth(S, RankIn(S, i)) = i
    BY <1>1, <2>1, RankBounds, NthIs
  <2>3. Lossy(s)[RankIn(S, i)] = "nl"
    BY <1>2, <1>4, <2>1, <2>2
  <2> QED BY <1>5, <2>2, <2>3 DEF NlAt
<1>7. ASSUME NEW k \in NlAt(Lossy(s)) PROVE \E i \in NlAt(s) : rank[i] = k
  <2>1. k \in 1 .. Cardinality(S) /\ Lossy(s)[k] = "nl"
    BY <1>5 DEF NlAt
  <2>2. Nth(S, k) \in S /\ RankIn(S, Nth(S, k)) = k
    BY <1>1, <2>1, NthExists
  <2>3. Nth(S, k) \in NlAt(s)
    BY <1>2, <1>4, <2>1, <2>2
  <2> QED BY <2>2, <2>3
<1>8. rank \in Bijection(NlAt(s), NlAt(Lossy(s)))
  <2>1. rank \in [NlAt(s) -> NlAt(Lossy(s))]
    BY <1>6
  <2>2. \A i, j \in NlAt(s) : rank[i] = rank[j] => i = j
    <3> HIDE DEF rank
    <3> QED BY <1>6
  <2> HIDE DEF rank
  <2> QED BY <1>7, <2>1, <2>2 DEF Bijection, Injection, IsInjective, Surjection
<1>9. ExistsBijection(NlAt(s), NlAt(Lossy(s)))
  BY <1>8 DEF ExistsBijection
<1> QED BY <1>9, NlType, FS_Bijection

(* Decoding adds no newline ...                                            *)
LEMMA LossyNoNewline ==
  ASSUME NEW s \in Seq(Text), NlAt(s) = {}
  PROVE  NlAt(Lossy(s)) = {}
<1>1. Lossy(s) \in Seq(Text)
  BY LossyType
<1> QED BY <1>1, LossyNewlines, NlType, FS_EmptySet

(* ... makes nothing out of nothing ...                                    *)
LEMMA LossyEmpty == Lossy(<<>>) = <<>>
<1>1. CharStarts(<<>>) = {}
  BY DEF CharStarts
<1>2. <<>> \in Seq(Text) /\ Cardinality({}) = 0
  BY FS_EmptySet
<1>3. Lossy(<<>>) \in Seq(Text) /\ Len(Lossy(<<>>)) = 0
  BY <1>1, <1>2, LossyType
<1> QED BY <1>3, EmptySeq

(* ... and something out of something.                                     *)
LEMMA LossyNonEmpty ==
  ASSUME NEW s \in Seq(Text), s # <<>>
  PROVE  Lossy(s) # <<>> /\ Len(Lossy(s)) \in Nat \ {0}
<1>1. 1 \in CharStarts(s)
  BY EmptySeq, LenProperties DEF CharStarts
<1>2. Cardinality(CharStarts(s)) # 0
  BY <1>1, StartsType, FS_EmptySet
<1> QED BY <1>2, StartsType, LossyType, EmptySeq

(* What has no part of a character in it stays as it is.                   *)
LEMMA LossyOfChars ==
  ASSUME NEW s \in Seq(CharClass)
  PROVE  Lossy(s) = s
<1>1. /\ s \in Seq(Text) /\ Len(s) \in Nat /\ DOMAIN s = 1 .. Len(s)
      /\ \A i \in 1 .. Len(s) : s[i] \in CharClass
  BY ByteIsText, LenProperties, ElementOfSeq
<1>2. CharStarts(s) = 1 .. Len(s)
  BY <1>1 DEF CharStarts, CharClass
<1>3. Cardinality(1 .. Len(s)) = Len(s) /\ IsFiniteSet(1 .. Len(s))
  BY <1>1, FS_Interval
<1>4. ASSUME NEW k \in 1 .. Len(s) PROVE Lossy(s)[k] = s[k]
  <2>1. {j \in 1 .. Len(s) : j <= k} = 1 .. k
    BY <1>1
  <2>2. RankIn(1 .. Len(s), k) = k
    <3>1. k \in Int /\ 1 \in Int /\ ~(1 > k) /\ k - 1 + 1 = k
      BY <1>1
    <3>2. Cardinality(1 .. k) = k
      BY <3>1, FS_Interval
    <3> QED BY <2>1, <3>2 DEF RankIn
  <2>3. Nth(1 .. Len(s), k) = k
    <3>1. 1 .. Len(s) \in SUBSET Nat
      OBVIOUS
    <3> QED BY <1>3, <2>2, <3>1, NthIs
  <2>4. Lossy(s)[k] = CharAt(s, k)
    BY <1>1, <1>2, <1>3, <2>3, LossyType
  <2> QED BY <1>1, <2>4 DEF CharAt, CharClass
<1>5. Lossy(s) \in Seq(CharClass) /\ Len(Lossy(s)) = Len(s)
  BY <1>1, <1>2, <1>3, LossyType
<1> QED BY <1>4, <1>5, SeqEqual

(* A decoded piece read again with more behind it stays in front.          *)
LEMMA LossyPrefix ==
  ASSUME NEW s \in Seq(CharClass), NEW t \in Seq(Text)
  PROVE  IsPrefixOf(s, Lossy(s \o t))
<1>1. s \in Seq(Text) /\ Len(s) \in Nat
  BY ByteIsText, LenProperties
<1>2. BetweenChars(s, t)
  <2>1. s # <<>> => s[Len(s)] \in CharClass
    BY EmptySeq, ElementOfSeq, LenProperties
  <2> QED BY <2>1 DEF BetweenChars, CharClass
<1>3. Lossy(s \o t) = s \o Lossy(t)
  BY <1>1, <1>2, LossyConcat, LossyOfChars
<1>4. Lossy(t) \in Seq(Text) /\ Len(Lossy(t)) \in Nat
  BY LossyType, LenProperties
<1>5. Len(s \o Lossy(t)) = Len(s) + Len(Lossy(t))
  BY <1>1, <1>4, ConcatProperties
<1>6. SubSeq(s \o Lossy(t), 1, Len(s)) = s
  <2>1. SubSeq(s \o Lossy(t), 1, Len(s)) = SubSeq(s, 1, Len(s))
    BY <1>1, <1>4, CutBeforeSeam
  <2> QED BY <1>1, <2>1, SubSeqFull
<1> QED BY <1>1, <1>3, <1>4, <1>5, <1>6 DEF IsPrefixOf

(* A newline is decoded to itself.                                         *)
LEMMA LossyOfNewline == Lossy(<<"nl">>) = <<"nl">>
<1>1. <<"nl">> \in Seq(CharClass)
  BY DEF CharClass
<1> QED BY <1>1, LossyOfChars

(* What ends with a newline still does when decoded ...                    *)
LEMMA LossyWhole ==
  ASSUME NEW s \in Seq(Text), Whole(s)
  PROVE  Whole(Lossy(s))
<1>1. CASE s = <<>>
  BY <1>1, LossyEmpty DEF Whole
<1>2. CASE s # <<>>
  <2> DEFINE r == SubSeq(s, 1, Len(s) - 1)
             e == <<"nl">>
  <2>1. Len(s) \in 1 .. Len(s) /\ 1 \in 1 .. Len(s) /\ Len(s) \in Nat
    BY <1>2, EmptySeq
  <2>2. s = r \o e
    <3>1. SubSeq(s, 1, Len(s)) = SubSeq(s, 1, Len(s) - 1) \o <<s[Len(s)]>>
      BY <2>1, SubSeqRecursiveSecond
    <3> QED BY <1>2, <3>1, SubSeqFull DEF Whole
  <2>3. r \in Seq(Text)
    <3>1. 1 \in Nat \ {0} /\ Len(s) - 1 \in 0 .. Len(s)
      BY <2>1
    <3> QED BY <3>1, SubSeqType
  <2>4. e \in Seq(Text) /\ Len(e) = 1 /\ e[1] = "nl"
    BY DEF Text, ByteClass
  <2>5. BetweenChars(r, e)
    BY <2>4 DEF BetweenChars
  <2> HIDE DEF r
  <2>6. Lossy(s) = Lossy(r) \o e
    BY <2>2, <2>3, <2>4, <2>5, LossyConcat, LossyOfNewline
  <2> HIDE DEF e
  <2>7. Lossy(r) \in Seq(Text) /\ Len(Lossy(r)) \in Nat
    BY <2>3, LossyType, LenProperties
  <2>8. /\ Len(Lossy(r) \o e) = Len(Lossy(r)) + 1
        /\ \A i \in 1 .. Len(Lossy(r)) + 1 :
             (Lossy(r) \o e)[i] = IF i <= Len(Lossy(r)) THEN Lossy(r)[i]
                                                        ELSE e[i - Len(Lossy(r))]
    <3>1. /\ Len(Lossy(r) \o e) = Len(Lossy(r)) + Len(e)
          /\ \A i \in 1 .. Len(Lossy(r)) + Len(e) :
               (Lossy(r) \o e)[i] = IF i <= Len(Lossy(r)) THEN Lossy(r)[i]
                                                          ELSE e[i - Len(Lossy(r))]
      BY <2>4, <2>7, ConcatProperties
    <3> QED BY <2>4, <3>1
  <2> DEFINE n == Len(Lossy(r)) + 1
  <2>9. n \in 1 .. n /\ ~(n <= Len(Lossy(r))) /\ n - Len(Lossy(r)) = 1
    BY <2>7
  <2> HIDE DEF n
  <2>10. Lossy(s)[n] = "nl" /\ Len(Lossy(s)) = n
    BY <2>4, <2>6, <2>8, <2>9 DEF n
  <2> QED BY <2>10 DEF Whole
<1> QED BY <1>1, <1>2

(* ... and what begins with one still does.                                *)
LEMMA LossyRest ==
  ASSUME NEW s \in Seq(Text), Rest(s)
  PROVE  Rest(Lossy(s)) /\ (Lossy(s) = <<>> <=> s = <<>>)
<1>1. CASE s = <<>>
  BY <1>1, LossyEmpty DEF Rest
<1>2. CASE s # <<>>
  <2> DEFINE S == CharStarts(s)
  <2>1. 1 \in S
    BY <1>2, EmptySeq, LenProperties DEF CharStarts
  <2>2. S \in SUBSET (Nat \ {0}) /\ S \in SUBSET Nat /\ IsFiniteSet(S)
    BY StartsType
  <2>3. {j \in S : j <= 1} = {1}
    BY <2>1, <2>2
  <2>4. RankIn(S, 1) = 1
    BY <2>3, FS_Singleton DEF RankIn
  <2>5. Nth(S, 1) = 1 /\ 1 \in 1 .. Cardinality(S)
    BY <2>1, <2>2, <2>4, NthIs, RankBounds
  <2>6. Lossy(s)[1] = CharAt(s, 1)
    BY <2>5, LossyType
  <2>7. Lossy(s)[1] = "nl"
    BY <1>2, <2>6 DEF CharAt, Rest
  <2> QED BY <1>2, <2>7, LossyNonEmpty DEF Rest
<1> QED BY <1>1, <1>2

(* The parts of a decoded text are the decoded parts of the text ...       *)
LEMMA LossySplit ==
  ASSUME NEW s \in Seq(Text), NEW c, NEW A, NEW l, NEW B, IsSplit(s, c, A, l, B)
  PROVE  IsSplit(Lossy(s), c, Lossy(A), Lossy(l), Lossy(B))
<1>1. /\ A \in Seq(Text) /\ l \in Seq(Text) /\ B \in Seq(Text)
      /\ s = A \o (l \o B)
      /\ c = Cardinality(NlAt(A))
      /\ Whole(A) /\ Rest(B) /\ NlAt(l) = {}
      /\ l \o B \in Seq(Text)
  BY ConcatProperties DEF IsSplit
<1>2. Lossy(s) = Lossy(A) \o (Lossy(l) \o Lossy(B))
  <2>1. BetweenChars(A, l \o B)
    BY <1>1 DEF BetweenChars, Whole
  <2>2. BetweenChars(l, B)
    BY <1>1 DEF BetweenChars, Rest
  <2>3. Lossy(l \o B) = Lossy(l) \o Lossy(B)
    BY <1>1, <2>2, LossyConcat
  <2>4. Lossy(A \o (l \o B)) = Lossy(A) \o Lossy(l \o B)
    BY <1>1, <2>1, LossyConcat
  <2> QED BY <1>1, <2>3, <2>4
<1> QED
  BY <1>1, <1>2, LossyType, LossyNewlines, LossyWhole, LossyRest, LossyNoNewline
  DEF IsSplit

(* ... and so are its lines.                                               *)
LEMMA LossyLine ==
  ASSUME NEW s \in Seq(Text), NEW c \in 0 .. Cardinality(NlAt(s))
  PROVE  /\ LineAt(s, c + 1) \in Seq(Text)
         /\ LineAt(Lossy(s), c + 1) = Lossy(LineAt(s, c + 1))
<1>1. PICK A, l, B : IsSplit(s, c, A, l, B)
  BY LineSplit
<1>2. LineAt(s, c + 1) = l /\ l \in Seq(Text)
  BY <1>1, LineIs DEF IsSplit
<1>3. IsSplit(Lossy(s), c, Lossy(A), Lossy(l), Lossy(B))
  BY <1>1, LossySplit
<1>4. LineAt(Lossy(s), c + 1) = Lossy(l)
  BY <1>3, LineIs
<1> QED BY <1>2, <1>4

-----------------------------------------------------------------------------
(* Lines of a growing file.                                                *)
LEMMA Joined ==
  ASSUME NEW S, NEW s \in Seq(S), NEW t \in Seq(S)
  PROVE  s \o t \in Seq(S) /\ Len(s \o t) = Len(s) + Len(t)
BY ConcatProperties

(* Concatenation is associative; stated with quantifiers, for the solvers. *)
LEMMA Regroup ==
  \A s, t, u \in Seq(Text) : (s \o t) \o u = s \o (t \o u)
BY ConcatAssociative

(* The newlines of two texts add up.                                       *)
LEMMA NlCount ==
  \A s, t \in Seq(Text) :
    Cardinality(NlAt(s \o t)) = Cardinality(NlAt(s)) + Cardinality(NlAt(t))
BY NlConcat

(* FirstNl finds the first newline.                                        *)
LEMMA FirstNlIs ==
  ASSUME NEW s \in Seq(Text), NlAt(s) # {}
  PROVE  /\ FirstNl(s) \in NlAt(s)
         /\ \A j \in NlAt(s) : FirstNl(s) <= j
<1> DEFINE m == Nth(NlAt(s), 1)
<1>1. /\ NlAt(s) \in SUBSET Nat /\ IsFiniteSet(NlAt(s))
      /\ 1 \in 1 .. Cardinality(NlAt(s))
  BY NlType, FS_EmptySet
<1>2. m \in NlAt(s) /\ RankIn(NlAt(s), m) = 1
  BY <1>1, NthExists
<1> HIDE DEF m
<1>3. ASSUME NEW j \in NlAt(s) PROVE m <= j
  <2>1. RankIn(NlAt(s), j) \in 1 .. Cardinality(NlAt(s))
    BY <1>1, RankBounds
  <2>2. ~(j < m)
    BY <1>1, <1>2, <2>1, RankGrows
  <2> QED BY <1>1, <1>2, <2>2
<1> QED BY <1>2, <1>3 DEF FirstNl

(* What is appended to a file changes none of its complete lines.          *)
LEMMA LineKept ==
  ASSUME NEW s \in Seq(Text), NEW t \in Seq(Text), NEW c \in 0 .. Cardinality(NlAt(s)),
         c # Cardinality(NlAt(s))
  PROVE  LineAt(s \o t, c + 1) = LineAt(s, c + 1)
<1>1. PICK A, l, B : IsSplit(s, c, A, l, B) /\ B # <<>>
  BY LineSplit
<1>2. /\ A \in Seq(Text) /\ l \in Seq(Text) /\ B \in Seq(Text)
      /\ s = A \o (l \o B)
      /\ c = Cardinality(NlAt(A))
      /\ Whole(A) /\ NlAt(l) = {} /\ B[1] = "nl"
  BY <1>1 DEF IsSplit, Rest
<1>3. B \o t \in Seq(Text) /\ (B \o t)[1] = "nl"
  <2>1. Len(B) \in Nat \ {0} /\ Len(t) \in Nat
    BY <1>1, <1>2, EmptySeq, LenProperties
  <2>2. 1 \in 1 .. Len(B) + Len(t) /\ 1 <= Len(B)
    BY <2>1
  <2> QED BY <1>2, <2>2, ConcatProperties
<1>4. s \o t = A \o (l \o (B \o t))
  <2>1. l \o B \in Seq(Text)
    BY <1>2, ConcatProperties
  <2>2. (A \o (l \o B)) \o t = A \o ((l \o B) \o t)
    <3> DEFINE r == l \o B
    <3>1. A \in Seq(Text) /\ r \in Seq(Text) /\ t \in Seq(Text)
      BY <1>2, <2>1
    <3> HIDE DEF r
    <3>2. (A \o r) \o t = A \o (r \o t)
      BY <3>1, Regroup, SMTT(30)
    <3> QED BY <3>2 DEF r
  <2>3. (l \o B) \o t = l \o (B \o t)
    <3>1. l \in Seq(Text) /\ B \in Seq(Text) /\ t \in Seq(Text)
      BY <1>2
    <3> QED BY <3>1, Regroup, Zenon
  <2> QED BY <1>2, <2>2, <2>3
<1>5. IsSplit(s \o t, c, A, l, B \o t)
  BY <1>2, <1>3, <1>4 DEF IsSplit, Rest
<1> QED BY <1>1, <1>5, LineIs

(* The first newline after a whole line ends the next line.                *)
LEMMA LineFound ==
  ASSUME NEW f \in Seq(Text), NEW p \in 0 .. Len(f), NEW q \in p + 1 .. Len(f),
         Whole(SubSeq(f, 1, p)), f[q] = "nl", NlAt(SubSeq(f, p + 1, q - 1)) = {},
         NEW c, c = Cardinality(NlAt(SubSeq(f, 1, p)))
  PROVE  /\ LineAt(f, c + 1) = SubSeq(f, p + 1, q - 1)
         /\ Whole(SubSeq(f, 1, q))
         /\ Cardinality(NlAt(SubSeq(f, 1, q))) = c + 1
<1> DEFINE A == SubSeq(f, 1, p)
           r == q - 1
           l == SubSeq(f, p + 1, r)
           n == SubSeq(f, r + 1, q)
           B == SubSeq(f, r + 1, Len(f))
<1>1. /\ Len(f) \in Nat /\ p \in Nat /\ q \in Nat /\ r \in Nat /\ r + 1 = q
      /\ 0 \in 0 .. Len(f) /\ p \in 0 .. Len(f) /\ r \in p .. Len(f)
      /\ q \in r .. Len(f) /\ Len(f) \in r .. Len(f) /\ 0 + 1 = 1
      /\ r \in 0 .. Len(f) /\ Len(f) \in p .. Len(f) /\ q \in p .. Len(f)
      /\ q - r = 1 /\ 1 \in 1 .. Len(f) - r /\ q \in 1 .. Len(f) /\ q \in 0 .. Len(f)
      /\ p - 0 = p /\ q - 0 = q /\ 0 + q = q
  BY LenProperties
<1> HIDE DEF r
<1>2. A \in Seq(Text) /\ l \in Seq(Text) /\ n \in Seq(Text) /\ B \in Seq(Text)
  <2>1. SubSeq(f, 0 + 1, p) \in Seq(Text)
    BY <1>1, Stretch
  <2>2. l \in Seq(Text) /\ n \in Seq(Text) /\ B \in Seq(Text)
    BY <1>1, Stretch
  <2> QED BY <1>1, <2>1, <2>2
<1>3. Len(n) = 1 /\ n[1] = "nl"
  <2>1. /\ Len(n) = q - r
        /\ \A i \in 1 .. q - r : n[i] = f[r + i]
    BY <1>1, Stretch
  <2>2. n[1] = f[r + 1]
    BY <1>1, <2>1
  <2> QED BY <1>1, <2>1, <2>2
<1>4. Len(B) = Len(f) - r /\ B[1] = "nl"
  <2>1. /\ Len(B) = Len(f) - r
        /\ \A i \in 1 .. Len(f) - r : B[i] = f[r + i]
    BY <1>1, Stretch
  <2>2. B[1] = f[r + 1]
    BY <1>1, <2>1
  <2> QED BY <1>1, <2>1, <2>2
<1>5. f = A \o (l \o B)
  <2>1. l \o B = SubSeq(f, p + 1, Len(f))
    <3>1. p \in 0 .. Len(f) /\ r \in p .. Len(f) /\ Len(f) \in r .. Len(f)
      BY <1>1
    <3> QED BY <3>1, Adjacent, Zenon
  <2>2. SubSeq(f, 0 + 1, p) \o SubSeq(f, p + 1, Len(f)) = SubSeq(f, 0 + 1, Len(f))
    <3>1. 0 \in 0 .. Len(f) /\ p \in 0 .. Len(f) /\ Len(f) \in p .. Len(f)
      BY <1>1
    <3> QED BY <3>1, Adjacent, Zenon
  <2> QED BY <1>1, <2>1, <2>2, SubSeqFull
<1>6. SubSeq(f, 1, q) = A \o (l \o n)
  <2>1. l \o n = SubSeq(f, p + 1, q)
    <3>1. p \in 0 .. Len(f) /\ r \in p .. Len(f) /\ q \in r .. Len(f)
      BY <1>1
    <3> QED BY <3>1, Adjacent, Zenon
  <2>2. SubSeq(f, 0 + 1, p) \o SubSeq(f, p + 1, q) = SubSeq(f, 0 + 1, q)
    <3>1. 0 \in 0 .. Len(f) /\ p \in 0 .. Len(f) /\ q \in p .. Len(f)
      BY <1>1
    <3> QED BY <3>1, Adjacent, Zenon
  <2> QED BY <1>1, <2>1, <2>2
<1>7. NlAt(l) = {}
  BY DEF r
<1>8. SubSeq(f, 1, q)[q] = "nl" /\ Len(SubSeq(f, 1, q)) = q
  <2>1. /\ Len(SubSeq(f, 0 + 1, q)) = q - 0
        /\ \A i \in 1 .. q - 0 : SubSeq(f, 0 + 1, q)[i] = f[0 + i]
    BY <1>1, Stretch
  <2>2. q \in 1 .. q - 0
    BY <1>1
  <2>3. SubSeq(f, 0 + 1, q)[q] = f[0 + q]
    BY <2>1, <2>2
  <2> QED BY <1>1, <2>1, <2>3
<1>9. NlAt(n) = {1} /\ Cardinality(NlAt(n)) = 1
  <2>1. DOMAIN n = 1 .. 1
    BY <1>2, <1>3, LenProperties
  <2>2. NlAt(n) = {1}
    <3> HIDE DEF n
    <3> QED BY <1>3, <2>1 DEF NlAt
  <2> QED BY <2>2, FS_Singleton
<1> HIDE DEF A, l, n, B
<1>10. IsSplit(f, c, A, l, B)
  BY <1>2, <1>4, <1>5, <1>7 DEF IsSplit, Rest, A
<1>11. LineAt(f, c + 1) = l /\ c \in Nat
  BY <1>10, LineIs
<1>12. Cardinality(NlAt(SubSeq(f, 1, q))) = c + 1
  <2>1. l \o n \in Seq(Text)
    BY <1>2, ConcatProperties
  <2>2. Cardinality(NlAt(l \o n)) = Cardinality(NlAt(l)) + Cardinality(NlAt(n))
    BY <1>2, NlCount
  <2>3. Cardinality(NlAt(l \o n)) = 1
    BY <1>7, <1>9, <2>2, FS_EmptySet
  <2>4. Cardinality(NlAt(A \o (l \o n))) = Cardinality(NlAt(A)) + 1
    <3>1. Cardinality(NlAt(A \o (l \o n))) = Cardinality(NlAt(A)) + Cardinality(NlAt(l \o n))
      BY <1>2, <2>1, NlCount
    <3> QED BY <2>3, <3>1
  <2> QED BY <1>6, <2>4 DEF A
<1>13. Whole(SubSeq(f, 1, q))
  BY <1>8 DEF Whole
<1> QED BY <1>11, <1>12, <1>13 DEF l, r

(* The first newline pending, when nothing before the stretch that is      *)
(* pending of the file has one.                                            *)
CutsFrom(f, m, o, u, w, i, q) ==
  /\ f \in Seq(Text) /\ m \in 0 .. Len(f) /\ o \in m .. Len(f)
  /\ u \in Seq(Text) /\ NlAt(u) = {}
  /\ w = u \o SubSeq(f, m + 1, o) /\ NlAt(w) # {}
  /\ i = FirstNl(w) /\ q = m + (i - Len(u))

CutsAt(f, m, o, u, w, i, q) ==
  /\ q \in m + 1 .. o
  /\ f[q] = "nl"
  /\ NlAt(SubSeq(f, m + 1, q - 1)) = {}
  /\ SubSeq(w, 1, i - 1) = u \o SubSeq(f, m + 1, q - 1)
  /\ SubSeq(w, i + 1, Len(w)) = SubSeq(f, q + 1, o)

(* Where that cut is.                                                      *)
LEMMA CutFirstLine ==
  \A f, m, o, u, w, i, q : CutsFrom(f, m, o, u, w, i, q) => CutsAt(f, m, o, u, w, i, q)
<1> SUFFICES ASSUME NEW f, NEW m, NEW o, NEW u, NEW w, NEW i, NEW q,
                    CutsFrom(f, m, o, u, w, i, q)
             PROVE  CutsAt(f, m, o, u, w, i, q)
  OBVIOUS
<1>0. /\ f \in Seq(Text) /\ m \in 0 .. Len(f) /\ o \in m .. Len(f)
      /\ u \in Seq(Text) /\ NlAt(u) = {}
      /\ w = u \o SubSeq(f, m + 1, o) /\ NlAt(w) # {}
      /\ i = FirstNl(w) /\ q = m + (i - Len(u))
  BY DEF CutsFrom
<1> USE <1>0
<1> DEFINE v == SubSeq(f, m + 1, o)
<1>1. Len(f) \in Nat /\ m \in Nat /\ o \in Nat /\ Len(u) \in Nat /\ m <= o
  BY LenProperties
<1>2. /\ v \in Seq(Text) /\ Len(v) = o - m
      /\ \A j \in 1 .. o - m : v[j] = f[m + j]
  BY Stretch
<1> HIDE DEF v
<1>3. w = u \o v
  BY DEF v
<1>4. /\ w \in Seq(Text) /\ Len(w) = Len(u) + (o - m)
      /\ \A j \in 1 .. Len(u) + (o - m) : w[j] = IF j <= Len(u) THEN u[j] ELSE v[j - Len(u)]
  <2>1. /\ u \o v \in Seq(Text) /\ Len(u \o v) = Len(u) + Len(v)
        /\ \A j \in 1 .. Len(u) + Len(v) :
             (u \o v)[j] = IF j <= Len(u) THEN u[j] ELSE v[j - Len(u)]
    BY <1>2, ConcatProperties
  <2> QED BY <1>2, <1>3, <2>1
<1>5. i \in NlAt(w) /\ \A j \in NlAt(w) : i <= j
  BY <1>4, FirstNlIs
<1>6. NlAt(w) = {Len(u) + j : j \in NlAt(v)}
  <2>1. NlAt(w) = NlAt(u) \cup Shifted(Len(u), NlAt(v))
    BY <1>2, <1>3, NlConcat
  <2> QED BY <2>1 DEF Shifted
<1>7. PICK d \in NlAt(v) : i = Len(u) + d
  BY <1>5, <1>6
<1>8. d \in 1 .. o - m /\ v[d] = "nl" /\ DOMAIN v = 1 .. o - m
  BY <1>2, LenProperties DEF NlAt
<1>9. q = m + d /\ q \in m + 1 .. o /\ q - 1 \in m .. o
  BY <1>1, <1>7, <1>8, SMTT(30)
<1>10. f[q] = "nl"
  BY <1>2, <1>8, <1>9
<1> DEFINE r == q - 1
           l == SubSeq(f, m + 1, r)
           n == SubSeq(f, r + 1, q)
           t == SubSeq(f, q + 1, o)
<1>11. /\ r \in Nat /\ r + 1 = q /\ r \in m .. Len(f) /\ q \in r .. Len(f)
       /\ o \in q .. Len(f) /\ m \in 0 .. Len(f) /\ r \in 0 .. Len(f)
       /\ q \in 0 .. Len(f) /\ q - r = 1 /\ r - m = d - 1 /\ o \in r .. Len(f)
       /\ q \in m .. Len(f)
  BY <1>1, <1>8, <1>9, SMTT(30)
<1> HIDE DEF r
<1>12. /\ l \in Seq(Text) /\ Len(l) = d - 1
       /\ \A j \in 1 .. d - 1 : l[j] = f[m + j]
  <2>1. /\ l \in Seq(Text) /\ Len(l) = r - m
        /\ \A j \in 1 .. r - m : l[j] = f[m + j]
    BY <1>11, Stretch
  <2> QED BY <1>11, <2>1
<1>13. n \in Seq(Text) /\ Len(n) = 1
  <2>1. n \in Seq(Text) /\ Len(n) = q - r
    BY <1>11, Stretch
  <2> QED BY <1>11, <2>1
<1>14. t \in Seq(Text)
  BY <1>11, Stretch
<1>15. v = l \o (n \o t)
  <2>1. n \o t = SubSeq(f, r + 1, o)
    BY <1>11, Adjacent
  <2>2. l \o SubSeq(f, r + 1, o) = SubSeq(f, m + 1, o)
    BY <1>11, Adjacent
  <2> QED BY <2>1, <2>2 DEF v
<1> HIDE DEF l, n, t
<1>16. NlAt(l) = {}
  <2> SUFFICES ASSUME NEW j \in NlAt(l) PROVE FALSE
    OBVIOUS
  <2>1. j \in 1 .. d - 1 /\ l[j] = "nl"
    BY <1>12, LenProperties DEF NlAt
  <2>2. j \in 1 .. o - m
    BY <1>8, <2>1
  <2>3. v[j] = f[m + j] /\ l[j] = f[m + j]
    BY <1>2, <1>12, <2>1, <2>2
  <2>4. j \in NlAt(v)
    BY <1>8, <2>1, <2>2, <2>3 DEF NlAt
  <2>5. i <= Len(u) + j
    BY <1>5, <1>6, <2>4
  <2> QED BY <1>1, <1>7, <1>8, <2>1, <2>5
<1> DEFINE x == u \o l
           y == x \o n
<1>17. /\ x \in Seq(Text) /\ Len(x) = i - 1
       /\ y \in Seq(Text) /\ Len(y) = i
       /\ n \o t \in Seq(Text) /\ Len(x) \in Nat /\ Len(y) \in Nat
  <2>1. x \in Seq(Text) /\ Len(x) = Len(u) + (d - 1)
    BY <1>12, Joined
  <2>2. y \in Seq(Text) /\ Len(y) = Len(x) + 1
    <3> HIDE DEF x
    <3>1. x \in Seq(Text) /\ n \in Seq(Text)
      BY <1>13, <2>1
    <3>2. y \in Seq(Text) /\ Len(y) = Len(x) + Len(n)
      BY <3>1, Joined
    <3> QED BY <1>13, <3>2
  <2>3. n \o t \in Seq(Text)
    BY <1>13, <1>14, ConcatProperties
  <2>4. i = Len(u) + d /\ d \in Nat /\ Len(u) \in Nat
    BY <1>1, <1>7, <1>8
  <2> HIDE DEF x, y
  <2>5. Len(x) = i - 1 /\ Len(x) \in Nat
    BY <1>8, <2>1, <2>4, SMTT(30)
  <2>6. Len(y) = i /\ Len(y) \in Nat
    BY <2>2, <2>4, <2>5
  <2> QED BY <2>1, <2>2, <2>3, <2>5, <2>6
<1>18. w = x \o (n \o t) /\ w = y \o t
  <2>1. u \o (l \o (n \o t)) = x \o (n \o t)
    BY <1>12, <1>17, Regroup
  <2>2. x \o (n \o t) = y \o t
    <3>1. x \in Seq(Text) /\ n \in Seq(Text) /\ t \in Seq(Text)
      BY <1>13, <1>14, <1>17
    <3> HIDE DEF x
    <3>2. (x \o n) \o t = x \o (n \o t)
      BY <3>1, Regroup, ZenonT(60)
    <3> QED BY <3>2
  <2> QED BY <1>3, <1>15, <2>1, <2>2
<1> HIDE DEF x, y
<1>19. SubSeq(w, 1, i - 1) = x
  <2>1. SubSeq(x \o (n \o t), 1, Len(x)) = SubSeq(x, 1, Len(x))
    BY <1>17, CutBeforeSeam, SMTT(30)
  <2> QED BY <1>17, <1>18, <2>1, SubSeqFull
<1>20. SubSeq(w, i + 1, Len(w)) = t
  <2> DEFINE e == Len(y) + 1
  <2>1. e \in 1 .. Len(y) + 1 /\ Len(y) < e /\ e \in Int /\ Len(y) \in Int
    BY <1>17, SMTT(30)
  <2>2. e = i + 1
    BY <1>17
  <2> HIDE DEF e
  <2>3. SubSeq(y \o t, e, Len(y \o t)) = SubSeq(y, e, Len(y)) \o t
    BY <1>14, <1>17, <2>1, CutThroughSeam
  <2>4. SubSeq(y, e, Len(y)) = <<>>
    BY <2>1, SubSeqEmpty
  <2>5. <<>> \o t = t
    BY <1>14, ConcatEmptySeq
  <2> QED BY <1>18, <2>2, <2>3, <2>4, <2>5
<1> QED BY <1>9, <1>10, <1>16, <1>19, <1>20 DEF x, l, r, t, CutsAt

-----------------------------------------------------------------------------
(* Lines mode.  RowsMatchFile is not inductive: it does not say what is    *)
(* pending.  Of the content c, o bytes are consumed; they are whole lines  *)
(* up to p, numbered up to n - 1, and the start of line n, which is        *)
(* pending as w: as it is, or with a first piece, up to m, that was        *)
(* printed and decoded when the command started.                           *)
RowType == [num : Nat, body : Seq(CharClass)]

LastOf(rows) == rows[Len(rows)]

PendingWhole(c, o, w, n, rows, p) ==
  /\ w = SubSeq(c, p + 1, o)
  /\ rows # <<>> => LastOf(rows).num = n - 1

PendingCut(c, o, w, n, rows, p, m) ==
  /\ NlAt(SubSeq(c, p + 1, m)) = {}
  /\ w = Lossy(SubSeq(c, p + 1, m)) \o SubSeq(c, m + 1, o)
  /\ rows # <<>> => LastOf(rows) = Row(n, Lossy(SubSeq(c, p + 1, m)))

Pending(c, o, w, n, rows, p) ==
  \/ PendingWhole(c, o, w, n, rows, p)
  \/ \E m \in p + 1 .. o : PendingCut(c, o, w, n, rows, p, m)

Numbered(c, n, p) ==
  Whole(SubSeq(c, 1, p)) /\ Cardinality(NlAt(SubSeq(c, 1, p))) = n - 1

Shown(c, k, rows) ==
  \E i \in DOMAIN rows : rows[i].num = k /\ SameText(rows[i].body, LineAt(c, k))

InOrder(rows) ==
  \A i \in 1 .. Len(rows) - 1 :
    \/ rows[i + 1].num = rows[i].num + 1
    \/ /\ rows[i + 1].num = rows[i].num
       /\ IsPrefixOf(rows[i].body, rows[i + 1].body)

Kept(c, o, w, n, rows, b) ==
  /\ o \in 0 .. Len(c)
  /\ \E p \in 0 .. o : Numbered(c, n, p) /\ Pending(c, o, w, n, rows, p)
  /\ \A k \in b + 1 .. n - 1 : Shown(c, k, rows)
  /\ InOrder(rows)

(* The first o bytes are those of the whole lines and of what is pending.  *)
LEMMA FrontOf ==
  ASSUME NEW c \in Seq(Text), NEW o \in 0 .. Len(c), NEW p \in 0 .. o
  PROVE  /\ SubSeq(c, 1, p) \in Seq(Text) /\ SubSeq(c, p + 1, o) \in Seq(Text)
         /\ SubSeq(c, 1, p) \o SubSeq(c, p + 1, o) = SubSeq(c, 1, o)
         /\ Len(SubSeq(c, 1, p)) = p
<1>1. /\ Len(c) \in Nat /\ 0 + 1 = 1 /\ 0 \in 0 .. Len(c) /\ p \in 0 .. Len(c)
      /\ o \in p .. Len(c) /\ p - 0 = p
  BY LenProperties
<1>2. /\ SubSeq(c, 0 + 1, p) \in Seq(Text) /\ SubSeq(c, p + 1, o) \in Seq(Text)
      /\ Len(SubSeq(c, 0 + 1, p)) = p - 0
  BY <1>1, Stretch
<1>3. SubSeq(c, 0 + 1, p) \o SubSeq(c, p + 1, o) = SubSeq(c, 0 + 1, o)
  BY <1>1, Adjacent
<1> QED BY <1>1, <1>2, <1>3

(* NumberingMatchesFile follows.                                           *)
LEMMA KeptNumbers ==
  ASSUME NEW c \in Seq(Text), NEW o, NEW w, NEW n \in Nat, NEW rows, NEW b,
         Kept(c, o, w, n, rows, b)
  PROVE  n - 1 + Cardinality(NlAt(w)) = Cardinality(NlAt(SubSeq(c, 1, o)))
<1>1. o \in 0 .. Len(c)
  BY DEF Kept
<1>2. PICK p \in 0 .. o : Numbered(c, n, p) /\ Pending(c, o, w, n, rows, p)
  BY DEF Kept
<1>3. /\ SubSeq(c, 1, p) \in Seq(Text) /\ SubSeq(c, p + 1, o) \in Seq(Text)
      /\ SubSeq(c, 1, p) \o SubSeq(c, p + 1, o) = SubSeq(c, 1, o)
  BY <1>1, FrontOf
<1>4. Cardinality(NlAt(SubSeq(c, 1, o)))
        = n - 1 + Cardinality(NlAt(SubSeq(c, p + 1, o)))
  <2>1. Cardinality(NlAt(SubSeq(c, 1, p) \o SubSeq(c, p + 1, o)))
          = Cardinality(NlAt(SubSeq(c, 1, p))) + Cardinality(NlAt(SubSeq(c, p + 1, o)))
    BY <1>3, NlCount
  <2> QED BY <1>2, <1>3, <2>1 DEF Numbered
<1>5. Cardinality(NlAt(w)) = Cardinality(NlAt(SubSeq(c, p + 1, o)))
  <2>1. CASE PendingWhole(c, o, w, n, rows, p)
    BY <2>1 DEF PendingWhole
  <2>2. ASSUME NEW m \in p + 1 .. o, PendingCut(c, o, w, n, rows, p, m)
        PROVE  Cardinality(NlAt(w)) = Cardinality(NlAt(SubSeq(c, p + 1, o)))
    <3> DEFINE piece == SubSeq(c, p + 1, m)
               more == SubSeq(c, m + 1, o)
    <3>1. /\ Len(c) \in Nat /\ p \in 0 .. Len(c) /\ m \in p .. Len(c)
          /\ o \in m .. Len(c) /\ m \in 0 .. Len(c)
      BY <1>1, <2>2, LenProperties
    <3>2. piece \in Seq(Text) /\ more \in Seq(Text)
      BY <3>1, Stretch
    <3>3. piece \o more = SubSeq(c, p + 1, o)
      BY <3>1, Adjacent
    <3>4. NlAt(piece) = {} /\ w = Lossy(piece) \o more
      BY <2>2 DEF PendingCut
    <3> HIDE DEF piece, more
    <3>5. Lossy(piece) \in Seq(Text) /\ NlAt(Lossy(piece)) = {}
      BY <3>2, <3>4, LossyType, LossyNoNewline
    <3>6. Cardinality(NlAt(w)) = Cardinality(NlAt(Lossy(piece))) + Cardinality(NlAt(more))
      BY <3>2, <3>4, <3>5, NlCount
    <3>7. Cardinality(NlAt(piece \o more))
            = Cardinality(NlAt(piece)) + Cardinality(NlAt(more))
      BY <3>2, NlCount
    <3> QED BY <3>3, <3>4, <3>5, <3>6, <3>7
  <2> QED BY <1>2, <2>1, <2>2 DEF Pending
<1> QED BY <1>4, <1>5

(* A file that is followed from its beginning again.                       *)
LEMMA KeptRestart ==
  ASSUME NEW c \in Seq(Text)
  PROVE  Kept(c, 0, <<>>, 1, <<>>, 0)
<1>1. 0 \in 0 .. Len(c) /\ 0 \in 0 .. 0 /\ Len(c) \in Nat
  BY LenProperties
<1>2. SubSeq(c, 1, 0) = <<>> /\ SubSeq(c, 0 + 1, 0) = <<>>
  BY SubSeqEmpty
<1>3. Numbered(c, 1, 0)
  <2>1. NlAt(<<>>) = {}
    BY DEF NlAt
  <2>2. Cardinality(NlAt(SubSeq(c, 1, 0))) = 0 /\ Whole(SubSeq(c, 1, 0))
    BY <1>2, <2>1, FS_EmptySet DEF Whole
  <2>3. 1 - 1 = 0
    OBVIOUS
  <2> QED BY <2>2, <2>3 DEF Numbered
<1>4. Pending(c, 0, <<>>, 1, <<>>, 0)
  BY <1>2 DEF Pending, PendingWhole
<1>5. InOrder(<<>>)
  BY DEF InOrder
<1>6. \A k \in 0 + 1 .. 1 - 1 : Shown(c, k, <<>>)
  OBVIOUS
<1> QED BY <1>1, <1>3, <1>4, <1>5, <1>6 DEF Kept

(* A file nothing of which is consumed may be any other.                   *)
LEMMA KeptUnread ==
  ASSUME NEW c \in Seq(Text), NEW d \in Seq(Text), NEW w, NEW n, NEW rows, NEW b,
         n \in Nat, b \in Nat, Kept(c, 0, w, n, rows, b)
  PROVE  Kept(d, 0, w, n, rows, b)
<1>1. PICK p \in 0 .. 0 : Numbered(c, n, p) /\ Pending(c, 0, w, n, rows, p)
  BY DEF Kept
<1>2. p = 0 /\ Len(d) \in Nat
  BY LenProperties
<1>3. /\ SubSeq(c, 1, 0) = <<>> /\ SubSeq(d, 1, 0) = <<>>
      /\ SubSeq(c, 0 + 1, 0) = <<>> /\ SubSeq(d, 0 + 1, 0) = <<>>
  BY SubSeqEmpty
<1>4. Numbered(d, n, 0) /\ n = 1
  <2>1. Cardinality(NlAt(SubSeq(c, 1, 0))) = 0
    <3>1. NlAt(<<>>) = {}
      BY DEF NlAt
    <3> QED BY <1>3, <3>1, FS_EmptySet
  <2>2. Cardinality(NlAt(SubSeq(c, 1, 0))) = n - 1 /\ Whole(<<>>)
    BY <1>1, <1>2, <1>3 DEF Numbered
  <2>3. n - 1 = 0 /\ n = 1
    BY <2>1, <2>2
  <2>4. Cardinality(NlAt(SubSeq(d, 1, 0))) = n - 1 /\ Whole(SubSeq(d, 1, 0))
    BY <1>3, <2>2
  <2> QED BY <2>3, <2>4 DEF Numbered
<1>5. Pending(d, 0, w, n, rows, 0)
  BY <1>1, <1>2, <1>3 DEF Pending, PendingWhole
<1>6. \A k \in b + 1 .. n - 1 : Shown(d, k, rows)
  BY <1>4
<1> QED BY <1>2, <1>4, <1>5, <1>6 DEF Kept

(* An append changes no byte that was consumed and no complete line.       *)
LEMMA KeptAppended ==
  ASSUME NEW c \in Seq(Text), NEW t \in Seq(Text), NEW o, NEW w, NEW n \in Nat,
         NEW rows, NEW b \in Nat, Kept(c, o, w, n, rows, b)
  PROVE  Kept(c \o t, o, w, n, rows, b)
<1>1. o \in 0 .. Len(c) /\ Len(c) \in Nat /\ o \in Nat /\ o <= Len(c)
  BY LenProperties DEF Kept
<1>2. PICK p \in 0 .. o : Numbered(c, n, p) /\ Pending(c, o, w, n, rows, p)
  BY DEF Kept
<1>3. o \in 0 .. Len(c \o t)
  <2>1. Len(c \o t) = Len(c) + Len(t) /\ Len(t) \in Nat
    BY Joined, LenProperties
  <2> QED BY <1>1, <2>1
<1>4. \A i \in Nat \ {0}, j \in 0 .. o : SubSeq(c \o t, i, j) = SubSeq(c, i, j)
  <2>1. \A j \in 0 .. o : j \in 0 .. Len(c)
    BY <1>1
  <2> QED BY <2>1, CutBeforeSeam
<1>5. Numbered(c \o t, n, p)
  <2>1. SubSeq(c \o t, 1, p) = SubSeq(c, 1, p)
    <3>1. 1 \in Nat \ {0} /\ p \in 0 .. o
      OBVIOUS
    <3> QED BY <1>4, <3>1
  <2> QED BY <1>2, <2>1 DEF Numbered
<1>6. Pending(c \o t, o, w, n, rows, p)
  <2>1. p + 1 \in Nat \ {0} /\ o \in 0 .. o
    BY <1>1
  <2>2. SubSeq(c \o t, p + 1, o) = SubSeq(c, p + 1, o)
    BY <1>4, <2>1
  <2>3. CASE PendingWhole(c, o, w, n, rows, p)
    BY <2>2, <2>3 DEF Pending, PendingWhole
  <2>4. ASSUME NEW m \in p + 1 .. o, PendingCut(c, o, w, n, rows, p, m)
        PROVE  Pending(c \o t, o, w, n, rows, p)
    <3>1. m \in 0 .. o /\ m + 1 \in Nat \ {0}
      BY <1>1
    <3>2. SubSeq(c \o t, p + 1, m) = SubSeq(c, p + 1, m)
      BY <1>4, <2>1, <3>1
    <3>3. SubSeq(c \o t, m + 1, o) = SubSeq(c, m + 1, o)
      BY <1>4, <2>1, <3>1
    <3>4. PendingCut(c \o t, o, w, n, rows, p, m)
      BY <2>4, <3>2, <3>3 DEF PendingCut
    <3> QED BY <3>4 DEF Pending
  <2> QED BY <1>2, <2>3, <2>4 DEF Pending
<1>7. n - 1 <= Cardinality(NlAt(c)) /\ Cardinality(NlAt(c)) \in Nat
  <2> DEFINE x == SubSeq(c, 1, p)
             y == SubSeq(c, p + 1, Len(c))
  <2>1. Len(c) \in 0 .. Len(c) /\ p \in 0 .. Len(c)
    BY <1>1
  <2>2. x \in Seq(Text) /\ y \in Seq(Text) /\ x \o y = SubSeq(c, 1, Len(c))
    BY <2>1, FrontOf
  <2> HIDE DEF x, y
  <2>3. Cardinality(NlAt(c)) = Cardinality(NlAt(x)) + Cardinality(NlAt(y))
    <3>1. c = x \o y
      BY <2>2, SubSeqFull
    <3> QED BY <2>2, <3>1, NlCount
  <2>4. Cardinality(NlAt(x)) = n - 1
    BY <1>2 DEF Numbered, x
  <2>5. Cardinality(NlAt(y)) \in Nat /\ Cardinality(NlAt(c)) \in Nat
    BY <2>2, NlType
  <2> QED BY <2>3, <2>4, <2>5
<1>8. ASSUME NEW k \in b + 1 .. n - 1 PROVE Shown(c \o t, k, rows)
  <2> DEFINE j == k - 1
  <2>1. /\ j \in 0 .. Cardinality(NlAt(c)) /\ j # Cardinality(NlAt(c))
        /\ k = j + 1
    BY <1>7
  <2> HIDE DEF j
  <2>2. LineAt(c \o t, j + 1) = LineAt(c, j + 1)
    BY <2>1, LineKept
  <2>3. Shown(c, k, rows)
    BY DEF Kept
  <2> QED BY <2>1, <2>2, <2>3 DEF Shown
<1> QED BY <1>2, <1>3, <1>5, <1>6, <1>8 DEF Kept

(* Reading on consumes the rest of the file.                               *)
LEMMA KeptRead ==
  ASSUME NEW c \in Seq(Text), NEW o, NEW w \in Seq(Text), NEW n, NEW rows, NEW b,
         Kept(c, o, w, n, rows, b)
  PROVE  Kept(c, Len(c), w \o SubSeq(c, o + 1, Len(c)), n, rows, b)
<1> DEFINE e == Len(c)
           fresh == SubSeq(c, o + 1, e)
<1>1. /\ o \in 0 .. e /\ e \in Nat /\ o \in Nat /\ o <= e /\ e \in 0 .. e
      /\ e \in o .. e
  BY LenProperties DEF Kept
<1>2. PICK p \in 0 .. o : Numbered(c, n, p) /\ Pending(c, o, w, n, rows, p)
  BY DEF Kept
<1>3. /\ p \in 0 .. e /\ o \in p .. Len(c) /\ e \in o .. Len(c) /\ p \in 0 .. Len(c)
      /\ o \in 0 .. Len(c)
  BY <1>1
<1>4. fresh \in Seq(Text)
  BY <1>1, Stretch
<1>5. Pending(c, e, w \o fresh, n, rows, p)
  <2>1. CASE PendingWhole(c, o, w, n, rows, p)
    <3>1. SubSeq(c, p + 1, o) \o SubSeq(c, o + 1, e) = SubSeq(c, p + 1, e)
      BY <1>3, Adjacent
    <3>2. PendingWhole(c, e, w \o fresh, n, rows, p)
      BY <2>1, <3>1 DEF PendingWhole
    <3> QED BY <3>2 DEF Pending
  <2>2. ASSUME NEW m \in p + 1 .. o, PendingCut(c, o, w, n, rows, p, m)
        PROVE  Pending(c, e, w \o fresh, n, rows, p)
    <3> DEFINE u == Lossy(SubSeq(c, p + 1, m))
               v == SubSeq(c, m + 1, o)
    <3>1. /\ m \in 0 .. Len(c) /\ o \in m .. Len(c) /\ m \in p .. Len(c)
          /\ m \in p + 1 .. e
      BY <1>1, <1>3
    <3>2. v \o fresh = SubSeq(c, m + 1, e)
      BY <1>3, <3>1, Adjacent
    <3>3. u \in Seq(Text)
      BY <1>3, <3>1, Stretch, LossyType
    <3>4. v \in Seq(Text)
      BY <3>1, Stretch
    <3>5. w = u \o v
      BY <2>2 DEF PendingCut
    <3> HIDE DEF fresh, u, v
    <3>6. w \o fresh = u \o (v \o fresh)
      BY <1>4, <3>3, <3>4, <3>5, Regroup, SMTT(30)
    <3>7. w \o fresh = u \o SubSeq(c, m + 1, e)
      BY <3>2, <3>6
    <3>8. PendingCut(c, e, w \o fresh, n, rows, p, m)
      BY <2>2, <3>7 DEF PendingCut, u
    <3> QED BY <3>1, <3>8 DEF Pending
  <2> QED BY <1>2, <2>1, <2>2 DEF Pending
<1> HIDE DEF e
<1>6. e \in 0 .. Len(c)
  BY <1>1 DEF e
<1>7. Kept(c, e, w \o fresh, n, rows, b)
  BY <1>2, <1>3, <1>5, <1>6 DEF Kept
<1> QED BY <1>7 DEF e, fresh

(* What counts as the text of a line.                                      *)
LEMMA SameWhole ==
  ASSUME NEW l PROVE SameText(Lossy(l), l) /\ SameText(StripCr(Lossy(l)), l)
BY DEF SameText, Decoded

(* A line that was decoded in two pieces counts as itself.                 *)
LEMMA SamePieces ==
  ASSUME NEW l \in Seq(Text), NEW t \in Seq(Text), l # <<>>
  PROVE  SameText(Lossy(Lossy(l) \o t), l \o t)
<1> DEFINE s == l \o t
           i == Len(l)
           e == i + 1
<1>1. s \in Seq(Text) /\ Len(s) = Len(l) + Len(t) /\ Len(l) \in Nat \ {0} /\ Len(t) \in Nat
  BY Joined, EmptySeq, LenProperties
<1>2. i \in DOMAIN s
  BY <1>1, LenProperties
<1>3. SubSeq(s, 1, i) = l
  <2>1. SubSeq(l \o t, 1, Len(l)) = SubSeq(l, 1, Len(l))
    BY <1>1, CutBeforeSeam
  <2> QED BY <2>1, SubSeqFull
<1>4. SubSeq(s, i + 1, Len(s)) = t
  <2>1. e \in 1 .. Len(l) + 1 /\ Len(l) < e /\ e \in Int /\ Len(l) \in Int
    BY <1>1
  <2> HIDE DEF e
  <2>2. SubSeq(l \o t, e, Len(l \o t)) = SubSeq(l, e, Len(l)) \o t
    BY <2>1, CutThroughSeam
  <2>3. SubSeq(l, e, Len(l)) = <<>> /\ <<>> \o t = t
    BY <2>1, SubSeqEmpty, ConcatEmptySeq
  <2> QED BY <2>2, <2>3 DEF e
<1> HIDE DEF s, i
<1>5. Lossy(Lossy(SubSeq(s, 1, i)) \o SubSeq(s, i + 1, Len(s))) \in Decoded(s)
  BY <1>2 DEF Decoded
<1>6. Lossy(Lossy(l) \o t) \in Decoded(s)
  BY <1>3, <1>4, <1>5
<1>7. SameText(Lossy(Lossy(l) \o t), s)
  BY <1>6 DEF SameText
<1> QED BY <1>7 DEF s

(* A row that is added keeps the others, and goes on after the last one.   *)
LEMMA RowAdded ==
  ASSUME NEW rows \in Seq(RowType), NEW r \in RowType, InOrder(rows),
         rows # <<>> => \/ r.num = LastOf(rows).num + 1
                        \/ /\ r.num = LastOf(rows).num
                           /\ IsPrefixOf(LastOf(rows).body, r.body)
  PROVE  /\ InOrder(Append(rows, r))
         /\ Append(rows, r) \in Seq(RowType)
         /\ Append(rows, r) # <<>> /\ LastOf(Append(rows, r)) = r
         /\ \A c, k : Shown(c, k, rows) => Shown(c, k, Append(rows, r))
         /\ \A c, k : r.num = k /\ SameText(r.body, LineAt(c, k)) => Shown(c, k, Append(rows, r))
<1> DEFINE new == Append(rows, r)
           n == Len(rows)
<1>1. /\ new \in Seq(RowType) /\ new # <<>> /\ Len(new) = n + 1 /\ n \in Nat
      /\ \A i \in 1 .. n : new[i] = rows[i]
      /\ new[n + 1] = r
  BY AppendProperties, LenProperties
<1>2. DOMAIN new = 1 .. n + 1 /\ DOMAIN rows = 1 .. n
  BY <1>1, LenProperties
<1>3. LastOf(new) = r
  BY <1>1 DEF LastOf
<1> HIDE DEF new
<1>4. InOrder(new)
  <2> SUFFICES ASSUME NEW i \in 1 .. n
      PROVE  \/ new[i + 1].num = new[i].num + 1
             \/ /\ new[i + 1].num = new[i].num
                /\ IsPrefixOf(new[i].body, new[i + 1].body)
    <3>1. Len(new) - 1 = n
      BY <1>1
    <3> QED BY <3>1 DEF InOrder
  <2>1. CASE i = n
    <3>1. rows # <<>>
      BY <1>1, EmptySeq
    <3>2. new[i] = LastOf(rows) /\ new[i + 1] = r
      BY <1>1, <2>1 DEF LastOf
    <3> QED BY <3>1, <3>2
  <2>2. CASE i # n
    <3>1. i \in 1 .. n - 1 /\ i + 1 \in 1 .. n
      BY <1>1, <2>2
    <3>2. new[i] = rows[i] /\ new[i + 1] = rows[i + 1]
      BY <1>1, <3>1
    <3> QED BY <3>1, <3>2 DEF InOrder
  <2> QED BY <2>1, <2>2
<1>5. ASSUME NEW c, NEW k, Shown(c, k, rows) PROVE Shown(c, k, new)
  <2>1. PICK i \in 1 .. n : rows[i].num = k /\ SameText(rows[i].body, LineAt(c, k))
    BY <1>2, <1>5 DEF Shown
  <2>2. i \in DOMAIN new /\ new[i] = rows[i]
    BY <1>1, <1>2
  <2> QED BY <2>1, <2>2 DEF Shown
<1>6. ASSUME NEW c, NEW k, r.num = k, SameText(r.body, LineAt(c, k))
      PROVE  Shown(c, k, new)
  <2>1. n + 1 \in DOMAIN new
    BY <1>1, <1>2
  <2> QED BY <1>1, <1>6, <2>1 DEF Shown
<1> QED BY <1>1, <1>3, <1>4, <1>5, <1>6 DEF new

(* The first complete line that is pending is the line of the file after    *)
(* the p bytes of whole lines; it ends at q.                               *)
FirstIs(c, o, w, n, rows, p, q) ==
  LET i == FirstNl(w)
      body == Lossy(SubSeq(w, 1, i - 1))
  IN /\ c[q] = "nl" /\ NlAt(SubSeq(c, p + 1, q - 1)) = {}
     /\ SameText(body, SubSeq(c, p + 1, q - 1))
     /\ SubSeq(w, i + 1, Len(w)) = SubSeq(c, q + 1, o)
     /\ rows # <<>> => \/ n = LastOf(rows).num + 1
                       \/ /\ n = LastOf(rows).num
                          /\ IsPrefixOf(LastOf(rows).body, body)

(* If what is pending is pending as it is in the file ...                  *)
LEMMA FirstOfWhole ==
  ASSUME NEW c \in Seq(Text), NEW o \in 0 .. Len(c), NEW w \in Seq(Text), NEW n \in Nat,
         NEW rows, NEW p \in 0 .. o,
         PendingWhole(c, o, w, n, rows, p), NlAt(w) # {}
  PROVE  \E q \in p + 1 .. o : FirstIs(c, o, w, n, rows, p, q)
<1> DEFINE u == <<>>
           i == FirstNl(w)
           q == p + (i - Len(u))
           v == SubSeq(c, p + 1, o)
<1>1. p \in 0 .. Len(c) /\ o \in p .. Len(c) /\ p \in Nat /\ Len(c) \in Nat /\ o \in Nat
  BY LenProperties
<1>2. u \in Seq(Text) /\ NlAt(u) = {}
  BY DEF NlAt
<1>3. v \in Seq(Text)
  BY <1>1, Stretch
<1>4. \A s \in Seq(Text) : u \o s = s
  BY ConcatEmptySeq
<1> HIDE DEF u, v
<1>5. w = u \o SubSeq(c, p + 1, o)
  BY <1>3, <1>4 DEF PendingWhole, v
<1> HIDE DEF i, q
<1>6. i = FirstNl(w) /\ q = p + (i - Len(u))
  BY DEF i, q
<1>7. /\ q \in p + 1 .. o
      /\ c[q] = "nl"
      /\ NlAt(SubSeq(c, p + 1, q - 1)) = {}
      /\ SubSeq(w, 1, i - 1) = u \o SubSeq(c, p + 1, q - 1)
      /\ SubSeq(w, i + 1, Len(w)) = SubSeq(c, q + 1, o)
  <2>1. CutsFrom(c, p, o, u, w, i, q)
    BY <1>1, <1>2, <1>5, <1>6 DEF CutsFrom
  <2>2. CutsAt(c, p, o, u, w, i, q)
    BY <2>1, CutFirstLine
  <2> QED BY <2>2 DEF CutsAt
<1> DEFINE e == q - 1
<1>8. e \in p .. Len(c)
  BY <1>1, <1>7
<1>9. SubSeq(c, p + 1, e) \in Seq(Text)
  <2> HIDE DEF e
  <2> QED BY <1>1, <1>8, Stretch
<1>10. SubSeq(w, 1, i - 1) = SubSeq(c, p + 1, q - 1)
  BY <1>4, <1>7, <1>9
<1>11. SameText(Lossy(SubSeq(w, 1, i - 1)), SubSeq(c, p + 1, q - 1))
  BY <1>10, SameWhole
<1>12. rows # <<>> => n = LastOf(rows).num + 1
  BY DEF PendingWhole
<1>13. FirstIs(c, o, w, n, rows, p, q)
  BY <1>6, <1>7, <1>11, <1>12 DEF FirstIs
<1> QED BY <1>7, <1>13

(* ... or with a first piece that was decoded when the command started.    *)
LEMMA FirstOfCut ==
  ASSUME NEW c \in Seq(Text), NEW o \in 0 .. Len(c), NEW w \in Seq(Text), NEW n \in Nat,
         NEW rows, NEW p \in 0 .. o, NEW m \in p + 1 .. o,
         PendingCut(c, o, w, n, rows, p, m), NlAt(w) # {}
  PROVE  \E q \in p + 1 .. o : FirstIs(c, o, w, n, rows, p, q)
<1> DEFINE piece == SubSeq(c, p + 1, m)
           u == Lossy(piece)
           i == FirstNl(w)
           q == m + (i - Len(u))
           e == q - 1
           more == SubSeq(c, m + 1, e)
           line == SubSeq(c, p + 1, e)
           body == Lossy(SubSeq(w, 1, i - 1))
<1>1. /\ p \in 0 .. Len(c) /\ o \in m .. Len(c) /\ p \in Nat /\ Len(c) \in Nat /\ o \in Nat
      /\ m \in p .. Len(c) /\ m \in 0 .. Len(c) /\ m \in Nat /\ m - p \in Nat \ {0}
  BY LenProperties
<1>2. piece \in Seq(Text) /\ piece # <<>>
  <2>1. piece \in Seq(Text) /\ Len(piece) = m - p
    BY <1>1, Stretch
  <2> HIDE DEF piece
  <2> QED BY <1>1, <2>1, EmptySeq
<1>3. NlAt(piece) = {} /\ w = u \o SubSeq(c, m + 1, o)
  BY DEF PendingCut
<1>4. rows # <<>> => LastOf(rows).num = n /\ LastOf(rows).body = u
  BY DEF PendingCut, Row
<1>5. piece \o more = line /\ more \in Seq(Text) /\ line \in Seq(Text) /\ q \in p + 1 .. o
      /\ c[q] = "nl" /\ NlAt(more) = {} /\ SubSeq(w, 1, i - 1) = u \o more
      /\ SubSeq(w, i + 1, Len(w)) = SubSeq(c, q + 1, o)
  <2>1. u \in Seq(Text) /\ NlAt(u) = {}
    <3> HIDE DEF piece
    <3> QED BY <1>2, <1>3, LossyType, LossyNoNewline
  <2> HIDE DEF u, i, q, piece
  <2>2. i = FirstNl(w) /\ q = m + (i - Len(u))
    BY DEF i, q
  <2>3. /\ q \in m + 1 .. o
        /\ c[q] = "nl"
        /\ NlAt(SubSeq(c, m + 1, q - 1)) = {}
        /\ SubSeq(w, 1, i - 1) = u \o SubSeq(c, m + 1, q - 1)
        /\ SubSeq(w, i + 1, Len(w)) = SubSeq(c, q + 1, o)
    <3>1. CutsFrom(c, m, o, u, w, i, q)
      BY <1>1, <1>3, <2>1, <2>2 DEF CutsFrom
    <3>2. CutsAt(c, m, o, u, w, i, q)
      BY <3>1, CutFirstLine
    <3> QED BY <3>2 DEF CutsAt
  <2>4. q \in p + 1 .. o /\ e \in m .. Len(c) /\ e \in p .. Len(c)
    BY <1>1, <2>3
  <2> HIDE DEF e
  <2>5. more \in Seq(Text) /\ line \in Seq(Text)
    BY <1>1, <2>4, Stretch
  <2>6. SubSeq(c, p + 1, m) \o SubSeq(c, m + 1, e) = SubSeq(c, p + 1, e)
    BY <1>1, <2>4, Adjacent
  <2> QED BY <2>3, <2>4, <2>5, <2>6 DEF e, piece
<1> HIDE DEF piece, e, more, line, i, q
<1>6. NlAt(line) = {}
  <2>1. Cardinality(NlAt(piece \o more)) = Cardinality(NlAt(piece)) + Cardinality(NlAt(more))
    BY <1>2, <1>5, NlCount
  <2>2. Cardinality(NlAt(line)) = 0
    BY <1>3, <1>5, <2>1, FS_EmptySet
  <2>3. IsFiniteSet(NlAt(line))
    BY <1>5, NlType
  <2> QED BY <2>2, <2>3, FS_EmptySet
<1>7. SameText(body, line)
  BY <1>2, <1>5, SamePieces
<1>8. IsPrefixOf(u, body)
  <2>1. u \in Seq(CharClass) /\ u \in Seq(Text)
    BY <1>2, LossyType
  <2> HIDE DEF u
  <2> QED BY <1>5, <2>1, LossyPrefix
<1>9. FirstIs(c, o, w, n, rows, p, q)
  BY <1>4, <1>5, <1>6, <1>7, <1>8 DEF FirstIs, i, e, line
<1> QED BY <1>5, <1>9

(* What is cut off what is pending, and what is left.                      *)
LEMMA FirstLineType ==
  ASSUME NEW w \in Seq(Text), NlAt(w) # {}, NEW n \in Nat, NEW i, i = FirstNl(w)
  PROVE  /\ SubSeq(w, i + 1, Len(w)) \in Seq(Text)
         /\ Row(n, Lossy(SubSeq(w, 1, i - 1))) \in RowType
<1> DEFINE e == i - 1
<1>1. i \in 1 .. Len(w) /\ Len(w) \in Nat
  BY FirstNlIs, NlType
<1>2. /\ Len(w) \in i .. Len(w) /\ i \in 0 .. Len(w) /\ e \in 0 .. Len(w) /\ 0 \in 0 .. Len(w)
      /\ 0 + 1 = 1
  BY <1>1
<1>3. SubSeq(w, i + 1, Len(w)) \in Seq(Text)
  BY <1>2, Stretch
<1>4. Lossy(SubSeq(w, 1, e)) \in Seq(CharClass)
  <2> HIDE DEF e
  <2>1. SubSeq(w, 0 + 1, e) \in Seq(Text)
    BY <1>2, Stretch
  <2>2. SubSeq(w, 1, e) \in Seq(Text)
    BY <1>2, <2>1
  <2> QED BY <2>2, LossyType
<1>5. Row(n, Lossy(SubSeq(w, 1, e))) \in RowType
  <2> HIDE DEF e
  <2> QED BY <1>4 DEF Row, RowType
<1> QED BY <1>3, <1>5

(* Printing the first complete line that is pending, under its number.     *)
LEMMA KeptEmitted ==
  ASSUME NEW c \in Seq(Text), NEW o, NEW w \in Seq(Text), NEW n \in Nat \ {0},
         NEW rows \in Seq(RowType), NEW b \in Nat,
         Kept(c, o, w, n, rows, b), NlAt(w) # {},
         NEW i, i = FirstNl(w), NEW left, left = SubSeq(w, i + 1, Len(w)),
         NEW new, new = Append(rows, Row(n, Lossy(SubSeq(w, 1, i - 1))))
  PROVE  /\ left \in Seq(Text) /\ new \in Seq(RowType)
         /\ Kept(c, o, left, n + 1, new, b)
<1> DEFINE body == Lossy(SubSeq(w, 1, i - 1))
           r == Row(n, body)
           last == LastOf(rows)
<1>1. o \in 0 .. Len(c) /\ Len(c) \in Nat /\ o \in Nat /\ o <= Len(c)
  BY LenProperties DEF Kept
<1>2. PICK p \in 0 .. o : Numbered(c, n, p) /\ Pending(c, o, w, n, rows, p)
  BY DEF Kept
<1>4. left \in Seq(Text) /\ r \in RowType
  BY FirstLineType
<1>5. PICK q \in p + 1 .. o : FirstIs(c, o, w, n, rows, p, q)
  <2>1. CASE PendingWhole(c, o, w, n, rows, p)
    BY <1>1, <2>1, FirstOfWhole
  <2>2. ASSUME NEW m \in p + 1 .. o, PendingCut(c, o, w, n, rows, p, m)
        PROVE  \E q \in p + 1 .. o : FirstIs(c, o, w, n, rows, p, q)
    BY <1>1, <2>2, FirstOfCut
  <2> QED BY <1>2, <2>1, <2>2 DEF Pending
<1>6. /\ c[q] = "nl" /\ NlAt(SubSeq(c, p + 1, q - 1)) = {}
      /\ SameText(body, SubSeq(c, p + 1, q - 1))
      /\ left = SubSeq(c, q + 1, o)
  BY <1>5 DEF FirstIs
<1>61. rows # <<>> => n = last.num + 1 \/ (n = last.num /\ IsPrefixOf(last.body, body))
  BY <1>5 DEF FirstIs
<1>62. /\ Whole(SubSeq(c, 1, p))
       /\ n - 1 = Cardinality(NlAt(SubSeq(c, 1, p)))
  BY <1>2 DEF Numbered
<1>7. /\ LineAt(c, n) = SubSeq(c, p + 1, q - 1)
      /\ Numbered(c, n + 1, q)
  <2> DEFINE k == n - 1
  <2>1. p \in 0 .. Len(c) /\ q \in p + 1 .. Len(c) /\ k + 1 = n /\ n + 1 - 1 = n
    BY <1>1
  <2>2. k = Cardinality(NlAt(SubSeq(c, 1, p)))
    BY <1>62
  <2> HIDE DEF k
  <2>3. /\ LineAt(c, k + 1) = SubSeq(c, p + 1, q - 1)
        /\ Whole(SubSeq(c, 1, q))
        /\ Cardinality(NlAt(SubSeq(c, 1, q))) = k + 1
    BY <1>6, <1>62, <2>1, <2>2, LineFound, SMTT(30)
  <2> QED BY <2>1, <2>3 DEF Numbered
<1>8. r.num = n /\ r.body = body
  BY DEF Row
<1>9. /\ InOrder(new) /\ new \in Seq(RowType)
      /\ new # <<>> /\ LastOf(new) = r
      /\ \A k : Shown(c, k, rows) => Shown(c, k, new)
      /\ Shown(c, n, new)
  <2> HIDE DEF r
  <2>1. rows # <<>> => \/ r.num = LastOf(rows).num + 1
                       \/ /\ r.num = LastOf(rows).num
                          /\ IsPrefixOf(LastOf(rows).body, r.body)
    BY <1>61, <1>8
  <2>2. InOrder(rows) /\ new = Append(rows, r)
    BY DEF Kept, r
  <2>3. r.num = n /\ SameText(r.body, LineAt(c, n))
    BY <1>6, <1>7, <1>8
  <2> HIDE DEF body
  <2>4. r \in RowType
    BY <1>4
  <2>5. /\ InOrder(new) /\ new \in Seq(RowType)
        /\ new # <<>> /\ LastOf(new) = r
        /\ \A k : Shown(c, k, rows) => Shown(c, k, new)
        /\ \A k : r.num = k /\ SameText(r.body, LineAt(c, k)) => Shown(c, k, new)
    BY <2>1, <2>2, <2>4, RowAdded, ZenonT(60)
  <2> QED BY <2>3, <2>5
<1>10. Pending(c, o, left, n + 1, new, q)
  <2>1. LastOf(new).num = n + 1 - 1
    BY <1>8, <1>9
  <2>2. left = SubSeq(c, q + 1, o)
    BY <1>6
  <2> DEFINE k == n + 1
  <2> HIDE DEF k
  <2>3. LastOf(new).num = k - 1
    BY <2>1 DEF k
  <2>4. PendingWhole(c, o, left, k, new, q)
    BY <2>2, <2>3 DEF PendingWhole
  <2>5. Pending(c, o, left, k, new, q)
    BY <2>4 DEF Pending
  <2> QED BY <2>5 DEF k
<1>11. \A k \in b + 1 .. n + 1 - 1 : Shown(c, k, new)
  <2> SUFFICES ASSUME NEW k \in b + 1 .. n + 1 - 1 PROVE Shown(c, k, new)
    OBVIOUS
  <2>1. CASE k = n
    BY <1>9, <2>1
  <2>2. CASE k # n
    <3>1. k \in b + 1 .. n - 1
      BY <2>2
    <3> QED BY <1>9, <3>1 DEF Kept
  <2> QED BY <2>1, <2>2
<1>12. q \in 0 .. o
  BY <1>1, <1>5
<1> QED BY <1>1, <1>4, <1>7, <1>9, <1>10, <1>11, <1>12 DEF Kept

(* The command's start: the last lines of the content are printed, and the *)
(* whole of it is consumed.                                                *)
LEMMA PartialIs ==
  ASSUME NEW s \in Seq(Text), NEW c, NEW A, NEW l, IsSplit(s, c, A, l, <<>>)
  PROVE  /\ c = Cardinality(NlAt(s)) /\ c \in Nat
         /\ s = A \o l /\ A \in Seq(Text) /\ l \in Seq(Text)
         /\ LineAt(s, c + 1) = l
         /\ Partial(s) <=> l # <<>>
<1>1. /\ A \in Seq(Text) /\ l \in Seq(Text) /\ Whole(A) /\ NlAt(l) = {}
      /\ s = A \o (l \o <<>>)
  BY DEF IsSplit
<1>2. s = A \o l
  BY <1>1, ConcatEmptySeq
<1>3. c = Cardinality(NlAt(s)) /\ c \in Nat /\ LineAt(s, c + 1) = l
  <2>1. NlAt(<<>>) = {}
    BY DEF NlAt
  <2>2. Cardinality(NlAt(<<>>)) = 0
    BY <2>1, FS_EmptySet
  <2>3. c \in Nat /\ LineAt(s, c + 1) = l /\ Cardinality(NlAt(s)) = c + Cardinality(NlAt(<<>>))
    BY LineIs
  <2> QED BY <2>2, <2>3
<1>4. CASE l = <<>>
  <2>1. s = A
    BY <1>1, <1>2, <1>4, ConcatEmptySeq
  <2> QED BY <1>1, <1>2, <1>3, <1>4, <2>1 DEF Partial, Whole
<1>5. CASE l # <<>>
  <2> DEFINE n == Len(A) + Len(l)
  <2>1. /\ Len(A) \in Nat /\ Len(l) \in Nat \ {0} /\ Len(l) \in 1 .. Len(l)
        /\ DOMAIN l = 1 .. Len(l)
    BY <1>1, <1>5, EmptySeq, LenProperties
  <2>2. l[Len(l)] # "nl"
    BY <1>1, <2>1 DEF NlAt
  <2>3. /\ Len(s) = n
        /\ \A i \in 1 .. n : s[i] = IF i <= Len(A) THEN A[i] ELSE l[i - Len(A)]
    BY <1>1, <1>2, ConcatProperties
  <2>4. n \in 1 .. n /\ ~(n <= Len(A)) /\ n - Len(A) = Len(l) /\ n # 0
    BY <2>1
  <2> HIDE DEF n
  <2>5. s[n] = l[Len(l)]
    BY <2>3, <2>4
  <2>6. s # <<>>
    BY <2>3, <2>4, EmptySeq
  <2> QED BY <1>1, <1>2, <1>3, <1>5, <2>2, <2>3, <2>5, <2>6 DEF Partial
<1> QED BY <1>4, <1>5

(* What StripCr leaves of characters are characters.                       *)
LEMMA StripType ==
  ASSUME NEW l \in Seq(CharClass) PROVE StripCr(l) \in Seq(CharClass)
<1>1. CASE l # <<>>
  <2>1. 1 \in Nat \ {0} /\ Len(l) - 1 \in 0 .. Len(l)
    BY <1>1, EmptySeq, LenProperties
  <2>2. SubSeq(l, 1, Len(l) - 1) \in Seq(CharClass)
    BY <2>1, SubSeqType
  <2> QED BY <2>2 DEF StripCr
<1>2. CASE l = <<>>
  BY <1>2 DEF StripCr
<1> QED BY <1>1, <1>2

(* One row of the start.                                                   *)
LEMMA InitialLineIs ==
  ASSUME NEW c \in Seq(Text), NEW k \in 1 .. LineCount(Lossy(c))
  PROVE  /\ InitialLine(Lossy(c), k) \in Seq(CharClass)
         /\ SameText(InitialLine(Lossy(c), k), LineAt(c, k))
<1> DEFINE t == Lossy(c)
           C == Cardinality(NlAt(c))
           j == k - 1
           line == LineAt(c, k)
<1>1. C \in Nat /\ Cardinality(NlAt(t)) = C
  BY NlType, LossyNewlines
<1>2. j \in 0 .. C /\ j + 1 = k
  <2>1. LineCount(t) \in {C, C + 1}
    BY <1>1 DEF LineCount
  <2> HIDE DEF t, C
  <2> QED BY <1>1, <2>1 DEF t
<1> HIDE DEF j
<1>3. LineAt(c, j + 1) \in Seq(Text) /\ LineAt(Lossy(c), j + 1) = Lossy(LineAt(c, j + 1))
  BY <1>2, LossyLine
<1>4. line \in Seq(Text) /\ LineAt(Lossy(c), k) = Lossy(line)
  BY <1>2, <1>3
<1> HIDE DEF line
<1>5. Lossy(line) \in Seq(CharClass)
  BY <1>4, LossyType
<1>6. InitialLine(Lossy(c), k) \in {Lossy(line), StripCr(Lossy(line))}
  BY <1>4 DEF InitialLine
<1> QED BY <1>5, <1>6, StripType, SameWhole DEF line

(* The rows of the last lines of the content c, those after line start.    *)
StartsWith(c, total, start, rows) ==
  /\ total \in Nat /\ start \in 0 .. total
  /\ rows \in Seq(RowType) /\ Len(rows) = total - start
  /\ \A i \in 1 .. total - start : rows[i] = Row(start + i, InitialLine(Lossy(c), start + i))
  /\ InOrder(rows)
  /\ \A k \in start + 1 .. total : Shown(c, k, rows)

(* follow_initial prints such rows.                                        *)
LEMMA InitialRowsAre ==
  ASSUME NEW c \in Seq(Text), NEW m \in Nat, NEW total, total = LineCount(Lossy(c)),
         NEW start, start = SaturatingSub(total, m),
         NEW rows, rows = InitialRows(Lossy(c), m)
  PROVE  StartsWith(c, total, start, rows)
<1>1. total \in Nat /\ start \in 0 .. total
  <2>1. Cardinality(NlAt(Lossy(c))) \in Nat
    BY LossyType, NlType
  <2>2. total \in Nat
    BY <2>1 DEF LineCount
  <2> QED BY <2>2 DEF SaturatingSub
<1> DEFINE n == total - start
<1>2. rows = [i \in 1 .. n |-> Row(start + i, InitialLine(Lossy(c), start + i))]
  BY DEF InitialRows
<1>3. n \in Nat /\ \A i \in 1 .. n : start + i \in 1 .. total /\ start + i \in Nat
  BY <1>1
<1> HIDE DEF n
<1>4. /\ \A i \in 1 .. n : rows[i] = Row(start + i, InitialLine(Lossy(c), start + i))
      /\ DOMAIN rows = 1 .. n
  BY <1>2
<1>5. \A i \in 1 .. n : rows[i].num = start + i /\ rows[i].body = InitialLine(Lossy(c), start + i)
  BY <1>4 DEF Row
<1>6. \A i \in 1 .. n : rows[i] \in RowType
  BY <1>3, <1>4, InitialLineIs DEF Row, RowType
<1>7. rows \in Seq(RowType) /\ Len(rows) = n
  <2>1. rows \in [1 .. n -> RowType]
    <3>1. rows = [i \in 1 .. n |-> rows[i]]
      BY <1>2
    <3> QED BY <1>6, <3>1
  <2> QED BY <1>3, <2>1, IsASeq, LenProperties
<1>8. InOrder(rows)
  <2> SUFFICES ASSUME NEW i \in 1 .. n - 1 PROVE rows[i + 1].num = rows[i].num + 1
    BY <1>7 DEF InOrder
  <2>1. i \in 1 .. n /\ i + 1 \in 1 .. n
    BY <1>3
  <2>2. rows[i + 1].num = start + (i + 1) /\ rows[i].num = start + i
    BY <1>5, <2>1
  <2> QED BY <1>1, <2>1, <2>2
<1>9. ASSUME NEW k \in start + 1 .. total PROVE Shown(c, k, rows)
  <2> DEFINE i == k - start
  <2>1. i \in 1 .. n /\ start + i = k /\ k \in 1 .. total
    BY <1>1 DEF n
  <2> HIDE DEF i
  <2>2. rows[i].num = k /\ rows[i].body = InitialLine(Lossy(c), k) /\ i \in DOMAIN rows
    BY <1>4, <1>5, <2>1
  <2>3. SameText(InitialLine(Lossy(c), k), LineAt(c, k))
    BY <2>1, InitialLineIs
  <2> QED BY <2>2, <2>3 DEF Shown
<1> QED BY <1>1, <1>4, <1>7, <1>8, <1>9 DEF n, StartsWith

(* After the start, the rows and what is pending fit the content.          *)
LEMMA KeptInitial ==
  ASSUME NEW c \in Seq(Text), NEW m \in Nat, NEW rows, rows = InitialRows(Lossy(c), m),
         NEW b, b = SaturatingSub(LineCount(Lossy(c)), m),
         NEW n, n = InitialNext(Lossy(c)), NEW w, w = InitialPending(Lossy(c))
  PROVE  /\ n \in Nat \ {0} /\ b \in Nat /\ w \in Seq(Text) /\ rows \in Seq(RowType)
         /\ Kept(c, Len(c), w, n, rows, b)
<1> DEFINE t == Lossy(c)
           C == Cardinality(NlAt(c))
           total == LineCount(t)
           o == Len(c)
<1>1. C \in Nat /\ C \in 0 .. C /\ o \in Nat /\ o \in 0 .. Len(c) /\ t \in Seq(Text)
  BY NlType, LossyType
<1>2. PICK A, l : IsSplit(c, C, A, l, <<>>)
  BY <1>1, LineSplit
<1>3. /\ c = A \o l /\ A \in Seq(Text) /\ l \in Seq(Text) /\ LineAt(c, C + 1) = l
      /\ Whole(A) /\ Cardinality(NlAt(A)) = C /\ NlAt(l) = {}
  <2>1. Whole(A) /\ Cardinality(NlAt(A)) = C /\ NlAt(l) = {}
    BY <1>2 DEF IsSplit
  <2> HIDE DEF C
  <2>2. c = A \o l /\ A \in Seq(Text) /\ l \in Seq(Text) /\ LineAt(c, C + 1) = l
    BY <1>2, PartialIs
  <2> QED BY <2>1, <2>2
<1>4. /\ LineAt(t, C + 1) = Lossy(l) /\ Cardinality(NlAt(t)) = C
      /\ Partial(t) <=> l # <<>>
  <2>1. IsSplit(t, C, Lossy(A), Lossy(l), <<>>)
    BY <1>2, LossySplit, LossyEmpty
  <2>2. Lossy(l) # <<>> <=> l # <<>>
    BY <1>3, LossyEmpty, LossyNonEmpty
  <2> HIDE DEF t, C
  <2> QED BY <1>1, <2>1, <2>2, PartialIs
<1> DEFINE p == Len(A)
<1>5. /\ p \in Nat /\ Len(l) \in Nat /\ o = p + Len(l) /\ p \in 0 .. o
      /\ l # <<>> => o \in p + 1 .. o
  <2>1. o = p + Len(l) /\ p \in Nat /\ Len(l) \in Nat /\ (l # <<>> => Len(l) # 0)
    BY <1>3, Joined, EmptySeq, LenProperties
  <2> HIDE DEF o, p
  <2> QED BY <2>1
<1>6. SubSeq(c, 1, p) = A /\ SubSeq(c, p + 1, o) = l
  <2>1. SubSeq(A \o l, 1, Len(A)) = SubSeq(A, 1, Len(A))
    <3>1. 1 \in Nat \ {0} /\ Len(A) \in 0 .. Len(A)
      BY <1>5
    <3> QED BY <1>3, <3>1, CutBeforeSeam
  <2> DEFINE e == Len(A) + 1
  <2>2. e \in 1 .. Len(A) + 1 /\ Len(A) < e /\ e \in Int /\ Len(A) \in Int
    BY <1>5
  <2> HIDE DEF e
  <2>3. SubSeq(A \o l, e, Len(A \o l)) = SubSeq(A, e, Len(A)) \o l
    BY <1>3, <2>2, CutThroughSeam
  <2>4. SubSeq(A, e, Len(A)) = <<>> /\ <<>> \o l = l
    BY <1>3, <2>2, SubSeqEmpty, ConcatEmptySeq
  <2>5. SubSeq(A, 1, Len(A)) = A
    BY <1>3, SubSeqFull
  <2> QED BY <1>3, <2>1, <2>3, <2>4, <2>5 DEF e
<1>7. /\ total \in Nat /\ b \in 0 .. total
      /\ rows \in Seq(RowType) /\ Len(rows) = total - b
      /\ \A i \in 1 .. total - b : rows[i] = Row(b + i, InitialLine(t, b + i))
      /\ InOrder(rows)
      /\ \A k \in b + 1 .. total : Shown(c, k, rows)
  <2>1. total = LineCount(Lossy(c)) /\ b = SaturatingSub(total, m)
    OBVIOUS
  <2> HIDE DEF total
  <2>2. StartsWith(c, total, b, rows)
    BY <2>1, InitialRowsAre
  <2> QED BY <2>2 DEF StartsWith
<1>8. rows # <<>> => LastOf(rows) = Row(total, InitialLine(t, total))
  <2> HAVE rows # <<>>
  <2> DEFINE i == total - b
  <2>1. i \in 1 .. total - b /\ b + i = total /\ Len(rows) = i
    <3>1. Len(rows) # 0
      BY <1>7, EmptySeq
    <3> HIDE DEF total
    <3> QED BY <1>7, <3>1
  <2> HIDE DEF i, total, t
  <2> QED BY <1>7, <2>1 DEF LastOf
<1> HIDE DEF p, o, C, total, t
<1>9. n = C + 1 /\ Numbered(c, n, p)
  <2>1. n = C + 1
    BY <1>1, <1>4 DEF InitialNext, LineCount, t
  <2>2. n - 1 = C
    BY <1>1, <2>1
  <2> QED BY <1>3, <1>6, <2>1, <2>2 DEF Numbered
<1>10. CASE l = <<>>
  <2>1. w = <<>> /\ total = C
    BY <1>1, <1>4, <1>10 DEF InitialPending, LineCount, t, total
  <2>2. rows # <<>> => LastOf(rows).num = n - 1
    BY <1>1, <1>8, <1>9, <2>1 DEF Row
  <2>3. Pending(c, o, w, n, rows, p)
    BY <1>6, <1>10, <2>1, <2>2 DEF Pending, PendingWhole
  <2>4. \A k \in b + 1 .. n - 1 : Shown(c, k, rows)
    BY <1>1, <1>7, <1>9, <2>1
  <2>5. w \in Seq(Text) /\ b \in Nat /\ n \in Nat \ {0}
    BY <1>1, <1>7, <1>9, <2>1
  <2> QED BY <1>1, <1>5, <1>7, <1>9, <2>3, <2>4, <2>5 DEF Kept, o
<1>11. CASE l # <<>>
  <2>1. w = Lossy(l) /\ total = C + 1
    BY <1>1, <1>4, <1>11 DEF InitialPending, LineCount, t, total
  <2>2. rows # <<>> => LastOf(rows) = Row(n, Lossy(l))
    <3>1. ~(total <= C)
      BY <1>1, <2>1
    <3>2. InitialLine(t, total) = Lossy(l)
      BY <1>4, <2>1, <3>1 DEF InitialLine
    <3> QED BY <1>8, <1>9, <2>1, <3>2
  <2>3. w \in Seq(Text) /\ w \o <<>> = w
    BY <1>3, <2>1, LossyType, ConcatEmptySeq
  <2>4. SubSeq(c, o + 1, o) = <<>>
    <3>1. o < o + 1 /\ o + 1 \in Int /\ o \in Int
      BY <1>1
    <3> QED BY <3>1, SubSeqEmpty
  <2>5. PendingCut(c, o, w, n, rows, p, o)
    BY <1>3, <1>6, <2>1, <2>2, <2>3, <2>4 DEF PendingCut
  <2>6. Pending(c, o, w, n, rows, p)
    BY <1>5, <1>11, <2>5 DEF Pending
  <2>7. \A k \in b + 1 .. n - 1 : Shown(c, k, rows)
    <3>1. \A k \in b + 1 .. n - 1 : k \in b + 1 .. total
      BY <1>1, <1>7, <1>9, <2>1
    <3> QED BY <1>7, <3>1
  <2>8. b \in Nat /\ n \in Nat \ {0}
    BY <1>1, <1>7, <1>9
  <2> QED BY <1>1, <1>5, <1>7, <1>9, <2>3, <2>6, <2>7, <2>8 DEF Kept, o
<1> QED BY <1>10, <1>11

-----------------------------------------------------------------------------
(* The follower in lines mode: while it follows the file it opened, without*)
(* a rewrite it has not seen, the rows printed since, what is pending and  *)
(* the next number fit the content.                                        *)
LinesInv ==
  args.mode = "lines" =>
    /\ next \in Nat \ {0} /\ base \in Nat
    /\ pending \in Seq(Text) /\ out \in Seq(RowType) /\ epoch \in 0 .. Len(out)
    /\ pc \notin {"readlast", "measure"}
    /\ pc \in {"start", "open"} => epoch = 0
    /\ (pc = "open" \/ Polling) /\ ~stale =>
         Kept(Content, offset, pending, next, Printed, base)

(* What is read from a file is text.                                       *)
LEMMA TextOfBytes == \A s \in Seq(Byte) : s \in Seq(Text)
BY ByteIsText

(* A tail of the rows is a sequence of rows.                               *)
LEMMA PrintedType ==
  ASSUME NEW s \in Seq(RowType), NEW e \in 0 .. Len(s)
  PROVE  SubSeq(s, e + 1, Len(s)) \in Seq(RowType)
<1>1. Len(s) \in e .. Len(s)
  BY LenProperties
<1> QED BY <1>1, Stretch

(* A step that leaves lines mode's state and the content alone.            *)
LEMMA LinesInvStutter ==
  ASSUME StateTypeOK, LinesInv,
         UNCHANGED <<args, offset, pending, next, out, epoch, base>>,
         fd # 0 => Content' = Content,
         pc' \notin {"readlast", "measure"} \/ pc' = pc,
         pc' \in {"start", "open"} => pc' = pc,
         (pc' = "open" \/ Polling') /\ ~stale' => (pc = "open" \/ Polling) /\ ~stale
  PROVE  LinesInv'
<1>1. pc = "open" \/ Polling => fd # 0
  BY DEF StateTypeOK, Polling
<1>2. Printed' = Printed
  BY DEF Printed
<1> QED BY <1>1, <1>2 DEF LinesInv

(* The writer's steps: an append keeps what was consumed, and a truncation *)
(* of a file in use makes the follower stale.                              *)
LEMMA LinesInvWriter ==
  ASSUME StateTypeOK, LinesInv, Environment
  PROVE  LinesInv'
<1> USE DEF StateTypeOK
<1>1. ASSUME NEW chunk \in Chunks, Append_(chunk) PROVE LinesInv'
  <2>1. UNCHANGED <<args, pc, fd, offset, pending, next, out, stale, epoch, base>>
    BY <1>1 DEF Append_
  <2>2. CASE fd = Len(inodes) /\ fd # 0
    <3>1. Content' = Content \o chunk
      <4>1. inodes' = [inodes EXCEPT ![Len(inodes)] = inodes[Len(inodes)] \o chunk]
        BY <1>1 DEF Append_, Current
      <4> QED BY <2>1, <2>2, <4>1 DEF Content
    <3>2. Content \in Seq(Text) /\ chunk \in Seq(Text)
      <4>1. Content \in Seq(Byte) /\ chunk \in Seq(Byte)
        BY <2>2, ContentType, ChunkType
      <4> QED BY <4>1, TextOfBytes
    <3>3. /\ (pc' = "open" \/ Polling') /\ ~stale' <=> (pc = "open" \/ Polling) /\ ~stale
          /\ Printed' = Printed
      BY <2>1 DEF Polling, Printed
    <3>4. ASSUME args.mode = "lines", pc = "open" \/ Polling, ~stale
          PROVE  Kept(Content \o chunk, offset, pending, next, Printed, base)
      <4>1. Kept(Content, offset, pending, next, Printed, base) /\ next \in Nat /\ base \in Nat
        BY <3>4 DEF LinesInv
      <4> HIDE DEF StateTypeOK
      <4> QED BY <3>2, <4>1, KeptAppended
    <3> HIDE DEF StateTypeOK
    <3> QED BY <2>1, <3>1, <3>3, <3>4 DEF LinesInv
  <2>3. CASE fd # Len(inodes) \/ fd = 0
    <3>1. fd # 0 => Content' = Content
      BY <1>1, <2>3 DEF Append_, Content, Current
    <3> QED BY <2>1, <3>1, LinesInvStutter DEF Polling
  <2> QED BY <2>2, <2>3
<1>2. CASE Truncate
  <2>1. UNCHANGED <<args, pc, fd, offset, pending, next, out, epoch, base>>
    BY <1>2 DEF Truncate
  <2>2. stale' => ~(pc = "open" \/ Polling) \/ stale'
    OBVIOUS
  <2>3. ~stale' => ~stale
    BY <1>2, Zenon DEF Truncate
  <2>4. CASE fd = Current /\ offset = 0
    <3>1. fd # 0
      BY <2>4 DEF Current
    <3>2. Content' = <<>> /\ <<>> \in Seq(Text)
      BY <1>2, <2>4 DEF Truncate, Content, Current
    <3>3. Content \in Seq(Text)
      BY <3>1, ContentType, TextOfBytes
    <3>4. ASSUME args.mode = "lines", pc = "open" \/ Polling, ~stale
          PROVE  Kept(<<>>, 0, pending, next, Printed, base)
      <4>1. Kept(Content, 0, pending, next, Printed, base) /\ next \in Nat /\ base \in Nat
        BY <2>4, <3>4 DEF LinesInv
      <4> HIDE DEF StateTypeOK
      <4> QED BY <3>2, <3>3, <4>1, KeptUnread
    <3>5. Printed' = Printed /\ (Polling' <=> Polling)
      BY <2>1 DEF Printed, Polling
    <3> HIDE DEF StateTypeOK
    <3> QED BY <2>1, <2>3, <2>4, <3>2, <3>4, <3>5 DEF LinesInv
  <2>5. CASE fd = Current /\ offset # 0
    <3>1. stale'
      <4>1. offset > 0
        BY <2>5
      <4> QED BY <1>2, <2>5, <4>1, Zenon DEF Truncate
    <3> HIDE DEF StateTypeOK
    <3> QED BY <2>1, <3>1 DEF LinesInv
  <2>6. CASE fd # Current
    <3>1. fd # 0 => Content' = Content
      BY <1>2, <2>6 DEF Truncate, Content, Current
    <3> QED BY <2>1, <2>3, <3>1, LinesInvStutter DEF Polling
  <2> QED BY <2>4, <2>5, <2>6
<1>3. CASE RenameAway
  BY <1>3, LinesInvStutter DEF RenameAway, Polling, Content
<1>4. CASE Recreate
  <2>1. fd # 0 => Content' = Content
    BY <1>4, EmptySeq, AppendProperties DEF Recreate, Content
  <2> QED BY <1>4, <2>1, LinesInvStutter DEF Recreate, Polling
<1>5. CASE CloseReader \/ Expire
  BY <1>5, LinesInvStutter DEF CloseReader, Expire, Polling, Content
<1> QED
  BY <1>1, <1>2, <1>3, <1>4, <1>5 DEF Environment

(* The follower's steps.                                                   *)
LEMMA LinesInvFollower ==
  ASSUME StateTypeOK, LinesInv, Follower
  PROVE  LinesInv'
<1> USE DEF StateTypeOK
<1>1. CASE StartBytes \/ ReadBytes
  <2>1. args'.mode # "lines"
    BY <1>1 DEF StartBytes, ReadBytes
  <2> QED BY <2>1 DEF LinesInv
<1>2. CASE ReadLast \/ Measure
  <2>1. args.mode # "lines" /\ args' = args
    BY <1>2 DEF ReadLast, Measure, LinesInv
  <2> QED BY <2>1 DEF LinesInv
<1>3. CASE StartLines
  <2> DEFINE c == inodes[named]
  <2>1. /\ pc' = "open" /\ fd' = named /\ named # 0
        /\ out' = InitialRows(Lossy(c), args.n)
        /\ pending' = InitialPending(Lossy(c))
        /\ next' = InitialNext(Lossy(c))
        /\ offset' = Len(c)
        /\ base' = SaturatingSub(LineCount(Lossy(c)), args.n)
        /\ UNCHANGED <<inodes, args, epoch, stale>>
    BY <1>3 DEF StartLines
  <2>2. args.mode = "lines" /\ pc = "start"
    BY <1>3 DEF StartLines
  <2>3. epoch = 0
    BY <2>2 DEF LinesInv
  <2>4. c \in Seq(Text) /\ args.n \in Nat /\ Content' = c
    <3>1. c \in Seq(Byte)
      BY <2>1, ElementOfSeq
    <3> QED BY <2>1, <3>1, TextOfBytes, CountsAssumption DEF Content
  <2> HIDE DEF c, StateTypeOK
  <2>5. /\ next' \in Nat \ {0} /\ base' \in Nat /\ pending' \in Seq(Text)
        /\ out' \in Seq(RowType)
        /\ Kept(c, Len(c), pending', next', out', base')
    BY <2>1, <2>4, KeptInitial
  <2>6. Printed' = out' /\ epoch' \in 0 .. Len(out')
    <3>1. epoch' = 0 /\ Len(out') \in Nat
      BY <2>1, <2>3, <2>5, LenProperties
    <3>2. Printed' = SubSeq(out', 1, Len(out'))
      BY <3>1 DEF Printed
    <3> QED BY <2>5, <3>1, <3>2, SubSeqFull
  <2> QED BY <2>1, <2>3, <2>4, <2>5, <2>6 DEF LinesInv
<1>4. CASE Open
  <2>1. CASE args.mode = "lines"
    <3>1. /\ pc = "open" /\ pc' = "loop" /\ fd' = named /\ fd # 0 /\ named # 0
          /\ epoch' = 0 /\ base' = base
          /\ stale' = (stale \/ (fd # named /\ offset > 0))
          /\ UNCHANGED <<inodes, args, offset, pending, next, out>>
      BY <1>4, <2>1 DEF Open
    <3>2. Content' = inodes[named] /\ inodes[named] \in Seq(Text) /\ Content \in Seq(Text)
      <4>1. inodes[named] \in Seq(Byte) /\ Content \in Seq(Byte)
        BY <3>1, ElementOfSeq, ContentType
      <4> QED BY <3>1, <4>1, TextOfBytes DEF Content
    <3>3. /\ next \in Nat \ {0} /\ base \in Nat /\ epoch = 0 /\ epoch \in 0 .. Len(out)
          /\ pending \in Seq(Text) /\ out \in Seq(RowType)
          /\ ~stale => Kept(Content, offset, pending, next, Printed, base)
      BY <2>1, <3>1 DEF LinesInv
    <3>4. Printed' = Printed
      BY <3>1, <3>3 DEF Printed
    <3>5. ASSUME ~stale' PROVE Kept(inodes[named], offset, pending, next, Printed, base)
      <4>1. ~stale /\ (fd = named \/ ~(offset > 0))
        BY <3>1, <3>5, Zenon
      <4>2. Kept(Content, offset, pending, next, Printed, base)
        BY <3>3, <4>1
      <4>3. CASE fd = named
        BY <4>2, <4>3 DEF Content
      <4>4. CASE fd # named
        <5>1. offset = 0
          BY <4>1, <4>4
        <5> HIDE DEF StateTypeOK
        <5> QED BY <3>2, <3>3, <4>2, <5>1, KeptUnread
      <4> QED BY <4>3, <4>4
    <3> HIDE DEF StateTypeOK
    <3> QED BY <3>1, <3>2, <3>3, <3>4, <3>5 DEF LinesInv
  <2>2. CASE args.mode # "lines"
    BY <1>4, <2>2 DEF Open, LinesInv
  <2> QED BY <2>1, <2>2
<1>5. CASE PathMissing \/ Stop \/ BrokenPipe
  <2>1. pc' = "done" /\ UNCHANGED <<args, inodes, fd, offset, pending, next, out, epoch, base>>
    BY <1>5 DEF PathMissing, Stop, BrokenPipe, EndWith
  <2> QED BY <2>1, LinesInvStutter DEF Polling, Content
<1>6. CASE Nap \/ StatSame \/ StatLonger \/ EmitDone
  <2>1. /\ UNCHANGED <<args, inodes, fd, offset, pending, next, out, epoch, base, stale>>
        /\ pc' \in {"loop", "stat", "read"} /\ Polling
    BY <1>6 DEF Nap, StatSame, StatLonger, EmitDone, Polling
  <2> QED BY <2>1, LinesInvStutter DEF Content
<1>7. CASE StatShorter
  <2>1. CASE args.mode = "lines"
    <3>1. /\ pc' = "loop" /\ fd # 0 /\ offset' = 0 /\ base' = 0 /\ epoch' = Len(out)
          /\ pending' = <<>> /\ next' = 1
          /\ UNCHANGED <<inodes, args, fd, out>>
      BY <1>7, <2>1 DEF StatShorter
    <3>2. Content \in Seq(Text) /\ Content' = Content
      BY <3>1, ContentType, TextOfBytes DEF Content
    <3>3. out \in Seq(RowType) /\ Len(out) \in Nat
      BY <2>1, LenProperties DEF LinesInv
    <3>4. Printed' = <<>>
      <4>1. Len(out) < Len(out) + 1 /\ Len(out) \in Int /\ Len(out) + 1 \in Int
        BY <3>3
      <4> QED BY <3>1, <4>1, SubSeqEmpty DEF Printed
    <3>5. Kept(Content, 0, <<>>, 1, <<>>, 0)
      BY <3>2, KeptRestart
    <3>6. next' \in Nat \ {0} /\ base' \in Nat /\ epoch' \in 0 .. Len(out') /\ pending' \in Seq(Text)
      BY <3>1, <3>3
    <3> HIDE DEF StateTypeOK
    <3> QED BY <3>1, <3>2, <3>3, <3>4, <3>5, <3>6 DEF LinesInv
  <2>2. CASE args.mode # "lines"
    BY <1>7, <2>2 DEF StatShorter, LinesInv
  <2> QED BY <2>1, <2>2
<1>8. CASE ReadLines
  <2>1. /\ fd # 0 /\ args.mode = "lines" /\ pc' = "emit" /\ pc = "read"
        /\ pending' = pending \o Fresh /\ offset' = offset + Len(Fresh)
        /\ UNCHANGED <<inodes, args, fd, next, out, stale, epoch, base>>
    BY <1>8 DEF ReadLines
  <2>2. /\ Content \in Seq(Text) /\ Fresh \in Seq(Text) /\ Content' = Content
        /\ Content \in Seq(Byte)
    <3>1. Content \in Seq(Byte) /\ Fresh \in Seq(Byte)
      BY <2>1, ContentType, FreshType
    <3> QED BY <2>1, <3>1, TextOfBytes DEF Content
  <2>3. /\ next \in Nat \ {0} /\ base \in Nat /\ epoch \in 0 .. Len(out)
        /\ pending \in Seq(Text) /\ out \in Seq(RowType)
        /\ ~stale => Kept(Content, offset, pending, next, Printed, base)
    BY <2>1 DEF LinesInv, Polling
  <2>4. pending' \in Seq(Text)
    BY <2>1, <2>2, <2>3, Joined
  <2>5. Printed' = Printed
    BY <2>1 DEF Printed
  <2>6. ASSUME ~stale
        PROVE  Kept(Content, offset', pending', next, Printed, base)
    <3>1. Kept(Content, offset, pending, next, Printed, base)
      BY <2>3, <2>6
    <3>2. Kept(Content, Len(Content), pending \o SubSeq(Content, offset + 1, Len(Content)),
               next, Printed, base)
      <4> HIDE DEF StateTypeOK
      <4> QED BY <2>2, <2>3, <3>1, KeptRead
    <3>3. offset + Len(Fresh) = Len(Content)
      <4>1. /\ Len(Content) \in Nat /\ offset \in 0 .. Len(Content)
            /\ Len(Content) \in offset .. Len(Content)
        BY <2>2, <3>1, LenProperties DEF Kept
      <4>2. Len(Fresh) = Len(Content) - offset
        <5> HIDE DEF StateTypeOK
        <5> QED BY <2>2, <4>1, Stretch DEF Fresh
      <4> QED BY <4>1, <4>2
    <3> HIDE DEF StateTypeOK
    <3> QED BY <2>1, <3>2, <3>3 DEF Fresh
  <2> HIDE DEF StateTypeOK
  <2> QED BY <2>1, <2>2, <2>3, <2>4, <2>5, <2>6 DEF LinesInv
<1>9. CASE EmitLine
  <2>1. CASE args.mode = "lines"
    <3> DEFINE i == FirstNl(pending)
               row == Row(next, Lossy(SubSeq(pending, 1, i - 1)))
    <3>1. /\ pc = "emit" /\ pc' = "emit" /\ fd # 0 /\ NlAt(pending) # {}
          /\ out' = Append(out, row)
          /\ pending' = SubSeq(pending, i + 1, Len(pending))
          /\ next' = next + 1
          /\ UNCHANGED <<inodes, args, fd, offset, stale, epoch, base>>
      BY <1>9 DEF EmitLine
    <3>2. Content \in Seq(Text) /\ Content' = Content
      BY <3>1, ContentType, TextOfBytes DEF Content
    <3>3. /\ next \in Nat \ {0} /\ base \in Nat /\ epoch \in 0 .. Len(out)
          /\ pending \in Seq(Text) /\ out \in Seq(RowType)
          /\ ~stale => Kept(Content, offset, pending, next, Printed, base)
      BY <2>1, <3>1 DEF LinesInv, Polling
    <3>4. row \in RowType /\ pending' \in Seq(Text)
      <4> HIDE DEF StateTypeOK
      <4>1. /\ SubSeq(pending, i + 1, Len(pending)) \in Seq(Text)
            /\ Row(next, Lossy(SubSeq(pending, 1, i - 1))) \in RowType
        <5> HIDE DEF i
        <5>1. i = FirstNl(pending) /\ next \in Nat
          BY <3>3 DEF i
        <5> QED BY <3>1, <3>3, <5>1, FirstLineType
      <4> QED BY <3>1, <4>1
    <3> HIDE DEF i, row, StateTypeOK
    <3>5. /\ out' \in Seq(RowType) /\ epoch \in 0 .. Len(out')
          /\ Printed \in Seq(RowType) /\ Printed' = Append(Printed, row)
      <4> DEFINE e == epoch + 1
      <4>1. Len(out) \in Nat /\ e \in 1 .. Len(out) + 1 /\ <<row>> \in Seq(RowType)
        BY <3>3, <3>4, LenProperties
      <4>2. out' = out \o <<row>> /\ out' \in Seq(RowType) /\ Len(out') = Len(out) + 1
        BY <3>1, <3>3, <3>4, AppendProperties, AppendIsConcat
      <4> HIDE DEF e
      <4>3. SubSeq(out', e, Len(out')) = SubSeq(out, e, Len(out)) \o <<row>>
        BY <3>3, <4>1, <4>2, CutThroughSeam
      <4>4. Printed \in Seq(RowType)
        BY <3>3, PrintedType DEF Printed
      <4>5. Append(Printed, row) = Printed \o <<row>>
        BY <3>4, <4>4, AppendIsConcat
      <4>6. epoch \in 0 .. Len(out')
        BY <3>3, <4>1, <4>2
      <4>7. Printed' = SubSeq(out', e, Len(out')) /\ Printed = SubSeq(out, e, Len(out))
        BY <3>1 DEF Printed, e
      <4>8. Printed' = Append(Printed, row)
        BY <4>3, <4>5, <4>7
      <4> QED BY <4>2, <4>4, <4>6, <4>8
    <3>6. ASSUME ~stale
          PROVE  Kept(Content, offset, pending', next + 1, Printed', base)
      <4>1. Kept(Content, offset, pending, next, Printed, base)
        BY <3>3, <3>6
      <4>2. /\ i = FirstNl(pending)
            /\ Printed' = Append(Printed, Row(next, Lossy(SubSeq(pending, 1, i - 1))))
        BY <3>5 DEF i, row
      <4> DEFINE c == Content
                 left == pending'
                 new == Printed'
                 rows == Printed
      <4> HIDE DEF c, left, new, rows
      <4>3. /\ Kept(c, offset, pending, next, rows, base)
            /\ c \in Seq(Text) /\ rows \in Seq(RowType)
            /\ left = SubSeq(pending, i + 1, Len(pending))
            /\ new = Append(rows, Row(next, Lossy(SubSeq(pending, 1, i - 1))))
        BY <3>1, <3>2, <3>5, <4>1, <4>2 DEF c, left, new, rows
      <4>4. Kept(c, offset, left, next + 1, new, base)
        BY <3>1, <3>3, <4>2, <4>3, KeptEmitted
      <4> QED BY <4>4 DEF c, left, new
    <3>7. next' \in Nat \ {0} /\ base' \in Nat
      BY <3>1, <3>3
    <3> QED BY <3>1, <3>2, <3>4, <3>5, <3>6, <3>7 DEF LinesInv
  <2>2. CASE args.mode # "lines"
    BY <1>9, <2>2 DEF EmitLine, LinesInv
  <2> QED BY <2>1, <2>2
<1> QED
  BY <1>1, <1>2, <1>3, <1>4, <1>5, <1>6, <1>7, <1>8, <1>9 DEF Follower

(* It holds before the first step ...                                      *)
LEMMA LinesInvInit == Init => LinesInv
<1> SUFFICES ASSUME Init PROVE LinesInv
  OBVIOUS
<1>1. /\ pc = "start" /\ next = 1 /\ base = 0 /\ pending = <<>> /\ out = <<>> /\ epoch = 0
  BY DEF Init
<1>2. pending \in Seq(Text) /\ out \in Seq(RowType) /\ epoch \in 0 .. Len(out)
  BY <1>1
<1>3. ~(pc = "open" \/ Polling)
  BY <1>1 DEF Polling
<1> QED BY <1>1, <1>2, <1>3 DEF LinesInv

(* ... and every step keeps it.                                            *)
LEMMA LinesInvStep == StateTypeOK /\ LinesInv /\ [Next]_vars => LinesInv'
<1> SUFFICES ASSUME StateTypeOK, LinesInv, [Next]_vars PROVE LinesInv'
  OBVIOUS
<1>1. CASE Done \/ UNCHANGED vars
  BY <1>1, LinesInvStutter DEF Done, vars, Polling, Content
<1> QED
  BY <1>1, LinesInvWriter, LinesInvFollower DEF Next

(* What is to be shown follows from it.                                    *)
LEMMA RowsMatchFileHolds == StateTypeOK /\ LinesInv => RowsMatchFile
<1> SUFFICES ASSUME StateTypeOK, LinesInv, args.mode = "lines", Following
             PROVE  /\ offset <= Len(Content)
                    /\ next - 1 + Cardinality(NlAt(pending))
                         = Cardinality(NlAt(SubSeq(Content, 1, offset)))
                    /\ \A k \in base + 1 .. next - 1 : Shown(Content, k, Printed)
                    /\ InOrder(Printed)
  BY Zenon DEF RowsMatchFile, NumberingMatchesFile, LinesFaithful, Shown, InOrder, Printed
<1>1. Kept(Content, offset, pending, next, Printed, base) /\ next \in Nat
  BY DEF LinesInv, Following
<1>2. fd # 0
  BY DEF StateTypeOK, Following, Polling
<1>3. Content \in Seq(Text)
  BY <1>2, ContentType, TextOfBytes
<1>4. next - 1 + Cardinality(NlAt(pending)) = Cardinality(NlAt(SubSeq(Content, 1, offset)))
  BY <1>1, <1>3, KeptNumbers
<1>5. offset <= Len(Content)
  BY <1>1, <1>3, LenProperties DEF Kept
<1> QED BY <1>1, <1>4, <1>5 DEF Kept

(* The rows of lines mode are the lines of the file, under their numbers,  *)
(* in order: every one that was completed since printing of this content   *)
(* began, an unfinished one printed again under its number when it is      *)
(* completed.                                                              *)
THEOREM RowsMatch == Spec => []RowsMatchFile
<1> QED
  BY StateTypeInit, StateTypeStep, LinesInvInit, LinesInvStep, RowsMatchFileHolds, PTL
  DEF Spec

(* In bytes mode nothing is numbered; until the first rewrite there is one *)
(* file, and what the follower consumed of it is still there.              *)
Unrewritten ==
  /\ args.mode # "lines" => next = 1
  /\ pc = "start" => next = 1
  /\ rewrites = 0 => Len(inodes) = 1 /\ named = 1 /\ ~stale

(* It holds before the first step ...                                      *)
LEMMA UnrewrittenInit == Init => Unrewritten
BY DEF Init, Unrewritten

(* ... and every step keeps it.                                            *)
LEMMA UnrewrittenStep == StateTypeOK /\ Unrewritten /\ [Next]_vars => Unrewritten'
<1> SUFFICES ASSUME StateTypeOK, Unrewritten, [Next]_vars PROVE Unrewritten'
  OBVIOUS
<1> USE DEF Unrewritten
<1>0. inodes \in Seq(Seq(Byte)) /\ rewrites \in Nat /\ fd \in 0 .. Len(inodes) /\ fd \in Int
      /\ (pc \notin {"start", "done"} => fd # 0)
  BY DEF StateTypeOK
<1>1. ASSUME NEW chunk \in Chunks, Append_(chunk) PROVE Unrewritten'
  BY <1>0, <1>1 DEF Append_, Current
<1>2. CASE Truncate \/ RenameAway
  <2>1. rewrites' = rewrites + 1 /\ UNCHANGED <<args, pc, next>>
    BY <1>2 DEF Truncate, RenameAway
  <2> QED BY <1>0, <2>1
<1>3. CASE Recreate
  BY <1>3 DEF Recreate
<1>4. CASE CloseReader \/ Expire
  BY <1>4 DEF CloseReader, Expire
<1>5. CASE StartLines \/ StartBytes \/ ReadLast \/ Measure
  BY <1>5 DEF StartLines, StartBytes, ReadLast, Measure
<1>6. CASE Open
  <2>1. /\ pc' = "loop" /\ pc = "open"
        /\ UNCHANGED <<args, next, inodes, named, rewrites>>
        /\ stale' = (stale \/ (fd # named /\ offset > 0))
    BY <1>6 DEF Open
  <2>2. ASSUME rewrites = 0 PROVE ~stale'
    <3>1. Len(inodes) = 1 /\ named = 1 /\ ~stale
      BY <2>2
    <3>2. fd # 0
      BY <1>0, <2>1
    <3>3. fd = named
      BY <1>0, <3>1, <3>2
    <3> QED BY <2>1, <3>1, <3>3
  <2> QED BY <2>1, <2>2
<1>7. CASE PathMissing \/ Stop \/ BrokenPipe
  BY <1>7 DEF PathMissing, Stop, BrokenPipe, EndWith
<1>8. CASE Nap \/ StatSame \/ StatLonger \/ EmitDone
  BY <1>8 DEF Nap, StatSame, StatLonger, EmitDone
<1>9. CASE StatShorter \/ ReadLines \/ ReadBytes
  BY <1>9 DEF StatShorter, ReadLines, ReadBytes
<1>11. CASE EmitLine
  <2>1. args.mode = "lines"
    BY <1>11, ModesAssumption DEF EmitLine, StateTypeOK
  <2> QED BY <1>11, <2>1 DEF EmitLine
<1>10. CASE Done \/ UNCHANGED vars
  BY <1>10 DEF Done, vars
<1> QED
  BY <1>1, <1>2, <1>3, <1>4, <1>5, <1>6, <1>7, <1>8, <1>9, <1>10,
     <1>11
  DEF Next, Environment, Follower

(* The next number falls in StatShorter alone, and poll_growth reports     *)
(* Truncated only when the file is shorter than what it consumed of it.    *)
LEMMA RestartStep ==
  StateTypeOK /\ LinesInv /\ Unrewritten /\ [Next]_vars => [next' < next => rewrites > 0]_vars
<1> SUFFICES ASSUME StateTypeOK, LinesInv, Unrewritten, [Next]_vars, next' < next
             PROVE  rewrites > 0
  OBVIOUS
<1>1. next \in Nat \ {0}
  BY DEF LinesInv, Unrewritten
<1>2. CASE UNCHANGED next
  BY <1>1, <1>2
<1>3. CASE StartLines
  <2>1. next = 1 /\ args'.mode = "lines"
    BY <1>3 DEF StartLines, Unrewritten
  <2>2. next' \in Nat \ {0}
    BY <2>1, LinesInvStep DEF LinesInv
  <2> QED BY <2>1, <2>2
<1>4. CASE StatShorter
  <2>1. CASE args.mode = "lines" /\ rewrites = 0
    <3>1. ~stale /\ pc = "stat" /\ fd # 0 /\ Len(Content) < offset
      BY <1>4, <2>1 DEF StatShorter, Unrewritten, StateTypeOK
    <3>2. offset \in 0 .. Len(Content)
      BY <2>1, <3>1 DEF LinesInv, Polling, Kept
    <3>3. Len(Content) \in Nat
      BY <3>1, ContentType, LenProperties
    <3> QED BY <3>1, <3>2, <3>3
  <2>2. CASE args.mode # "lines"
    <3>1. UNCHANGED next
      BY <1>4, <2>2 DEF StatShorter
    <3> QED BY <1>2, <3>1
  <2>3. CASE rewrites # 0
    BY <2>3 DEF StateTypeOK
  <2> QED BY <2>1, <2>2, <2>3
<1>5. CASE EmitLine
  <2>1. next' = next + 1
    BY <1>5 DEF EmitLine
  <2> QED BY <1>1, <2>1
<1>6. CASE Environment
  BY <1>2, <1>6
  DEF Environment, Append_, Truncate, RenameAway, Recreate, CloseReader, Expire
<1>7. ASSUME Follower, ~StartLines, ~StatShorter, ~EmitLine PROVE UNCHANGED next
  BY <1>7
  DEF Follower, StartBytes, ReadLast, Measure, Open, PathMissing, Stop, Nap, StatSame,
      StatLonger, ReadLines, ReadBytes, EmitDone, BrokenPipe, EndWith
<1>8. CASE Done \/ UNCHANGED vars
  BY <1>2, <1>8 DEF Done, vars
<1> QED
  BY <1>2, <1>3, <1>4, <1>5, <1>6, <1>7, <1>8 DEF Next

(* A follower of a file that is only appended to never starts over.        *)
THEOREM RestartsAreRewrites == Spec => RestartNeedsRewrite
<1> QED
  BY StateTypeInit, StateTypeStep, LinesInvInit, LinesInvStep, UnrewrittenInit,
     UnrewrittenStep, RestartStep, PTL
  DEF Spec, RestartNeedsRewrite
=============================================================================
