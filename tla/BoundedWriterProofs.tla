------------------------- MODULE BoundedWriterProofs -------------------------
(***************************************************************************)
(* Proofs about BoundedWriter, for every limit, every set of rows and      *)
(* decorations, and every client.                                          *)
(***************************************************************************)
EXTENDS BoundedWriter, SequenceTheorems, TLAPS

USE DEF writerVars, writerAll

(* What a step leaves on stdout: the same, or one more entry.              *)
LEMMA AppendEntry ==
  ASSUME NEW S, NEW s \in Seq(S), NEW e \in S
  PROVE  /\ Append(s, e) \in Seq(S)
         /\ Len(s) \in Nat /\ Len(Append(s, e)) = Len(s) + 1
         /\ \A i \in 1 .. Len(s) : Append(s, e)[i] = s[i]
         /\ Append(s, e)[Len(s) + 1] = e
BY AppendProperties, LenProperties

LEMMA EntryRow ==
  WriterTypeOK => \A i \in 1 .. Len(stdout) : stdout[i].row \in Nat
<1> SUFFICES ASSUME WriterTypeOK, NEW i \in 1 .. Len(stdout)
             PROVE  stdout[i].row \in Nat
  OBVIOUS
<1>1. stdout[i] \in Entry
  BY ElementOfSeq DEF WriterTypeOK
<1> QED BY <1>1 DEF Entry

(* The types are kept.                                                     *)
LEMMA WriterTypeStep == WriterTypeOK /\ [WriterNext]_writerAll => WriterTypeOK'
<1> SUFFICES ASSUME WriterTypeOK, [WriterNext]_writerAll PROVE WriterTypeOK'
  OBVIOUS
<1> USE DEF WriterTypeOK
<1>1. ASSUME NEW row \in Row, WriteLine(row) PROVE WriterTypeOK'
  <2>1. offered' \in Seq(Row) /\ Len(offered') \in Nat
    BY <1>1, AppendEntry, LenProperties DEF WriteLine
  <2>2. CASE AtLimit
    BY <1>1, <2>1, <2>2 DEF WriteLine
  <2>3. CASE ~AtLimit
    <3>1. [row |-> Len(offered'), text |-> row] \in Entry
      BY <2>1 DEF Entry
    <3>2. stdout' \in Seq(Entry)
      BY <1>1, <2>3, <3>1, AppendEntry DEF WriteLine
    <3> QED BY <1>1, <2>1, <2>3, <3>2 DEF WriteLine
  <2> QED BY <2>2, <2>3
<1>2. ASSUME NEW text \in Deco, WriteDecoration(text) PROVE WriterTypeOK'
  <2>1. [row |-> 0, text |-> text] \in Entry
    BY DEF Entry
  <2>2. stdout' \in Seq(Entry)
    BY <1>2, <2>1, AppendEntry DEF WriteDecoration
  <2> QED BY <1>2, <2>2 DEF WriteDecoration
<1>3. CASE CloseReader
  BY <1>3 DEF CloseReader
<1>4. CASE UNCHANGED writerAll
  BY <1>4
<1> QED BY <1>1, <1>2, <1>3, <1>4 DEF WriterNext

(* The limit never changes, so a refusal is final: RowsArePrefix and       *)
(* CutIsAnnounced become inductive once "truncated only at the limit" and  *)
(* "nothing withheld before" are kept with them.                           *)
WriterInv ==
  /\ RowsArePrefix
  /\ truncated => AtLimit /\ lines_written < Len(offered)
  /\ ~truncated => lines_written = Len(offered)
  /\ notices = IF truncated /\ Announced THEN 1 ELSE 0

(* A refused row leaves stdout and the count alone.                        *)
LEMMA RefusedRow ==
  ASSUME WriterTypeOK, WriterInv, NEW row \in Row, WriteLine(row), AtLimit
  PROVE  WriterInv'
<1> USE DEF WriterTypeOK
<1>1. /\ offered' = Append(offered, row) /\ truncated' = TRUE
      /\ notices' = IF ~truncated /\ Announced THEN notices + 1 ELSE notices
      /\ UNCHANGED <<limit, lines_written, stdout>>
  BY DEF WriteLine
<1>2. /\ Len(offered) \in Nat /\ Len(offered') = Len(offered) + 1
      /\ \A k \in 1 .. Len(offered) : offered'[k] = offered[k]
  BY <1>1, AppendEntry
<1>3. lines_written <= Len(offered)
  BY DEF WriterInv, RowsArePrefix
<1>4. RowsArePrefix'
  <2>1. ASSUME NEW i \in 1 .. Len(stdout), IsRow(i)
        PROVE  stdout[i].row <= lines_written
               /\ stdout[i].text = offered'[stdout[i].row]
    <3>1. stdout[i].row <= lines_written /\ stdout[i].text = offered[stdout[i].row]
      BY <2>1 DEF WriterInv, RowsArePrefix
    <3>2. stdout[i].row \in 1 .. Len(offered)
      <4>1. stdout[i].row \in Nat /\ stdout[i].row # 0
        BY <2>1, EntryRow DEF IsRow
      <4> QED BY <1>2, <1>3, <3>1, <4>1
    <3> QED BY <1>2, <3>1, <3>2
  <2>2. lines_written' <= Len(offered')
    BY <1>1, <1>2, <1>3
  <2>3. RowsArePrefix
    BY DEF WriterInv
  <2> QED BY <1>1, <2>1, <2>2, <2>3 DEF RowsArePrefix, IsRow
<1>5. AtLimit' /\ lines_written' < Len(offered')
  BY <1>1, <1>2, <1>3 DEF AtLimit
<1>6. notices' = IF truncated' /\ Announced' THEN 1 ELSE 0
  BY <1>1 DEF WriterInv, Announced
<1> QED BY <1>1, <1>4, <1>5, <1>6 DEF WriterInv

(* A row that is written is the next one, so the printed rows grow by one. *)
LEMMA WrittenRow ==
  ASSUME WriterTypeOK, WriterInv, NEW row \in Row, WriteLine(row), ~AtLimit
  PROVE  WriterInv'
<1> USE DEF WriterTypeOK
<1> DEFINE entry == [row |-> Len(offered'), text |-> row]
<1>1. /\ offered' = Append(offered, row)
      /\ stdout' = Append(stdout, entry)
      /\ lines_written' = lines_written + 1
      /\ UNCHANGED <<limit, truncated, notices>>
  BY DEF WriteLine
<1>2. ~truncated /\ lines_written = Len(offered)
  BY DEF WriterInv
<1>3. /\ Len(offered) \in Nat /\ Len(offered') = Len(offered) + 1
      /\ \A k \in 1 .. Len(offered) : offered'[k] = offered[k]
      /\ offered'[Len(offered) + 1] = row
  BY <1>1, AppendEntry
<1>4. entry \in Entry /\ entry.row = lines_written + 1 /\ entry.text = row
  BY <1>2, <1>3 DEF Entry
<1> HIDE DEF entry
<1>5. /\ Len(stdout) \in Nat /\ Len(stdout') = Len(stdout) + 1
      /\ \A i \in 1 .. Len(stdout) : stdout'[i] = stdout[i]
      /\ stdout'[Len(stdout) + 1] = entry
  BY <1>1, <1>4, AppendEntry
<1>6. \A i \in 1 .. Len(stdout) : stdout[i].row \in Nat
  BY EntryRow
<1>7. \A i \in 1 .. Len(stdout') :
         i \in 1 .. Len(stdout) \/ i = Len(stdout) + 1
  BY <1>5
<1>8. ASSUME NEW i \in 1 .. Len(stdout'), stdout'[i].row # 0
      PROVE  /\ stdout'[i].row <= lines_written'
             /\ stdout'[i].text = offered'[stdout'[i].row]
  <2>1. CASE i \in 1 .. Len(stdout)
    <3>1. /\ stdout[i].row <= lines_written /\ stdout[i].row # 0
          /\ stdout[i].text = offered[stdout[i].row]
      BY <1>5, <1>8, <2>1 DEF WriterInv, RowsArePrefix, IsRow
    <3>2. stdout[i].row \in 1 .. Len(offered)
      BY <1>2, <1>3, <1>6, <2>1, <3>1
    <3> QED BY <1>1, <1>2, <1>3, <1>5, <2>1, <3>1, <3>2
  <2>2. CASE i = Len(stdout) + 1
    BY <1>1, <1>2, <1>3, <1>4, <1>5, <2>2
  <2> QED BY <1>7, <2>1, <2>2
<1>9. ASSUME NEW k \in 1 .. lines_written'
      PROVE  \E i \in 1 .. Len(stdout') : stdout'[i].row = k
  <2>1. CASE k \in 1 .. lines_written
    <3>1. PICK i \in 1 .. Len(stdout) : stdout[i].row = k
      BY <2>1 DEF WriterInv, RowsArePrefix
    <3> QED BY <1>5, <3>1
  <2>2. CASE k = lines_written + 1
    BY <1>4, <1>5, <2>2
  <2>3. k \in 1 .. lines_written \/ k = lines_written + 1
    BY <1>1
  <2> QED BY <2>1, <2>2, <2>3
<1>10. ASSUME NEW i \in 1 .. Len(stdout'), NEW j \in 1 .. Len(stdout'),
              i < j, stdout'[i].row # 0, stdout'[j].row # 0
       PROVE  stdout'[i].row < stdout'[j].row
  <2>1. i \in 1 .. Len(stdout)
    BY <1>5, <1>10
  <2>2. CASE j \in 1 .. Len(stdout)
    BY <1>5, <1>10, <2>1, <2>2 DEF WriterInv, RowsArePrefix, IsRow
  <2>3. CASE j = Len(stdout) + 1
    <3>1. stdout[i].row <= lines_written
      BY <1>5, <1>10, <2>1 DEF WriterInv, RowsArePrefix, IsRow
    <3> QED BY <1>4, <1>5, <1>6, <2>1, <2>3, <3>1
  <2> QED BY <1>7, <2>2, <2>3
<1>11. (limit.kind # "none" => lines_written <= limit.n)'
  BY <1>1, LimitsAssumption DEF AtLimit, LimitType
<1>12. lines_written' <= Len(offered')
  BY <1>1, <1>2, <1>3
<1>13. RowsArePrefix'
  BY <1>8, <1>9, <1>10, <1>11, <1>12, Zenon DEF RowsArePrefix, IsRow
<1> QED BY <1>1, <1>2, <1>3, <1>13 DEF WriterInv, Announced

(* A decoration is no row and moves none.                                  *)
LEMMA WrittenDecoration ==
  ASSUME WriterTypeOK, WriterInv, NEW text \in Deco, WriteDecoration(text)
  PROVE  WriterInv'
<1> USE DEF WriterTypeOK
<1>1. UNCHANGED <<limit, lines_written, truncated, notices, offered>>
  BY DEF WriteDecoration
<1>2. CASE stdout' = stdout
  BY <1>1, <1>2 DEF WriterInv, RowsArePrefix, IsRow, AtLimit, Announced
<1>3. CASE stdout' = Append(stdout, [row |-> 0, text |-> text])
  <2>1. [row |-> 0, text |-> text] \in Entry
    BY DEF Entry
  <2>2. /\ Len(stdout) \in Nat /\ Len(stdout') = Len(stdout) + 1
        /\ \A i \in 1 .. Len(stdout) : stdout'[i] = stdout[i]
        /\ stdout'[Len(stdout) + 1].row = 0
    BY <1>3, <2>1, AppendEntry
  <2>3. \A i \in 1 .. Len(stdout') :
           stdout'[i].row # 0 => i \in 1 .. Len(stdout) /\ stdout'[i] = stdout[i]
    BY <2>2
  <2>4. \A k \in 1 .. lines_written :
           \E i \in 1 .. Len(stdout') : stdout'[i].row = k
    <3>1. ASSUME NEW k \in 1 .. lines_written
          PROVE  \E i \in 1 .. Len(stdout') : stdout'[i].row = k
      <4>1. PICK i \in 1 .. Len(stdout) : stdout[i].row = k
        BY DEF WriterInv, RowsArePrefix
      <4> QED BY <2>2, <4>1
    <3> QED BY <3>1
  <2>5. RowsArePrefix'
    BY <1>1, <2>3, <2>4 DEF WriterInv, RowsArePrefix, IsRow
  <2> QED BY <1>1, <2>5 DEF WriterInv, AtLimit, Announced
<1> QED BY <1>2, <1>3 DEF WriteDecoration

LEMMA WriterInvStep ==
  WriterTypeOK /\ WriterInv /\ [WriterNext]_writerAll => WriterInv'
<1> SUFFICES ASSUME WriterTypeOK, WriterInv, [WriterNext]_writerAll PROVE WriterInv'
  OBVIOUS
<1>1. CASE CloseReader \/ UNCHANGED writerAll
  BY <1>1 DEF CloseReader, WriterInv, RowsArePrefix, IsRow, AtLimit, Announced
<1> QED
  BY <1>1, RefusedRow, WrittenRow, WrittenDecoration DEF WriterNext

LEMMA WriterInitial == WriterInit => WriterTypeOK /\ WriterInv
<1> SUFFICES ASSUME WriterInit PROVE WriterTypeOK /\ WriterInv
  OBVIOUS
<1>1. limit.kind # "none" => lines_written <= limit.n
  BY LimitsAssumption DEF WriterInit, LimitType
<1>2. WriterTypeOK
  BY EmptySeq DEF WriterInit, WriterTypeOK
<1>3. RowsArePrefix
  BY <1>1 DEF WriterInit, RowsArePrefix, IsRow
<1> QED
  BY <1>2, <1>3 DEF WriterInit, WriterInv, Announced

(* The type invariant of the writer.                                       *)
THEOREM WriterTypes == WriterSpec => []WriterTypeOK
BY WriterInitial, WriterTypeStep, PTL DEF WriterSpec

(* Every client of the writer prints a prefix of its rows, unchanged, in   *)
(* order and within the limit.                                             *)
THEOREM PrintsAPrefix == WriterSpec => []RowsArePrefix
<1>1. WriterInv => RowsArePrefix
  BY DEF WriterInv
<1> QED
  BY <1>1, WriterInitial, WriterTypeStep, WriterInvStep, PTL DEF WriterSpec

(* No client can withhold a row silently under a limit nobody asked for,   *)
(* nor be told of a cut that did not happen.                               *)
THEOREM CutsAreAnnounced == WriterSpec => []CutIsAnnounced
<1>1. WriterTypeOK /\ WriterInv => CutIsAnnounced
  BY LenProperties
  DEF WriterTypeOK, WriterInv, RowsArePrefix, CutIsAnnounced, Announced
<1> QED
  BY <1>1, WriterInitial, WriterTypeStep, WriterInvStep, PTL DEF WriterSpec

(* After a cut nothing more is printed, decorations included.              *)
THEOREM SilentAfterCut == WriterSpec => NothingAfterCut
<1>1. WriterTypeOK /\ WriterInv /\ [WriterNext]_writerAll
        => [truncated => UNCHANGED stdout]_writerAll
  BY DEF WriterInv, WriterNext, WriteLine, WriteDecoration, CloseReader
<1> QED
  BY <1>1, WriterInitial, WriterTypeStep, WriterInvStep, PTL
  DEF WriterSpec, NothingAfterCut
=============================================================================
