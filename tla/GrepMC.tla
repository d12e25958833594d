------------------------------- MODULE GrepMC -------------------------------
(* Values of Grep's constants for TLC: two files and standard input.       *)
EXTENDS Grep, TLC

Lines(n) == [1 .. n -> BOOLEAN]

File(place, content) == [place |-> place, content |-> content]
Tree(c, p, d, e) == 1 :> File("walked", c) @@ 2 :> File(p, d) @@ Stdin :> File("named", e)

Yes == Text(<<TRUE>>)
No == Text(<<FALSE>>)

\* Five lines are the fewest in which windows of one line overlap, touch or
\* leave a gap.  Every such file is searched beside a simple one, and some of
\* them beside every kind of second file.
Long == {Text(l) : l \in Lines(5)}
Some == {Text(<<TRUE, TRUE, FALSE, FALSE, FALSE>>), Text(<<TRUE, FALSE, FALSE, FALSE, TRUE>>)}
Short == {Text(<<>>), No, Text(<<FALSE, TRUE>>), Opaque("binary"), Opaque("invalid")}
MCTrees ==
  {Tree(c, "walked", Yes, No) : c \in Long}
    \cup {Tree(c, "walked", d, Yes) : c \in Some, d \in Short}
    \cup {Tree(c, p, Yes, Yes) : c \in Some, p \in {"hidden", "skipped"}}
MCContents == {Text(<<TRUE, FALSE, TRUE>>), Opaque("gone")}

MCLimits == {[kind |-> "none", n |-> 0], [kind |-> "explicit", n |-> 2],
             [kind |-> "default", n |-> 3]}

Opt(mode, before, after, capped, heading, stdin, l) ==
  [mode |-> mode, before |-> before, after |-> after, capped |-> capped, max |-> 0,
   heading |-> heading, hidden |-> stdin, stdin |-> stdin, limit |-> l]

MCOptions ==
  {Opt("rows", b, a, FALSE, h, s, l) : b \in {0, 1}, a \in {0, 1}, h \in BOOLEAN,
                                       s \in BOOLEAN, l \in MCLimits}
  \cup {Opt(m, 0, 0, c, TRUE, TRUE, l) : m \in {"count", "files", "total"},
                                         c \in BOOLEAN, l \in MCLimits}

Src == {0, 1, 2}
MCRow == {RowOf(k, s, n) : k \in {"match", "context", "path", "count", "total"},
                           s \in Src, n \in 0 .. 8}
MCDeco == {RowOf(k, s, 0) : k \in {"blank", "heading", "sep"}, s \in Src}
=============================================================================
