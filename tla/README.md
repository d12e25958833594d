# TLA+ models of sak

`sak` is a command-line tool of some forty read-only commands for people and
coding agents: files, documents, git, certificates, Kubernetes and a dozen
other services.  It also has a hook that a coding agent's harness runs before
each shell command, to send the agent to `sak` instead.  This directory holds
TLA+ models of its parts, the TLC configurations that check them, and proofs
that TLAPS checks.

    cd tla
    tlc -config TailFollow.cfg TailFollowMC      # model-check one run
    tlapm TailFollowProofs.tla                   # check the proofs of a module

Every run and its properties, the source lines behind every definition, the
mutation each property was seen to catch, the findings and the hazards are
listed in `PROJECT.json`.

- [Inventory](#inventory)
- [Modules](#modules)
- [Runs, bounds and what they show](#runs-bounds-and-what-they-show)
- [Fairness](#fairness)
- [What is proved](#what-is-proved)
- [Findings](#findings)
- [What is abstracted](#what-is-abstracted)
- [Not modelled](#not-modelled)
- [Plan](#plan)

## Inventory

An invocation of `sak` is one process: `main` parses the command line and calls
one command's `run`, which returns an `Outcome` (`Found` 0, `NotFound` 1,
`Partial` 2) or an error (exit 2; a closed pipe is exit 0).  Almost all commands
print through `BoundedWriter`, which cuts the rows at `--limit`.  Nothing is
shared between invocations except the hook's log.  What makes the program
hard is therefore mostly outside of it: files, clusters and logs change
between two of its steps, and inputs are nested.

| component | state it keeps | operations | interacts with | hard behaviour | what makes it correct |
|---|---|---|---|---|---|
| output (`src/output.rs`) | lines written, truncated, notice given | `write_line`, `write_decoration`, `flush` | every command that prints | rows, decorations and refused rows in any order; reader goes away | the rows on stdout are a prefix of those offered, within the limit; a cut is announced just when nobody asked for it; silence after it |
| fs tail (`fs/tail.rs`) | open file, offset, pending bytes, line number | initial read, poll, truncate/rotate, window | writer of the file, reader of stdout | growth between stat and read, truncation, rotation, partial lines and characters | numbering matches the file, each line or byte printed once and in order, the window ends the run, data is eventually printed |
| fs grep (`fs/grep.rs`) | sorted file list, rows of the current file, what was shown | walk, search, print, count, total | BoundedWriter, files changing after the walk | overlapping windows, limit in mid-file, file gone after the walk | all lines near matches once and in order, gaps marked, rows under their heading, exit code true |
| fs, walks (`duplicates find glob largest tree`) | entries found, sizes, hashes | walk, stat, hash, sort, cut | a tree other programs change | an entry gone between the listing and its stat; a size read before the hash | nothing named that never was as asked, nothing left out that was so all the time; duplicates equal |
| fs, readers (`cut head read stat wc`) | the line or file reached, what was counted | per-file read | files that come and go | ranges from the end, columns of several files, one file failing among several | totals add up, a range and its exclusion make up the file, cells stand under their names |
| value (`src/value`) | none | parse path, resolve, build path, keys, flatten, schema, grep, diff, merge | json, config | keys that contain separators, arrays in paths, empty containers, containers against scalars | printed paths lead back, listings whole, a diff rebuilds, a merge lays layers |
| json (`src/json`) | the parsed inputs | 23 commands over them | value, BoundedWriter | several inputs one of which is bad; errors after output; ordering mixed types | exit codes true, sorts are orders, counts add up, verdict on all files |
| config (`src/config`) | the parsed inputs and their formats | 15 commands, convert, merge | value, json's tables | documents a format cannot say | as json |
| csv (`src/csv`) | header, one pass of records | headers, query, stats, validate | several tables | ragged and torn records, columns in another order in each file | rows stand under their headings, statistics independent of order, verdict true |
| hook session (`hook/mod.rs`, `bypass_log.rs`, `muse_code.rs`) | the log file | flag, terminal, stdin, decide, log, answer | harness, user, other hooks, disk | concurrent appends, short writes, killed hooks, bad input | decision a function of the input alone, nothing runs unasked, log faithful, always an answer |
| hook classifier (`hook/claude_code.rs`, `rule.rs`) | none | classify, check, bypass marker | rule tables | wrappers, scripts and substitutions in each other; two traversals that must agree | a read is found just when the shell would run it; the marker likewise |
| hook scanners (`hook/shell_text.rs`, parts of `claude_code.rs`) | none | here-documents, redirections, split, tokens, substitutions | classifier | quotes, escapes, comments and documents in any order; five scanners in a row | the commands, words and substitutions read are those of the shell |
| hook rule tables (`*/hook.rs`) | none | match words | classifier | many special cases | each read named; nothing that writes named |
| k8s, several requests (`get owners describe children endpoints logs top`) | what earlier calls returned | one API request per step | API server, controllers | objects deleted, recreated or adopted between two calls; a call failing | chains real and whole, lists true, exit codes true, walks end |
| k8s triage (`failing pending not_ready restarts images env containers events`, `get -o table`) | none | one list and a filter | API server, kubelet | phase, conditions and container states disagree while the kubelet updates them | the status column is that of the containers; the commands agree; the worst are not cut |
| k8s access and schema (`can-i contexts kinds schema`) | none | one request | API server | – | refusals, exits |
| git (`src/git`) | the walk's position, what it gathered | walk, blame, diff, log, refs, status | libgit2, other git commands | clock skew in walks, HEAD moving, merges and renames, HEAD against the working tree | every commit in the range counted, differences that turn one tree into the other |
| cert (`src/cert`) | the certificates read, the chain so far | inspect, expiring, from-kubeconfig, from-yaml, verify-chain | files | several possible chains, torn blocks, time zones | a good verdict has a path behind it, and a path gives a good verdict; alerts are not missed |
| prom, loki, `sync_http`, `duration` | the first answer of histogram | one GET per command, two for histogram | servers | status codes, error bodies, quotes and newlines in labels, counters growing between two queries | labels readable back, nothing alarming left out, buckets of one moment, 404 is 1, failure 2 |
| gh, `local_bin` | none | build arguments, check them, spawn gh, lay out its answer | the gh binary, GitHub | flags joined, clustered, doubled or behind `--`; mutations hidden in GraphQL | only reads are sent, each read is, the answer told as it is |
| helm, nix (and `src/local_bin.rs`) | none | spawn an allow-listed command, lay out what it wrote | local programs | a program that fails, finds nothing, or writes another shape than usual | a row is an entry, whole and in its columns; exits true; no command is stopped at its own allow-list |
| talos | what earlier nodes answered | the same, for every node of a fleet | talosctl, nodes | nodes that go down in between, files that are not there | every node is told of, by its own section; exit 1 only if all failed |
| docker, lxc | whether a log is framed | one request on a socket, for logs two | daemons | a container recreated between the two, frames, answers without a field | a log told whole and under its streams, a row for everything |
| sqlite | a read-only connection | tables, schema, query | database | statement text | only reads run |
| linux (`src/linux`) | what was read of /proc so far | three files per process, a walk of /proc/sys, four tables of sockets, one file each for the rest | kernel | processes ending and numbers reused while listed | a row is of one process, nobody who is there is lost, no processor has what another's is |
| hash, base64 | what was checked or read so far | file by file | files | files replaced between list and check, unreadable ones, limits | a good verdict is true of what was looked at; what is encoded decodes back |
| main, input | none | dispatch, exit code | all | closed pipe | – |

## Modules

| module | models | EXTENDS / INSTANCE |
|---|---|---|
| `BoundedWriter` | `src/output.rs`: the writer every command prints through, and the reader of stdout | – |
| `BoundedWriterProofs` | what holds for every client | `BoundedWriter` |
| `Grep` | `fs grep`, a client of the writer, and files changing under it | `BoundedWriter`, `Numbers` |
| `GrepProofs` | | `Grep`, `BoundedWriterProofs`, `NumbersProofs` |
| `Numbers` | the numbers of a finite set, in order | – |
| `NumbersProofs` | the lemmas about them, and the least number of a set | `Numbers` |
| `TailFollow` | `fs tail --follow`, the program writing the file and the reader of stdout | `Numbers` |
| `TailFollowProofs` | | `TailFollow`, `NumbersProofs` |
| `FileWalks` | `fs glob`, `find`, `largest`, `duplicates`, `tree` and the walk they share, in a tree that others change | – |
| `FileWalksProofs` | | `FileWalks`, `NumbersProofs` |
| `FileReads` | `fs read`, `head`, `wc`, `cut`, `stat` over several files that others change | – |
| `Tables` | `sak csv` | – |
| `HookSession` | invocations of the hook, the bypass log, harness, user and disk | – |
| `HookSessionProofs` | | `HookSession` |
| `HookClassifier` | classifying a command of words, through its constructs | – |
| `ShellText` | the scanners, over characters | – |
| `HookMC` | sessions and both readers of a command, in one run | `HookSession`; instances of `ShellText`, `HookClassifier` |
| `GhApi` | the argument vectors of `gh`, GraphQL documents, the allow-list | – |
| `RuleGuards` | the predicates of the hook's rules | `GhApi` |
| `HookRules` | the eighteen tables of rules, and the first that matches | `RuleGuards` |
| `GhRequests` | the commands of `sak gh` and what gh answers | `GhApi` |
| `Cluster` | the k8s commands of several requests, and the cluster changing | – |
| `ClusterProofs` | | `Cluster` |
| `PodTriage` | the k8s commands of one request, and the kubelet | – |
| `CertChain` | `cert verify-chain` | `Numbers` |
| `CertChainProofs` | | `CertChain`, `NumbersProofs` |
| `CertFiles` | the other commands of `sak cert` | – |
| `GitHistory` | `sak git`, and HEAD moving | – |
| `MetricRows` | what `sak prom`, `prom am` and `sak loki` make of an answer; durations | – |
| `Metrics` | their arguments, requests and exits, and what is observed in between | `MetricRows` |
| `LocalTools` | `sak helm`, `sak nix` | – |
| `Fleet` | `sak talos`, and the nodes changing | – |
| `Containers` | `sak docker`, `sak lxc`, and what their daemon holds changing | – |
| `Machine` | `sak linux`, `sak hash`, `sak base64`, and the machine changing | – |
| `Documents` | `src/value`: documents, paths, walkers, diff, merge | – |
| `Lists` | what json does with elements of arrays | `Documents` |
| `Json` | the commands of json and config | `Lists` |
| `AnswersMC` | seven families that answer once, in one run | `CertChain`; instances of `PodTriage`, `CertFiles`, `GitHistory`, `GhRequests`, `HookRules`, `Metrics` |
| `FilesMC` | eight families, in one run | `FileWalks`; instances of `JsonMC`, `Json`, `FileReads`, `Tables`, `LocalTools`, `Fleet`, `Containers`, `Machine` |
| other `*MC` | the values of constants for TLC | |

How they correspond to the code:

**BoundedWriter.**  `limit`, `lines_written`, `truncated` are the fields of the
struct; `stdout` and `notices` are what was printed.  `offered` is history:
the rows clients asked for.  `WriteLine` and `WriteDecoration` are the two
methods, early returns included, and each fails when the reader has gone.
`WriterSpec` lets any client do anything in any order.  It is the abstract
specification of printing: `Grep` is shown to implement it (`UsesWriter`,
checked as a property of the run with the same variables), so what is proved of
`WriterSpec` holds of what `Grep` prints.

**Grep.**  One action per file opened, per window laid out (`ShowLine` takes the
next selected line, `NextMatch` passes one whose window was shown), per item
printed and per return.  The windows of one file are laid out before any of its
rows is printed, as in the code.  `Headings` is `emit_result`'s order of blank
line and heading.  `Change` rewrites or removes a file after the walk.  The
files are a set: a path given twice on the command line, which the code
searches twice, is two files of equal content here.

**TailFollow.**  One action per system call that looks at the file (open,
stat, read), because the writer may act between any two: this is where the
offset, the pending bytes and the line number can go out of step.  An inode
keeps its content after a rename, as an open file does.  Bytes are classes:
newline, carriage return, the two halves of a character, any other.

**FileWalks.**  `pending` holds the entries the walk has listed and not looked
at, `found` what passed; `Visit` takes any of them, because the operating
system lists a directory in any order.  The type comes with the listing and
the size from a stat of its own, `Read` hashes a file's content after the walk:
other programs write, delete and create between any two.  `Room` is what
`--limit` leaves for entries, one less in a drawn tree, whose root has a line.
`was` keeps every
state the tree has had, and the properties compare with that.  A listing is
held to two of them: the one in which an entry was listed, which gives its kind and its
name, and the one in which it was looked at, which gives size and time.

**FileReads, Tables.**  One action reads one file (`Count`, `StatArg`, `Read`,
`Cut`; `Query`, `Headers`, `Stats`, `Validate`), with the running totals, the
rows printed and the failures so far as state, and `Finish` ends with the
exit code.  A table is a sequence of records, one of which may be torn.
`head --bytes` goes its own way before a plain number is taken for a count
(`resolve_file_and_count`), so that there a number is a file's name.

**HookSession.**  `pc` per invocation follows `run_hook`; the log is a sequence
of pieces, a whole line for a whole write and a head (later a tail) for a
short one.  The classifier is a constant function `Verdict`, so that theorems
hold for any classifier.  `LogIsTheRecord` allows a torn line, and one glued to
it, only after the disk has failed: no order of two hooks' writes makes one.

**HookClassifier, ShellText.**  Here the state is the command text together
with its meaning, grown a construct or a piece at a time: each action adds to
the text what an author would write and, beside it, what the shell makes of
that (which commands run and at which depth, which words they have, which
substitutions).  The functions of the code are operators on the text, and the
properties compare the two.  The meaning is never computed from the text.

**HookRules, RuleGuards, GhApi, GhRequests.**  In the same way, an invocation is written
phrase by phrase, each phrase words and what they mean to the tool (a flag that
writes, a verb, a file).  The tables, the peeling of global flags and the
predicates see the words; the properties read the meaning.  For `gh`, `Means`
says what gh would send, and `Ask` sends what one of the eleven commands builds.

**Cluster.**  One action per request; `ever` and `always` are the objects that
existed at some time and all the time of the run so far, which is what a
command that reads piece by piece can be held to.

**PodTriage.**  The kubelet and the API server bind, start, end, back off, make
ready, evict and delete, one status at a time (`Kubelet`); `Answer` and `Fail`
are an invocation at that moment, a function of the statuses.

**CertChain.**  `Start` takes the next source, `Link` adds one certificate to the
chain, never taking one back, `Judge` is `check_chain` and `Emit` the exit code.
`Accepted` is the abstract specification, a path without a builder.

**CertFiles.**  One step reads one source; content is a form (PEM, base64, DER,
other) and blocks.

**GitHistory.**  `push_head` starts a walk, `Visit` handles one commit and takes
its parents up, `Report` prints, and `Move` is another git command that commits
while the walk goes on.  Commands that do not walk are one action each.  A name
is resolved to a commit where history is asked of it and to a tree (`HasTree`)
where contents are compared, so that a tag of a tree can be compared and not
walked.

**MetricRows, Metrics.**  `Ask` reads the arguments, `Fetch` is `run_single_fetch`;
`QueryCounts` and `QueryRates` are histogram's two queries, and between them
instances observe (`Observe`) and are scraped (`Scrape`).  JSON values are
records of a kind; a text is a sequence of characters, so that what the
escaping does can be read back (`ReadBack`) as PromQL reads it.

**LocalTools.**  What a program wrote is a value, or lines; `invoke` is one run of
helm or nix with what is told of it (`Answer`), after the allow-list
(`pair_allowed`).

**Fleet.**  One action is one run of talosctl for one node (`section`), or for
one node and path (`collect`); `heard` keeps what each of them gave, and
`Change` takes nodes down and brings them back in between.

**Containers.**  `host` is what the daemon would answer.  A listing is one action
(`ask`), docker's logs two (`inspect` and `read_logs`), and between those two
`Change` puts another container, or none, under the name.

**Machine.**  `host` is what the machine holds under each name: a process, a
setting, a file.  Each read is an action (`read_status`, `read_stat` and
`read_cmdline`, `visit`, `read_family`, `hash_next`, `check_entry`,
`read_input`), and between any two of them `Change`
puts something else under a name; `was` remembers what has been held.  A name
or an argument may hold a tab or a line end, and every cell has to be one line.
The one that is not, the bracketed name of a process without arguments, is a
finding.  A digest
is the content it is of; base64 is arithmetic on bytes.

**Documents, Lists, Json.**  A document is a function from places to nodes.
An invocation is one step: all inputs are read and parsed before anything is
computed, and nothing happens concurrently that matters.  Files are readable or
not, and hold records that are values, values with a key twice, or neither.  A
key twice is refused in TOML and by `json validate --strict`, and the last one
counts otherwise.  A path that cannot be parsed is an error where a
table or a selection is made, never an empty cell.

**HookMC, AnswersMC, FilesMC.**  A variable `subject` says which family an initial state
belongs to, and each property is that of the family's module for its subject.
The modules are instantiated with their own values; families share a variable
where they mean the same by it.

## Runs, bounds and what they show

Passing runs:

| run | what is enumerated | bounds and why they are enough |
|---|---|---|
| `tail_follow` | contents of up to 3 bytes, three appends that cut and complete characters and lines, one truncation or rotation, both modes, with and without a window | `MaxLen` 3 fits two lines and a partial one, and a line whose only character arrives in halves; several appends may fall between two polls; all races of the follower are with one rewrite, and a second one starts from the same states |
| `grep` | every text of five lines beside simpler files, hidden and skipped places, binary and undecodable files, stdin, four modes, context 0 or 1 on each side, three kinds of limit, one change | five lines are the fewest where windows of one line overlap, touch, and leave a gap; two files and stdin give headings between and after files without matches |
| `hook`, sessions | two invocations, both harnesses, every kind of input, three commands, a disk that fills and is freed (`MaxFlips` 2), kills | two hooks meet at the log in every order; the proofs cover any number |
| `hook`, texts | commands of three constructs around six simple ones with `MAX_DEPTH` 2; scripts of four pieces | with a limit of two, three layers put a read at, below and beyond the limit; two pieces announce a document and write its end, two more interact with them |
| `cluster` | five clusters (a chain, a cycle, a Service with slices, metered nodes, a static pod), any command, two changes at any time, any call failing | a race needs an object gone and one come (or adopted) between two calls: two changes |
| `answers`, pods | four sets of pods (restarted for ever, with and without init containers, a job in another namespace), six steps of the kubelet, twelve commands | six steps lead a pod through initialization, running, ending and back-off; the commands are compared on one state |
| `answers`, chains | bundles of up to four certificates: expired, cross-signed, reissued, without the right to issue, with and without anchors | a leaf, two ways to go on and a root are what a greedy builder can go wrong with |
| `answers`, certificate files | torn and mixed files, documents that embed certificates, days of four seconds, dates with offsets and at the ends of their ranges | truncation of days shows within one day on both sides of zero |
| `answers`, histories | histories with merges, renames and skewed clocks, `MaxMoves` 1, seventeen commands | a walk is disturbed by a move of HEAD only at its start |
| `answers`, GitHub | invocations of `gh api` of four phrases (`MaxPhrases`), documents with strings, comments and several operations; the eleven commands | two phrases make a flag and its double, a third its separator, a fourth the body that changes the method |
| `answers`, rules | for each tool its globals, verb and up to four phrases | two flags, a verb and a file are as many as any predicate relates |
| `answers`, metrics | answers of every shape and failure for every command; two instances with equal and with different buckets, `MaxObserved` 2 | two observations fall before, between and after histogram's two queries |
| `files`, walks | trees with equal files, files equal in size alone, hidden ones, skipped directories, links; `MaxChanges` 2 | a file replaced is a deletion and a creation; a rewrite between size and hash is one change |
| `files`, readers and tables | two files with their columns in another order, blank first lines, a last line without its end, torn and ragged records; ranges from either end | two files are what a heading, a total and a verdict can be wrong about |
| `files`, documents | all documents of depth two over two keys, some with keys no path can write; pairs for diff and merge, triples for merge; arrays of up to three records; lists of up to three files of every kind for validate | the walkers recurse by one level at a time and treat deeper levels the same; three records are enough for a comparison to fail to be transitive |
| `files`, tools | for every command of helm and nix answers of every shape (entries that are no objects, texts with lines and tabs, nothing, no JSON, an older nix's lists) and every way to fail; limits 0 and 1 | two entries and two lines are what a column, an order and a cut can be wrong about |
| `files`, fleet | two nodes, each up with one of three sets of files, or down; `MaxChanges` 2; limits 0 to 3; configurations that are missing, torn or name nobody | a node that goes down and comes back is two changes; two nodes with two paths tell the order of the runs |
| `files`, containers | every command of docker and lxc with every answer; logs of up to two writes with and without a terminal, `MaxChanges` 2 | a container recreated, and recreated as it was, are one and two changes; two writes are enough for a line to be torn |
| `files`, hosts | every command of linux, hash and base64; two processes and three contents of each number, two settings, two families of sockets, two files, lists of digests of up to four lines, inputs of up to four digits | a change between two reads is one step and comes back with another; two names are enough for one to be told under the other, three bytes are base64's unit |

The properties, which their modules state in words:

| run | properties |
|---|---|
| `tail_follow` | `RowsMatchFile` (`NumberingMatchesFile`, `LinesFaithful`), `BytesContiguous`, `RestartNeedsRewrite` (action property), `Terminates` and `CatchesUp` (liveness) |
| `grep` | `RowsComplete`, `RowsAreMarked` (`GapsAreMarked`, `RowsUnderHeading`), `AnswerIsRight`, the writer's `RowsArePrefix` and `CutIsAnnounced`, `UsesWriter` (refinement) |
| `hook` | of sessions `DecisionIsItsOwn`, `NothingRunsUnasked`, `LogIsTheRecord`, `EveryCallAnswered` (liveness); of texts `CallsAreFound` (`ReadsAreFound`, `MarkersAreFound`), `CommandsAreRead`, `SubstitutionsAreFound` |
| `cluster` | `ChainIsTrue` (`ChainIsReal`, `ChainIsWhole`), `ListsAreTrue`, `ExitsAreTrue`, `WalkEnds` (liveness) |
| `answers` | `TriageIsTrue`, `ValidIsReal` and `LosesOnlyAtForks`, `CertificatesAreTold`, `HistoryIsTrue` (histories and comparisons), `RequestsAreTrue`, `RulesAreTrue`, `MetricsAreTrue` |
| `files` | `WalksAreTrue`, `ReadsAreTrue`, `TablesAreTrue`, and of documents `PathsAreTrue`, `LayersAreTrue` (`DiffIsExact`, `MergeIsLayered`), `OrdersAreTrue`; `ToolsAreTrue`, `NodesAreTrue` (`FleetIsTold`, `CertsAreTold`), `ContainersAreTrue`, `HostsAreTrue` |

The property of a family is a conjunction of parts that are named and commented
in its module: `TriageIsTrue`, say, that the status column is that of the
containers, that what `--limit` leaves out is never worse than what it shows,
that the commands agree on one cluster, and that exit 1 is said truly.
`LosesOnlyAtForks` says where the greedy builder of chains is complete: a chain
is lost only where a certificate has two possible issuers that are not copies of
each other or, without anchors, where no name is the leaf's alone, so that the
bundle is judged in the order of its file.

The bounds in the models are `MaxLen`, `MaxRewrites` (TailFollow),
`MaxNumber` (Grep: the lines of a file and what `--total` adds up to),
`MaxChanges` (Grep, Cluster, FileWalks, FileReads, Tables, Fleet,
Containers, Machine), `MaxFlips`
(HookSession), `MaxLayers` and `MAX_DEPTH` (HookClassifier; the code's own limit
is 12 and tested the same way), `MaxPieces` (ShellText), `MaxSteps` (PodTriage),
`MaxMoves` (GitHistory), `MaxPhrases` (GhRequests, HookRules) and `MaxObserved`
(Metrics); all bound the environment, none the program.
`CHECK_DEADLOCK FALSE` stands where an invocation ends and nothing follows, or
where a hook is never given input.

## Fairness

- `TailFollow.FairSpec`: weak fairness of the follower, whose thread the system
  schedules and whose every step is enabled until it ends, and of `Expire`: time
  passes.  Nothing is assumed of the writer or the reader, so `CatchesUp`
  holds only without rewrites and while the reader stays.
- `HookSession.FairSpec`: weak fairness of each hook, and of the harness
  writing its payload and closing the pipe: a hook whose input never ends waits
  for ever, which is the harness's doing and no property of the hook.
- `Cluster.Spec`: weak fairness of the command's own steps.  A request returns
  or fails; the client has no retry.  Changes of the cluster are bounded and
  have no fairness.

## What is proved

TLAPS checks these for all values of the constants, under the named
assumptions of the modules (`LimitsAssumption`, `SessionAssumption`, those of
`TailFollow`, `ClusterAssumption` and `CommandAssumption`, `JobsAssumption`,
`GrepAssumption` and `PrintedAssumption`, `WalkAssumptions`).  They give the constants their types and
say what the environment keeps to: that names and uids of a cluster's objects are
its own, that a tree hangs together and is finite, that the files to search are finitely many, that the writer takes the rows a
search makes, and that a command line is one the parser lets through.

*BoundedWriterProofs.*  `WriterTypes` is the type invariant.  `PrintsAPrefix`,
`CutsAreAnnounced` and `SilentAfterCut` rest on the invariant `WriterInv`.  That
the printed rows are a prefix is not inductive by itself: `WriterInv` adds that
the rows written are all the rows offered as long as nothing was withheld, that
the limit is reached and a row is missing once something was, and that the
notice was given just then.  Since `WriterSpec` lets
its client do anything, the three theorems hold for each command that prints
through the writer and not only for `Grep`.

*TailFollowProofs.*  `StateTypes` is the type invariant of all that does not
depend on decoding.  `BytesAreContiguous`: what polling prints is the file from
`base` to `offset`.  The strengthening `BytesInv` adds that the offset lies
within the file from the moment it is measured (unless the file was rewritten
unseen), that `base` lies below it, and that what polling printed begins within
the output.  Nothing is assumed of the length the last stat returned: the read
may find more than the stat promised, and the offset moves by what was read.  The two lemmas on cutting a
concatenation are the facts about sequences behind it.

`RowsMatch` is about what a user sees: every row is a line of the file, under the
number the file gives it, in order and none left out.  The property says nothing of
the bytes that were read and not yet shown, so it is not inductive.  `LinesInv`
carries `Kept` from poll to poll while the program is polling and the file was not
rewritten: of the bytes taken so far, those up to some position are whole lines,
numbered up to the next number, and all of them from `base` on are shown; the rest is pending,
either as it stands in the file (`PendingWhole`) or with a first piece that was
decoded at the start, before the rest of its line had been written (`PendingCut`).
There is a lemma for each operation: `KeptInitial`, `KeptAppended`, `KeptUnread`, `KeptRead`,
`KeptEmitted`, `KeptRestart`.  Beneath them lies a small theory of texts: where the
lines of a text end and how they go on when it grows (`LineIs`, `LineSplit`), and
that decoding a concatenation is decoding its parts when the cut is not within a
character (`LossyConcat`, `LossySplit`).  `RestartsAreRewrites`: numbering starts
again only when the file was rewritten.  It follows from `BytesInv` and `Kept`,
since without a rewrite the offset never passes the length of the file and the
arm that finds it truncated is not reached (`Unrewritten`).

*HookSessionProofs.*  `SessionTypes` is the type invariant, which no run needs to check beside it; `DecisionsAreTheirOwn` through `FlowInv`,
which says for each place of a hook what its input must have been;
`NothingRunsByItself` through `FatesInv` (a tool call is settled only after
its hook); `LogIsFaithful` through `LoggedInv`, which says how many pieces of a
call are in the log at each place, and that a hook still to write the rest of
its line met a disk that had filled, so that a disk that never fills has
whole lines only.  They hold for any number of hooks and any classifier.

*GrepProofs.*  `GrepTyped` is the type invariant, with where the search is in its
list of files.  `GrepIsWriterClient` is the refinement: every step of
`GrepNext` is a step of `WriterNext` or leaves the writer alone, so that
`GrepPrintsAPrefix` follows from the writer's theorems.  `AnswerHolds` is about
the exit code and `--total`: `AnswerInv` says that the total is the number of
pairs of a file and a match in it, of the files searched so far, and that
`any_match` tells whether there is one; and, of how a search ends, that
it found something or went through all files, that an error is that of the
file it had come to, gone or not text by then, and a broken pipe that of a reader gone.
`RowsAreAllThere` is the theorem about context windows.  A selected line whose
window was shown already is passed by, and a window is laid out only from the
line after the one shown last: that this loses and repeats nothing is not
inductive by itself.  `RowsInv` adds, while windows are laid out (`WindowsAt`), that
the selected lines to come are ascending, that each one before them has its
window shown, that all that is shown is near a selected line, and that between
the start of a window to come and the line shown last nothing is missing; and
beyond the file at hand that what was offered comes file by file in the order of
paths.  `RowsStandMarked`: `MarksInv` says of everything printed and still to print
together (`Stream`) that separators stand at the gaps and headings above their
rows, and that its last row is the line shown last.

*ClusterProofs.*  `ClusterTypes` is the type invariant.  `ChainsAreTrue`,
`ListsHold` and `ExitsHold` are what a command that asks the API server several
times can promise while the cluster changes between two answers.  The
invariants speak of `ever` and `always`, the objects that existed at some moment
of the run and at every moment: what is there all the time is there now
(`WorldInv`), the object in hand is the end of the chain so far (`ChainInv`), and
what an earlier call found is still known when the last one answers (`HeldInv`).
For `describe`, `ChainsAreTrue` needs that no two kinds are spelled alike: it looks
an owner up by its bare kind, and `cluster_crd` shows what happens otherwise.

*CertChainProofs.*  `ValidHolds`: a verdict of "valid" has a path behind it.  The
builder only ever extends the chain by a certificate it has not taken
(`ChainInv`), so that the chain is a path, and `check_chain` without issues and
without doubts (`Sound`) makes each link one that the abstract specification
`HasPath` accepts.  It rests on `AscendingIsSorted` for the order of the rest of
the pool.  `LosesNone`: a chain that is there is found, unless at a fork.  The path
that is promised is taken as places in the pool (`IsWay`); it climbs to a root,
above which there are only copies of it (`Top`, `OnlyCopiesAbove`).  The builder's chain
names the same certificates as the path, link by link (`Follows`): at each link
the pool offers one issuer and its copies, so that what is chosen is a copy of what the path
has next (`ChoiceIssues`, `LinkFollows`).  It stops at the root or a copy of it, and
the judge finds nothing in such a chain (`AcceptedIsValid`, the converse of what
`ValidHolds` needs).  `WayInv` carries this from the first link to the verdict.  The proof
found that the property as first written was false: a bundle in which the
leaf bears an authority's name is never put in order, whether it forks or not.

*FileWalksProofs.*  `WalksTellTheTruth`: all five parts of `WalksAreTrue`, for
every tree, command, order of visits and any number of changes by other
programs.  That a listing loses nothing is not inductive by itself; `WalkInv` says where
what is not yet found still is.  `Complete`: a path that was as asked for at every
moment has been found or lies at or under an entry still ahead, for a directory above it
is then a directory at every moment too and its listing has the path (`NextIsListed`).
`Apart`: no entry ahead lies under another or above what was found, so that the walk
comes to every path once and two rows never have one path, which the
groups of duplicates and the order of a drawn tree need.  `PendingOK` and `FoundOK`: what
is ahead was listed so at some moment, and what was found was named and passed at
two.  `HashedOK`: a hash is that of what its file held at some moment.  `Steady`:
nobody makes a link, so a link that is one now always was.  An answer is the
gathered rows in the order of their keys: where the keys tell all rows apart, sorting by
counting those before puts each into a place of its own (`PlacesAreTaken`, by the
pigeonhole principle), and what is cut is the end (`RowsAreFirst`).
`LessIsStrict` and `LessIsTotal` are the order of texts beneath it.  The proof found
what no run had: that a row of `find` was as asked for at one moment is
false.  A directory replaced by a file between its listing and its stat is named with the
kind of the one and the size of the other; the run now has such a replacement, and
`ListingIsTrue` the two moments.

*NumbersProofs.*  `LeastNumber` (a set of naturals that is not empty has a least
member) and `AscendingIsSorted`.  The first stands in for induction where a proof
needs it: the library's induction theorems take an operator as their parameter,
which the provers cannot instantiate, while a least counterexample is a set.  `RankIn`, the number of members up to a
given one, is how `Nth` is reasoned about: it grows with its argument (`RankGrows`), the
k-th member is the one of rank k (`NthIs`), there is one for each k up to the size
(`NthExists`), and members added above the others leave the earlier ones
in their places (`NthContinued`).  The order of a pool, of the matches of a file
and of the line ends of a text all rest on these.

Only model-checked: liveness (`Terminates`, `CatchesUp`, `EveryCallAnswered`,
`WalkEnds`), which is beyond the prover; everything in `HookClassifier`,
`ShellText`, `Documents`, `Lists` and `Json`, which are recursive over text or
trees, and what the folds of the other modules compute for every input (scans
of words, durations, sums), which is induction; the other families of `answers`
and `files`, whose proofs are in the plan.

## Findings

Each is a run that TLC ends with a violation.

| run | what the code does | what the repository says |
|---|---|---|
| `tail_bytes_gap` | in bytes mode the polling offset is taken from a second stat; bytes appended between the read and it are never printed | "prints the last N and then polls the file" (`src/fs/tail.rs:30`) |
| `grep_context` | a match inside an earlier match's window is printed as a context row | context rows "stay distinguishable from matches" (`src/fs/grep.rs:727`) |
| `hook_malformed` | input that is not UTF-8 exits 2, which blocks the call | "empty/malformed fail-open" (`src/hook/mod.rs:54`) |
| `cluster_crd` | describe resolves an owner by its bare kind, and follows another group's object | `owners.rs:76-79` explains why that would be ambiguous |
| `process_rows` | a process without arguments is shown as its name in brackets, a tab or line end in it included | "collapsed to one line" (`src/linux/process.rs:9-11`) |
| `json_validate` | validate exits 0 with an invalid file behind its output limit | "exits 1 if any input is invalid" (`src/json/validate.rs:16`) |

Met while modelling, without a run:

- *Output.*  `Outcome`'s comment says an error "aborts the run before any output
  reaches stdout" (`src/output.rs:28`); grep and `json length` print rows and
  then fail.
- *tail.*  A file truncated and grown past the old offset between two polls is
  not noticed (`src/fs/tail.rs:31` says so); the model's `stale` marks this and
  properties exempt it.  Where the file ends within a character when
  `tail --follow` starts, the half is kept decoded (`src/fs/tail.rs:297`), and
  the line is completed with replacement characters; `LinesFaithful` allows a
  line decoded in two pieces.
- *grep.*  `--limit` counts context rows, and `--max-count 0` still yields one
  match per file; a heading may be the last line before the cut.
- *Walks.*  The size that duplicates prints was read before the hash
  (`src/fs/duplicates.rs:133`) and may be another than that of the content.
  `glob '*' --type dir` prints the root as an empty row.  glob ends with exit 2
  when an entry vanishes before its stat, where find goes on.  `largest --top 0`
  exits 1.  With `--follow`, a link and its target are duplicates of each other.
  Times before 1970 become 0.  `find --type dir --size` may name a directory
  that has become a file since its parent was listed, with the file's size.
- *Readers.*  `cut --skip-empty --header` loses the header behind a blank first
  line (`src/fs/cut.rs:309`); `--max-fields 0` with `--whitespace` counts below
  zero (`src/fs/cut.rs:227`).  wc and csv validate stop at the limit, before
  later files, and exit 0.  csv stats takes "nan" and "inf" for floats and passes
  over cells beyond the header's columns.
- *cert.*  expiring's help says that certificates already expired always match;
  at `--days 0` one that ended within the last day does not.  verify-chain's says
  that "order within the file doesn't matter" (`src/cert/verify_chain.rs:51`); a bundle in
  which no name is the leaf's alone, a leaf named like its root, say, is judged
  in file order.
- *hook scanners.*  Continuations are joined (`src/hook/shell_text.rs:127`), but
  one right behind a here-document's delimiter is read as an escaped newline
  (`src/hook/shell_text.rs:208`): the rest of the script is taken for the
  document's body.  The scanners widen bytes to characters, so that byte 0xA0
  within a character counts as a space (`src/hook/claude_code.rs:410`).
- *hook tables.*  Flags that write and that no table lists are taken for reads:
  find's `-fls` and `-fprint0`, `fd --exec=command`, `openssl x509 -out`,
  `helm template --output-dir`, `git diff --output`, clusters such as
  `sysctl -qw`, SQLite's `insert ... select`.  `deno run f.ts -` is denied though
  the script comes first (`src/fs/hook.rs:598`).  Of the tools with verbs only
  git has its global flags taken off: `kubectl -n ns get pods` is not seen, and
  a value that reads like a verb (`kubectl -n get delete x`) misdirects.
- *gh.*  A list without `--limit` is cut by gh's own default without a word, and
  one cut by `--limit` is never announced; `--limit 0` makes gh fail.
- *loki.*  query promises "the most recent" entries, sorts ascending and with
  `--limit` keeps the oldest of those returned (`src/loki/query.rs:63`); Loki's
  own default cap is not announced.
- *prom.*  Label cells and string results are printed with their newlines;
  alerts with the same state, name and instance keep the server's order;
  `build_matcher` leaves a newline unescaped, which the server refuses, where
  `am`'s matchers escape it.  `--json --limit 0` exits 0 with no output, where
  rows exit 1.  histogram's deltas may be below zero where instances spell a bound
  in two ways.
- *helm.*  dependency-list takes what helm warns of below its table for rows; its
  comment thinks of warnings above only (`src/helm/dependency_list.rs:93`).
  A release counts as missing when "not found" stands anywhere in what helm
  wrote to stderr (`src/helm/client.rs:113`), a missing plugin's message, say.
  lint's help says that the summary always prints (`src/helm/lint.rs:70`); a
  limit that cuts findings cuts it too.
- *nix.*  A flake whose outputs are placeholders alone exits 1 as a table
  (`src/nix/flake_show.rs:26`) and 0 as JSON; so does, in helm and nix, a list
  without objects.
- *talos.*  With one node that fails, `read` exits 2, with several 1, and `get`
  1 in either case.  `certs` takes a node that does not answer for one without
  the file (`src/talos/certs.rs:125`).
- *docker.*  A line that the daemon sends in two frames is printed as two lines
  (`src/docker/logs.rs:258`).  A container recreated without a terminal between
  the two requests of logs has its frames' headers printed as text.
- *lxc.*  An address without a family or a scope, or an interface without a list
  of addresses, ends the search and hides the global address behind it
  (`src/lxc/list.rs:127`).
- *linux.*  A process that ends before its arguments are read is shown like a
  thread of the kernel (`src/linux/process.rs:162`); where its number is taken
  over at once, a row has some of each.
- *hash.*  verify stops at the line that `--limit` leaves out
  (`src/hash/mod.rs:174`) and exits 0 with a mismatch behind it, as
  `json_validate` shows of validate; its help says "exit 0 if all match".
- *base64.*  decode prints the files before the one it cannot decode, and with
  `--limit` does not look at the files behind.
- *INI.*  Keys without a value become null, which the help calls strings; INI
  output does not escape newlines or `=`.

## What is abstracted

- **All**: help text, colours, wording, column layout, number formatting.
- **TailFollow**: bytes to five classes; time to "the window may elapse".  The
  non-following modes of tail are the initial print.
- **Grep**: the pattern to the set of matching lines; `-o`, multiline mode and
  globs are left out.
- **HookSession**: JSON payloads to the kinds the code tells apart.
- **HookClassifier**: the rule tables to two rows, the wrappers to one of each
  shape of operands.
- **ShellText**: characters to those the scanners test; ASCII.
- **Cluster**: rows to their object, requests to success or failure;
  pagination and `--limit` (except where the writer models it) are left out.
  Ancestors are compared by kind, namespace and name as the code does; the
  uid, which the code does not compare, is a listed hazard.
- **Documents, Json**: scalars to a few texts with types; `~0` and `~1` in
  pointers, containers as sort keys, the parsing of `--where` and `--fields`,
  the guess whether a positional is a path or a file, and `--limit` except in
  validate are left out.  Equality of numbers is that of their text.  Parsers of
  formats are a document or an error; plist has no null in either direction.
- **FileWalks**: entries in any order; links lead to files or to directories
  above them, and nobody makes one while a command runs; patterns are the set of names they match.
- **FileReads, Tables**: lines and cells to a few; the quoting of csv is the
  external reader's.
- **PodTriage**: rows to their key and cells; the widths of columns and the
  fields of a schema are left out.
- **CertChain, CertFiles**: a signature is whether the key fits; decoding is a
  certificate or an error; names to what they say and how they are spelled.
- **GitHistory**: the text of patches and messages; blame is that of committed
  content, so that an edited file, whose lines are shown with the commits of
  others (`src/git/blame.rs:74`), is a listed hazard and no property.
- **GhApi, RuleGuards, HookRules**: letters to those the code tells apart.  An invocation of
  a tool is written globals, verb, rest; values of global flags stand before the
  verb for git alone, as no other tool's are read.
- **LocalTools**: rendering of JSON as text; the arguments that are passed on as
  they are; the text of errors.
- **Fleet**: what `certs` prints of a certificate.
- **Containers**: columns that are only copied, the bytes of a frame's header; a
  pattern is a word that is there or not.
- **Machine**: columns that are only copied, `--format json`, hash of standard
  input, collisions of digests.
- **MetricRows, Metrics**: the queries but for their selectors and windows; the unit in
  which histogram prints a bound; floating point.

## Not modelled

- *sqlite*: what a statement may do is decided by SQLite, over a connection that
  is opened read-only.
- *git stash and remote*: what one iterator of the library gives.
- *main, input*: the dispatch; the exit codes are in every module.

## Plan

Done: the modules above, in the order they are listed, and the proofs of the
writer, grep, the hook's session, the follower's bytes and lines, the k8s commands of
several requests, the chains of certificates and the walks of trees.  Next are proofs, in this order:

1. `Metrics`: `ExitsAreTold`'s parts that depend on no fold: rows are printed of
   a success alone.
2. `Machine`: that a row of a process is of one that its number belonged to
   (`was` only grows).
3. `Tables`, `GhRequests`: that rows stay within the limit and that nothing is
   sent that the chokepoint does not take for a read.
