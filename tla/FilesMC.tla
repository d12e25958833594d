------------------------------- MODULE FilesMC -------------------------------
(* Families of commands that go over what they are given one after the     *)
(* other, each over its own instances: the walks of a directory tree       *)
(* (FileWalks, which this module extends), the readers of files            *)
(* (FileReads), of tables (Tables) and of documents (Json), the runs of    *)
(* other programs (LocalTools), of one program for every node (Fleet), the *)
(* requests to a daemon (Containers), and the readers of what one machine  *)
(* holds (Machine).                                                        *)
(* The families use the same variables where they mean the same.           *)
EXTENDS FileWalks

CONSTANTS Torn, Keys, Positions, Spelling, Collation, NumberOf, Scenarios

VARIABLES
  subject, asked, shown, exit,      \* but for FileWalks: the command, its rows, its exit
  files, at, taken, changes,
  acc, seen, failed,                \* FileReads
  heading, invalid,                 \* Tables
  tool, pc, printed                 \* Json

readVars == <<acc, seen, failed>>
tableVars == <<heading, invalid>>
jsonVars == <<tool, pc, printed>>
walkVars == <<tree, was, cmd, ref, pending, hashed, rows, code>>
askedVars == <<asked, shown, exit>>
fileVars == <<subject, found, askedVars, files, at, taken, changes, walkVars, readVars, tableVars, jsonVars>>

FileValues == INSTANCE FileValuesMC
MCTrees == FileValues!MCTrees
MCWrites == FileValues!MCWrites
MCRank == FileValues!MCRank
MCDotted == {".h"}
MCJunk == {"target"}
WalkCommands == FileValues!WalkCommands
(* The theorems about FileWalks are about constants like these.            *)
ASSUME WalkAssumptions

(* The keys and texts of documents, and then the documents made of them.   *)
Texts == INSTANCE JsonMC WITH
  Keys <- {}, Positions <- <<>>, Spelling <- <<>>, Collation <- <<>>, NumberOf <- <<>>, Scenarios <- <<>>
MCKeys == Texts!MCKeys
MCPositions == Texts!MCPositions
MCSpelling == Texts!MCSpelling
MCCollation == Texts!MCCollation
MCNumberOf == Texts!MCNumberOf
DocValues == INSTANCE JsonMC WITH Scenarios <- <<>>
MCScenarios == DocValues!MCScenarios
Docs == INSTANCE Json WITH cmd <- asked, code <- exit

Reads == INSTANCE FileReads WITH
  Stores <- FileValues!MCStores, Stdin <- FileValues!One, Commands <- FileValues!ReadCommands,
  Days <- FileValues!MCDays, Sizes <- FileValues!MCSizes, DefaultLimit <- 2,
  cmd <- asked, rows <- shown, code <- exit

Tools == INSTANCE LocalTools WITH
  Commands <- FileValues!ToolCommands, Outcomes <- FileValues!MCOutcomes, Rank <- FileValues!ToolRank,
  heard <- taken, cmd <- asked, rows <- shown, code <- exit
Talos == INSTANCE Fleet WITH
  Commands <- FileValues!TalosCommands, Fleets <- FileValues!MCFleets, CERT_PATHS <- FileValues!MCPaths, Rank <- FileValues!ToolRank,
  fleet <- files, heard <- taken, infos <- found, cmd <- asked, rows <- shown, code <- exit
Boxes == INSTANCE Containers WITH
  Commands <- FileValues!ContainerCommands, Hosts <- FileValues!ContainerHosts, Rank <- FileValues!MachineRank,
  host <- files, part <- acc, cmd <- asked, rows <- shown, code <- exit
Hosts == INSTANCE Machine WITH
  Commands <- FileValues!MachineCommands, Hosts <- FileValues!MachineHosts, Rank <- FileValues!MachineRank, CMDLINE_MAX <- 2,
  host <- files, todo <- pending, part <- acc, got <- found, cmd <- asked, rows <- shown, code <- exit

Tabled == INSTANCE Tables WITH
  Tabs <- FileValues!MCTabs, Commands <- FileValues!TableCommands,
  cmd <- asked, rows <- shown, code <- exit

(* The variables of the families that are not looked at.                   *)
NoWalk == cmd = None /\ code = -1 /\ rows = <<>>
NoWalks == NoWalk /\ tree = None /\ was = None /\ ref = None /\ pending = None /\ hashed = None
NoReads == acc = None /\ seen = None /\ failed = None
NoTables == heading = None /\ invalid = None
NoDocuments == tool = None /\ pc = None /\ printed = None

FilesInit ==
  \/ subject = "walks" /\ Init /\ NoReads /\ NoTables /\ NoDocuments
     /\ asked = None /\ shown = None /\ exit = None
     /\ files = None /\ at = None /\ taken = None /\ changes = None
  \/ subject = "reads" /\ Reads!Init /\ NoWalks /\ NoTables /\ NoDocuments /\ found = None
  \/ subject = "tables" /\ Tabled!Init /\ NoWalks /\ NoReads /\ NoDocuments
  \/ subject = "documents" /\ Docs!Init /\ NoWalks /\ NoReads /\ NoTables
     /\ shown = None /\ at = None /\ taken = None /\ found = None /\ changes = None
  \/ subject = "tools" /\ Tools!Init /\ NoWalks /\ NoReads /\ NoTables /\ NoDocuments
     /\ files = None /\ at = None /\ found = None /\ changes = None
  \/ subject = "fleet" /\ Talos!Init /\ NoWalks /\ NoReads /\ NoTables /\ NoDocuments
  \/ subject = "containers" /\ Boxes!Init /\ NoWalk /\ NoTables /\ NoDocuments
     /\ tree = None /\ ref = None /\ pending = None /\ hashed = None /\ seen = None /\ failed = None
     /\ at = None /\ taken = None /\ found = None
  \/ subject = "hosts" /\ Hosts!Init /\ NoWalk /\ NoTables /\ NoDocuments
     /\ tree = None /\ ref = None /\ hashed = None /\ failed = None /\ at = None /\ taken = None
FilesNext ==
  \/ subject = "walks" /\ Next
     /\ UNCHANGED <<subject, askedVars, files, at, taken, changes, readVars, tableVars, jsonVars>>
  \/ subject = "reads" /\ Reads!Next /\ UNCHANGED <<subject, found, walkVars, tableVars, jsonVars>>
  \/ subject = "tables" /\ Tabled!Next /\ UNCHANGED <<subject, walkVars, readVars, jsonVars>>
  \/ subject = "documents" /\ Docs!Next
     /\ UNCHANGED <<subject, shown, at, taken, found, changes, walkVars, readVars, tableVars>>
  \/ subject = "tools" /\ Tools!Next
     /\ UNCHANGED <<subject, found, files, at, changes, walkVars, readVars, tableVars, jsonVars>>
  \/ subject = "fleet" /\ Talos!Next /\ UNCHANGED <<subject, walkVars, readVars, tableVars, jsonVars>>
  \/ subject = "containers" /\ Boxes!Next
     /\ UNCHANGED <<subject, found, tree, cmd, ref, pending, hashed, rows, code, seen, failed, at, taken, tableVars, jsonVars>>
  \/ subject = "hosts" /\ Hosts!Next
     /\ UNCHANGED <<subject, tree, cmd, ref, hashed, rows, code, failed, at, taken, tableVars, jsonVars>>
FilesSpec == FilesInit /\ [][FilesNext]_fileVars

(* What FileReads promises of src/fs: counts, ranges and cells are those   *)
(* of the files as they were read.                                         *)
ReadsAreTrue == subject = "reads" => Reads!ReadsAreTrue
(* What Tables promises of src/csv: what is said of a table.               *)
TablesAreTrue == subject = "tables" => Tabled!TablesAreTrue
(* What Json promises of src/json, src/config and src/value: paths and     *)
(* listings, differences, merges, exit codes, and sorted and cut lists.    *)
PathsAreTrue == subject = "documents" => Docs!ListingsAreTrue /\ Docs!ExitsAreTrue
LayersAreTrue == subject = "documents" => Docs!DiffIsExact /\ Docs!MergeIsLayered
OrdersAreTrue == subject = "documents" => Docs!ListsAreTrue
(* What LocalTools promises of src/helm and src/nix: what the programs     *)
(* wrote is told as it is.                                                 *)
ToolsAreTrue == subject = "tools" => Tools!ToolsAreTrue
(* What Fleet promises of src/talos: every node is told of, each with what *)
(* it answered, though nodes go down and their files change in between.    *)
NodesAreTrue == subject = "fleet" => Talos!NodesAreTrue
(* What Containers promises of src/docker and src/lxc: a log byte for byte *)
(* under its own streams, a listing whole and in order.                    *)
ContainersAreTrue == subject = "containers" => Boxes!ContainersAreTrue
(* What Machine promises of src/linux, src/hash and src/base64: processes, *)
(* settings, sockets, digests and bytes are told as they were, each under  *)
(* its own name, though they change in between.                            *)
HostsAreTrue == subject = "hosts" => Hosts!HostsAreTrue

(* What src/linux/process.rs says of the rows of processes, over machines  *)
(* alone.                                                                  *)
HostsSpec == subject = "hosts" /\ FilesInit /\ [][FilesNext]_fileVars
RowsStayOnOneLine == subject = "hosts" => Hosts!RowsStayOnOneLine
=============================================================================
