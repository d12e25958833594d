------------------------------- MODULE CertFiles -------------------------------
(***************************************************************************)
(* sak cert inspect, expiring, from-kubeconfig and from-yaml (src/cert):   *)
(* which certificates are found in the files named and in the documents    *)
(* that embed them, which of them are reported and with which exit code;   *)
(* and the instants that --at reads and the reports print.                 *)
(*                                                                         *)
(* Content is what a file or a field holds: blocks of PEM, the same in     *)
(* base64, one DER certificate, or anything else.  One step is one source  *)
(* read, or the report.                                                    *)
(***************************************************************************)
EXTENDS Integers, Sequences, FiniteSets, SequencesExt

CONSTANTS
  Commands,  \* command lines and what they find: [op, ...]
  Fields,    \* the fields of a certificate, a sequence
  Day,       \* seconds of a day, few
  NoLimit

VARIABLES cmd, infos, at, printed, code

vars == <<cmd, infos, at, printed, code>>

-----------------------------------------------------------------------------
(* Certificates in bytes.                                                  *)

Content(form, blocks) == [form |-> form, blocks |-> blocks]
Block(kind, to) == [kind |-> kind, to |-> to]

(* Blocks that do not decode, and those of keys, are passed over.          *)
try_pem(blocks) == SelectSeq(blocks, LAMBDA b : b.kind \in {"certificate", "unparsed"})

(* <<>> stands for the error that no certificate was found.                *)
extract_ders(bytes) ==
  IF bytes.form \in {"pem", "base64"} THEN try_pem(bytes.blocks)
  ELSE IF bytes.form = "der" THEN SelectSeq(bytes.blocks, LAMBDA b : b.kind = "certificate")
  ELSE <<>>

Parses(ders) == \A i \in DOMAIN ders : ders[i].kind = "certificate"

(* Division as the code's: towards zero.                                   *)
(* mistake: rounded up to the day that has begun                           *)
days_remaining_Up(to, now) == IF to >= now THEN (to - now + Day - 1) \div Day ELSE -((now - to) \div Day)
days_remaining(to, now) == IF to >= now THEN (to - now) \div Day ELSE -((now - to) \div Day)

parse_cert(source, index, der, context) ==
  [source |-> source, index |-> index, to |-> der.to, context |-> context,
   days |-> days_remaining(der.to, cmd.now)]
parse_all(source, ders, context) ==
  [i \in DOMAIN ders |-> parse_cert(source, i - 1, ders[i], context)]

-----------------------------------------------------------------------------
(* Certificates in a kubeconfig: of its users and, on demand, its          *)
(* clusters.  Data embedded goes before a file referred to.                *)

Source(entry) == IF entry.data.form # "absent" THEN entry.data ELSE entry.file
Chosen(entries, name) ==
  SelectSeq(entries, LAMBDA e : (name = "" \/ e.name = name) /\ e.body /\ Source(e).form # "absent")

Entries(kc, name, ca) ==
  Chosen(kc.users, name) \o (IF ca THEN Chosen(kc.clusters, name) ELSE <<>>)

(* One entry without a certificate, or that cannot be read, is an error.   *)
Broken(kc, name, ca) ==
  \E i \in DOMAIN Entries(kc, name, ca) :
    LET ders == extract_ders(Source(Entries(kc, name, ca)[i]))
    IN  ders = <<>> \/ ~Parses(ders)
push_certs(source, entry) == parse_all(source, extract_ders(Source(entry)), entry.label)
extract_kubeconfig_certs(source, kc, name, ca) ==
  FlattenSeq([i \in DOMAIN Entries(kc, name, ca) |-> push_certs(source, Entries(kc, name, ca)[i])])

-----------------------------------------------------------------------------
(* The report: records with a field or in a table, lines of a field each   *)
(* otherwise.  The limit counts records in the first case and in JSON.     *)

Cut(rows) == SubSeq(rows, 1, IF cmd.limit = NoLimit \/ cmd.limit > Len(rows) THEN Len(rows) ELSE cmd.limit)
write_kv(info) ==
  LET shown == SelectSeq(Fields, LAMBDA f : f # "context" \/ info.context # "")
  IN  [i \in DOMAIN shown |-> <<info.source, info.index, shown[i]>>]
emit(found) ==
  IF cmd.format = "kv" THEN Cut(FlattenSeq([i \in DOMAIN found |-> write_kv(found[i])]))
  ELSE Cut([i \in DOMAIN found |-> <<found[i].source, found[i].index, cmd.format>>])

Stop(rows, c) == printed' = rows /\ code' = c /\ UNCHANGED <<cmd, infos, at>>
Report(found, c) == IF found = <<>> /\ c = "0" THEN Stop(<<>>, "1") ELSE Stop(emit(found), c)
Running == code = "running"

(* A field that does not exist is refused before anything is read.         *)
Refuse ==
  /\ Running /\ cmd.format = "unknown field"
  /\ Stop(<<>>, "2")
Accepted == Running /\ cmd.format # "unknown field"

-----------------------------------------------------------------------------
(* inspect and expiring.                                                   *)

Reads == Accepted /\ cmd.op \in {"inspect", "expiring"}

(* The numbers of a source's certificates go on while its name stays.      *)
NextIndex == IF at > 1 /\ cmd.files[at - 1].name = cmd.files[at].name
             THEN Len(SelectSeq(infos, LAMBDA i : i.source = cmd.files[at].name)) ELSE 0

read_one_cert_source ==
  /\ Reads /\ at <= Len(cmd.files)
  /\ LET file == cmd.files[at]
         ders == extract_ders(file.bytes)
     IN  IF ders = <<>> \/ ~Parses(ders) THEN Stop(<<>>, "2")
         ELSE /\ infos' = infos \o [i \in DOMAIN ders |-> parse_cert(file.name, NextIndex + i - 1, ders[i], "")]
              /\ at' = at + 1
              /\ UNCHANGED <<cmd, printed, code>>

Matching == SelectSeq(infos, LAMBDA i : i.days < cmd.days)

inspect ==
  /\ Reads /\ cmd.op = "inspect" /\ at > Len(cmd.files)
  /\ Report(infos, "0")
expiring ==
  /\ Reads /\ cmd.op = "expiring" /\ at > Len(cmd.files)
  /\ Stop(emit(Matching), IF Matching = <<>> THEN "0" ELSE "1")

-----------------------------------------------------------------------------
(* from-kubeconfig and from-yaml.                                          *)

from_kubeconfig ==
  /\ Accepted /\ cmd.op = "from_kubeconfig"
  /\ IF cmd.kc.form = "bad" \/ Broken(cmd.kc, cmd.name, cmd.ca) THEN Stop(<<>>, "2")
     ELSE Report(extract_kubeconfig_certs("kc", cmd.kc, cmd.name, cmd.ca), "0")

(* The string at the path: certificates or, when it is none, a kubeconfig; *)
(* what is wrong in that one is not told.                                  *)
certs_from_string(value) ==
  LET ders == extract_ders(value.bytes)
  IN  IF ders # <<>> THEN parse_all("yaml", ders, "")
      ELSE IF value.kc.form = "bad" \/ Broken(value.kc, "", TRUE) THEN <<>>
      ELSE extract_kubeconfig_certs("yaml", value.kc, "", TRUE)
from_yaml ==
  /\ Accepted /\ cmd.op = "from_yaml"
  /\ IF cmd.value.type # "string" \/ ~Parses(extract_ders(cmd.value.bytes))
        \/ certs_from_string(cmd.value) = <<>>
     THEN Stop(<<>>, "2")
     ELSE Report(certs_from_string(cmd.value), "0")

-----------------------------------------------------------------------------
(* Instants: days since 1970 from a date, and the date of a day.           *)

Leap(y) == (y % 4 = 0 /\ y % 100 # 0) \/ y % 400 = 0
DaysIn(y, m) ==
  CASE m \in {1, 3, 5, 7, 8, 10, 12} -> 31 [] m \in {4, 6, 9, 11} -> 30
    [] m = 2 /\ Leap(y) -> 29 [] OTHER -> 28

days_from_civil(y, m, d) ==
  LET y2 == IF m <= 2 THEN y - 1 ELSE y
      yoe == y2 % 400
      doy == (153 * ((m + 9) % 12) + 2) \div 5 + d - 1
  IN  (y2 \div 400) * 146097 + yoe * 365 + yoe \div 4 - yoe \div 100 + doy - 719468

unix_to_utc_components(days) ==
  LET z == days + 719468
      doe == z % 146097
      yoe == (doe - doe \div 1460 + doe \div 36524 - doe \div 146096) \div 365
      doy == doe - (365 * yoe + yoe \div 4 - yoe \div 100)
      mp == (5 * doy + 2) \div 153
      m == IF mp < 10 THEN mp + 3 ELSE mp - 9
  IN  <<yoe + (z \div 146097) * 400 + (IF m <= 2 THEN 1 ELSE 0), m, doy - (153 * mp + 2) \div 5 + 1>>

parse_rfc3339 ==
  /\ Accepted /\ cmd.op = "at"
  /\ IF cmd.m \notin 1 .. 12 \/ cmd.d < 1 \/ cmd.d > DaysIn(cmd.y, cmd.m) THEN Stop(<<>>, "2")
     ELSE Stop(<<days_from_civil(cmd.y, cmd.m, cmd.d)>>, "0")

Init == cmd \in Commands /\ infos = <<>> /\ at = 1 /\ printed = <<>> /\ code = "running"
Next == \/ Refuse \/ read_one_cert_source \/ inspect \/ expiring \/ from_kubeconfig \/ from_yaml
        \/ parse_rfc3339
Spec == Init /\ [][Next]_vars

-----------------------------------------------------------------------------
(* An expiry alert can be relied on: for a window of a day or more,        *)
(* `expiring` exits 1 exactly when some certificate of the files ends      *)
(* before it, to the second, and 0 when none does, whatever --limit        *)
(* prints; for a window of no day it leaves out at most those that ended   *)
(* within the last day (src/cert/expiring.rs).                             *)
AlertsAreTrue ==
  LET ends == UNION {{b.to : b \in Range(try_pem(cmd.files[n].bytes.blocks))} : n \in DOMAIN cmd.files}
      before(t) == {e \in ends : e - cmd.now < t}
  IN  cmd.op = "expiring" /\ code \in {"0", "1"} =>
        IF cmd.days > 0 THEN (code = "1") = (before(cmd.days * Day) # {})
        ELSE before(1 - Day) # {} => code = "1"

(* A kubeconfig's certificates are listed whole or not at all: on exit 0   *)
(* every block of every entry asked for is there under its entry's name,   *)
(* and exit 1 means that no entry asked for has any                        *)
(* (src/cert/from_kubeconfig.rs).                                          *)
EmbeddedAreWhole ==
  LET asked == {e \in Range(cmd.kc.users) \cup (IF cmd.ca THEN Range(cmd.kc.clusters) ELSE {}) :
                  e.body /\ (cmd.name = "" \/ e.name = cmd.name)}
      given == {e \in asked : Source(e).form # "absent"}
      rows == SumFunction([e \in given |-> Len(try_pem(Source(e).blocks))])
  IN  cmd.op = "from_kubeconfig" =>
        /\ code = "0" /\ cmd.format # "kv" /\ cmd.limit = NoLimit => Len(printed) = rows
        /\ code = "1" => given = {}

(* --at reads every date of the calendar as the day the reports print as   *)
(* that date, and no other date (src/cert/verify_chain.rs, parse_rfc3339;  *)
(* src/cert/mod.rs, unix_to_utc_components).                               *)
YearLength(y) == IF Leap(y) THEN 366 ELSE 365
DatesAreDays ==
  cmd.op = "at" /\ code = "0" =>
    /\ unix_to_utc_components(printed[1]) = <<cmd.y, cmd.m, cmd.d>>
    /\ printed[1] = SumFunction([y \in 1970 .. cmd.y - 1 |-> YearLength(y)])
                    + SumFunction([m \in 1 .. cmd.m - 1 |-> DaysIn(cmd.y, m)]) + cmd.d - 1

CertificatesAreTold == AlertsAreTrue /\ EmbeddedAreWhole /\ DatesAreDays

(* "Already-expired certs always match (their days_remaining is negative)" *)
(* (src/cert/expiring.rs, long_about).                                     *)
ExpiredAlwaysMatch ==
  cmd.op = "expiring" /\ code = "0" =>
    \A i \in DOMAIN infos : infos[i].to >= cmd.now
=============================================================================
