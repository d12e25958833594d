-------------------------------- MODULE Metrics --------------------------------
(***************************************************************************)
(* sak prom, sak prom am and sak loki (src/prom, src/loki, src/sync_http): *)
(* a command checks its arguments, asks the server with one GET and makes  *)
(* rows of the answer (MetricRows); histogram asks twice, and what the     *)
(* server counts grows in between.                                         *)
(***************************************************************************)
EXTENDS MetricRows

CONSTANTS
  Commands,   \* [server, op, endpoint, json, limit, flags, only, times, labels];
              \* "unreadable" \in flags: what is to be named is no regular expression
  Data,       \* what a server may answer: [server -> [op -> set of values]]
  Buckets,    \* the bounds of every instance's buckets, as it spells them
  Deployments, \* which instances there are, sets
  Value,      \* spelling -> bound
  Now, Nanos, \* the time, and the nanoseconds of a second, few
  MaxObserved \* bound: observations while histogram runs

VARIABLES
  cmd,
  observed,  \* [instance -> [spelling of a bucket -> observations in it]]
  fresh,     \* instances that have been scraped once
  sent,      \* the request
  reply,     \* the last answer
  first,     \* histogram: the first answer, and what was observed by then
  rows, code
vars == <<cmd, observed, fresh, sent, reply, first, rows, code>>

Running == -1

-----------------------------------------------------------------------------
(* The answer of a GET: absent, failed, or the data in its envelope.       *)

Absent == [kind |-> "absent"]
Failed == [kind |-> "failed"]
Answered(d) == [kind |-> "data", of |-> d]
get_json(r) == IF r.status = 404 THEN Absent ELSE IF r.status # 200 \/ r.body = None THEN Failed ELSE Answered(r.body)
unwrap_envelope(r) ==
  IF get_json(r).kind # "data" THEN get_json(r)
  ELSE IF get(r.body, "status") # [kind |-> "text", of |-> <<"success">>] \/ get(r.body, "data") = None THEN Failed
  ELSE Answered(get(r.body, "data"))
Got(server, r) == IF server = "am" THEN get_json(r) ELSE unwrap_envelope(r)

Object(of) == [kind |-> "object", of |-> of]
Text(text) == [kind |-> "text", of |-> text]
Enveloped(server, d) == IF server = "am" THEN d ELSE Object([status |-> Text(<<"success">>), data |-> d])
Served(server, d) == [status |-> 200, body |-> Enveloped(server, d)]
Faults ==
  {[status |-> s, body |-> None] : s \in {404, 503, 200}}
  \cup {[status |-> 200, body |-> Object(o)] : o \in {[data |-> Text(<<>>)], [status |-> Text(<<"error">>), data |-> Text(<<>>)], [status |-> Text(<<"success">>)]}}

Cut(lines) == rows' = Upto(lines, cmd.limit) /\ code' = IF Upto(lines, cmd.limit) = <<>> THEN 1 ELSE 0
(* A document counts as one line here.                                     *)
emit_json(d) == rows' = Upto(<<d>>, cmd.limit) /\ code' = 0
Refuse == code' = 2 /\ UNCHANGED rows

(* The arguments: durations, a step or window of nothing, label filters,   *)
(* an endpoint.  Times become the ends of the window that is asked for.    *)
Times(c) == [t \in DOMAIN c.times |-> parse_duration(c.times[t].text)]
Back(n) == IF n > Now THEN 0 ELSE Now - n
Stamp(c, n) == IF c.server = "loki" THEN IF n > MaxNumber \div Nanos THEN MaxNumber ELSE n * Nanos ELSE n
Window(c) ==
  LET t == Times(c)
  IN IF c.op = "range" THEN [start |-> Stamp(c, Back(t.since)), end |-> Stamp(c, Now), step |-> t.step]
     ELSE [k \in DOMAIN t |-> IF k = "window" THEN t[k] ELSE Stamp(c, Back(t[k]))]
Parted(parts, ch) == IF ch = "," THEN Append(parts, <<>>) ELSE [parts EXCEPT ![Len(parts)] = Append(@, ch)]
parse_labels(text) ==
  IF text \in {None, <<>>} THEN <<>>
  ELSE LET parts == FoldLeft(Parted, <<<<>>>>, text)
           eq(i) == SelectInSeq(parts[i], LAMBDA ch : ch = "=")
       IN Collect([i \in DOMAIN parts |->
            IF eq(i) \in {0, 1} THEN None ELSE [key |-> SubSeq(parts[i], 1, eq(i) - 1), value |-> SubSeq(parts[i], eq(i) + 1, Len(parts[i]))]])
Shielded(c) == IF c = "nl" THEN <<c>> ELSE Escaped(c)
build_matcher(labels) ==
  IF labels = <<>> THEN <<>>
  ELSE <<"{">> \o Joined([i \in DOMAIN labels |->
         labels[i].key \o <<"=", "quote">> \o FlattenSeq([k \in DOMAIN labels[i].value |-> Shielded(labels[i].value[k])]) \o <<"quote">>], ",") \o <<"}">>
BadArguments(c) ==
  \/ \E t \in DOMAIN c.times : Times(c)[t] = None \/ (t \in {"step", "window"} /\ Times(c)[t] = 0)
  \/ parse_labels(c.labels) = None
  \/ ~c.endpoint

-----------------------------------------------------------------------------
Ask ==
  /\ cmd = None
  /\ \E c \in Commands :
       /\ cmd' = c
       /\ \E instances \in IF c.op = "histogram" THEN Deployments ELSE {{}} :
            /\ observed' = [i \in instances |-> [b \in Buckets[i] |-> 0]]
            /\ fresh' \in SUBSET instances
       /\ IF BadArguments(c) THEN code' = 2 /\ UNCHANGED sent
          ELSE sent' = [window |-> Window(c), selector |-> build_matcher(parse_labels(c.labels))] /\ UNCHANGED code
  /\ UNCHANGED <<reply, first, rows>>

(* run_single_fetch: one GET, 404 is exit 1.                               *)
Fetch ==
  /\ cmd # None /\ code = Running /\ cmd.op # "histogram"
  /\ \E r \in {Served(cmd.server, d) : d \in Data[cmd.server][cmd.op]} \cup Faults :
       LET got == Got(cmd.server, r)
       IN /\ reply' = r
          /\ CASE got.kind = "absent" -> code' = 1 /\ UNCHANGED rows
               [] got.kind = "failed" -> Refuse
               [] got.kind = "data" /\ cmd.json -> emit_json(got.of)
               [] OTHER -> IF build_rows(cmd, got.of) = None THEN Refuse ELSE Cut(build_rows(cmd, got.of))
  /\ UNCHANGED <<cmd, observed, fresh, sent, first>>

(* What the instances observe and Prometheus scrapes; one scraped once has *)
(* no rate yet.                                                            *)
Instances == DOMAIN observed
Observations(i) == FoldSet(LAMBDA b, n : n + observed[i][b], 0, Buckets[i])
Observe ==
  /\ cmd # None /\ code = Running /\ cmd.op = "histogram"
  /\ FoldSet(LAMBDA i, n : n + Observations(i), 0, Instances) < MaxObserved
  /\ \E i \in Instances : \E b \in Buckets[i] : observed' = [observed EXCEPT ![i][b] = @ + 1]
  /\ UNCHANGED <<cmd, fresh, sent, reply, first, rows, code>>
Scrape ==
  /\ cmd # None /\ code = Running /\ cmd.op = "histogram"
  /\ \E i \in fresh : fresh' = fresh \ {i}
  /\ UNCHANGED <<cmd, observed, sent, reply, first, rows, code>>

(* sum by (le): a series for every spelling of a bound, over the instances *)
(* that spell it so.                                                       *)
Count(i, b) == FoldSet(LAMBDA x, n : n + observed[i][x], 0, {x \in Buckets[i] : Value[x] <= Value[b]})
Sums(instances) ==
  [b \in UNION {Buckets[i] : i \in instances} |-> FoldSet(LAMBDA i, n : n + Count(i, b), 0, {i \in instances : b \in Buckets[i]})]
Vector(f) ==
  LET les == SetToSeq(DOMAIN f)
  IN Object([resultType |-> Text(<<"vector">>),
             result |-> [kind |-> "list",
               of |-> [i \in DOMAIN les |-> Object([metric |-> Object([le |-> Text(<<les[i]>>)]),
                                                    value |-> [kind |-> "list", of |-> <<Text(<<Now>>), Text(<<f[les[i]]>>)>>]])]]])
Replies(instances) == {Served("prom", d) : d \in {Vector(Sums(instances))} \cup Data["prom"]["histogram"]} \cup Faults

le_entry(series) ==
  LET le == str_or(get(get(series, "metric"), "le"), <<None>>)[1]
      pair == as_array(get(series, "value"))
  IN IF le \notin DOMAIN Value \/ pair = None \/ Len(pair) < 2 \/ pair[2].kind # "text" \/ pair[2].of[1] = None THEN None
     ELSE [le |-> le, val |-> pair[2].of[1]]
Inserted(entries, e) == Append(SelectSeq(entries, LAMBDA x : x.le # e.le), e)
vector_by_le(d) ==
  LET list == as_array(get(d, "result"))
      entries == Collect([i \in DOMAIN list |-> le_entry(list[i])])
  IN IF get(d, "resultType") # Text(<<"vector">>) \/ list = None \/ entries = None THEN None
     ELSE FoldLeft(Inserted, <<>>, entries)
(* The entries come out of a hash map: bounds spelled in two ways are in   *)
(* any order.                                                              *)
ByBound(entries) ==
  {s \in [DOMAIN entries -> Range(entries)] :
     Range(s) = Range(entries) /\ \A i, k \in DOMAIN s : i < k => Value[s[i].le] <= Value[s[k].le]}
RateAt(rates, le) == LET at == SelectInSeq(rates, LAMBDA e : e.le = le) IN IF at = 0 THEN None ELSE rates[at].val
build_buckets(sorted, rates) ==
  [i \in DOMAIN sorted |->
     [le |-> sorted[i].le, cum |-> sorted[i].val, delta |-> sorted[i].val - (IF i = 1 THEN 0 ELSE sorted[i - 1].val),
      rate |-> RateAt(rates, sorted[i].le)]]

QueryCounts ==
  /\ cmd # None /\ code = Running /\ cmd.op = "histogram" /\ first = None
  /\ \E r \in Replies(Instances) :
       LET got == Got("prom", r)
       IN /\ reply' = r
          /\ CASE got.kind = "absent" -> code' = 1 /\ UNCHANGED <<rows, first>>
               [] got.kind = "failed" -> Refuse /\ UNCHANGED first
               [] OTHER -> first' = [of |-> got.of, observed |-> observed] /\ UNCHANGED <<rows, code>>
  /\ UNCHANGED <<cmd, observed, fresh, sent>>
QueryRates ==
  /\ cmd # None /\ code = Running /\ cmd.op = "histogram" /\ first # None
  /\ \E r \in Replies(Instances \ fresh) :
       LET got == Got("prom", r)
       IN /\ reply' = r
          /\ CASE got.kind = "absent" -> code' = 1 /\ UNCHANGED rows
               [] got.kind = "failed" -> Refuse
               [] got.kind = "data" /\ cmd.json -> emit_json(<<first.of, got.of>>)
               [] OTHER -> LET counts == vector_by_le(first.of)
                               rates == vector_by_le(got.of)
                           IN IF counts = None \/ rates = None THEN Refuse
                              ELSE \E sorted \in ByBound(counts) : Cut(build_buckets(sorted, rates))
  /\ UNCHANGED <<cmd, observed, fresh, sent, first>>

Init ==
  /\ cmd = None /\ sent = None /\ reply = None /\ first = None /\ rows = <<>> /\ code = Running
  /\ observed = <<>> /\ fresh = {}
Next == Ask \/ Fetch \/ Observe \/ Scrape \/ QueryCounts \/ QueryRates
Spec == Init /\ [][Next]_vars

-----------------------------------------------------------------------------
(* Properties.                                                             *)

(* How PromQL and LogQL read a set of labels or matchers.                  *)
Start == [mode |-> "key", back |-> FALSE, key |-> <<>>, op |-> <<>>, value |-> <<>>, out |-> <<>>]
Reader(a, c) ==
  CASE a.mode = "key" /\ c \in {"=", "!"} -> [a EXCEPT !.mode = "op", !.op = <<c>>]
    [] a.mode = "key" /\ c \notin {"=", "!", "quote"} -> [a EXCEPT !.key = Append(@, c)]
    [] a.mode = "op" /\ c \in {"=", "~"} -> [a EXCEPT !.op = Append(@, c)]
    [] a.mode = "op" /\ c = "quote" -> [a EXCEPT !.mode = "value"]
    [] a.mode = "value" /\ a.back -> [a EXCEPT !.back = FALSE, !.value = Append(@, IF c = "n" THEN "nl" ELSE c)]
    [] a.mode = "value" /\ ~a.back /\ c = "bs" -> [a EXCEPT !.back = TRUE]
    [] a.mode = "value" /\ ~a.back /\ c = "quote" ->
         [Start EXCEPT !.mode = "after", !.out = Append(a.out, [key |-> a.key, op |-> a.op, value |-> a.value])]
    [] a.mode = "value" /\ ~a.back /\ c \notin {"bs", "quote", "nl"} -> [a EXCEPT !.value = Append(@, c)]
    [] a.mode = "after" /\ c = "," -> [a EXCEPT !.mode = "key"]
    [] OTHER -> [a EXCEPT !.mode = "error"]
ReadBack(text) ==
  LET end == FoldLeft(Reader, Start, text) IN IF text = <<>> THEN <<>> ELSE IF end.mode = "after" THEN end.out ELSE None
Inner(text) == SubSeq(text, SelectInSeq(text, LAMBDA c : c = "{") + 1, Len(text) - 1)

(* A set of labels is printed so that reading it gives these labels again, *)
(* whatever quotes, backslashes, commas and lines are in their values: no  *)
(* two series look the same, each is listed, and a silence's matchers can  *)
(* be pasted into a query (query.rs, series.rs, format_labels; am.rs,      *)
(* format_matchers).  The selector sent is the labels that were asked for, *)
(* or one that the server refuses (histogram.rs, build_matcher).           *)
Done == cmd # None /\ code \in {0, 1} /\ reply.status = 200
Plainly == Done /\ ~cmd.json /\ cmd.limit = None
Now_ == Got(cmd.server, reply).of
Apart == IF cmd.op = "series" /\ cmd.server = "prom" THEN {"__name__"} ELSE {}
AsSet(v) == IF v = None THEN {} ELSE {[key |-> <<k>>, op |-> <<"=">>, value |-> v.of[k].of] : k \in DOMAIN v.of \ Apart}
HeldSeries ==
  IF cmd.op = "series" THEN {AsSet(v) : v \in Range(Now_.of)}
  ELSE LET list == as_array(get(Now_, "result"))
       IN IF get(Now_, "resultType").of[1] \in {"scalar", "string"} THEN {}
          ELSE {AsSet(IF get(s, "stream") # None THEN get(s, "stream") ELSE get(s, "metric")) : s \in {x \in Range(list) : get(x, "values") = None \/ get(x, "values").of # <<>>}}
LabelCell(row) == IF cmd.op = "series" \/ row[1][1] = "{" THEN row[1] ELSE row[2]
Matchers(v) ==
  [i \in DOMAIN v.of |-> [key |-> v.of[i].of.name.of, value |-> v.of[i].of.value.of,
                          op |-> IF ~Is(get(v.of[i], "isEqual"), TRUE) THEN IF Is(get(v.of[i], "isRegex"), FALSE) THEN <<"!", "~">> ELSE <<"!", "=">>
                                 ELSE IF Is(get(v.of[i], "isRegex"), FALSE) THEN <<"=", "~">> ELSE <<"=">>]]
LabelsAreTold ==
  /\ Plainly /\ cmd.op \in {"series", "query", "range"} /\ HeldSeries # {} =>
       {ReadBack(Inner(LabelCell(rows[i]))) : i \in DOMAIN rows} = {ReadBack(Inner(LabelCell(rows[i]))) : i \in DOMAIN rows} \ {None}
       /\ {Range(ReadBack(Inner(LabelCell(rows[i])))) : i \in DOMAIN rows} = HeldSeries
  /\ Plainly /\ cmd.op = "silences" =>
       \A i \in DOMAIN rows : \E s \in Range(Now_.of) :
         str_or(get(s, "id"), Dash) = rows[i][2] /\ ReadBack(rows[i][5]) = IF get(s, "matchers") = None THEN <<>> ELSE Matchers(get(s, "matchers"))
  /\ sent # None /\ cmd.labels # None =>
       LET meant == [i \in DOMAIN cmd.meant |-> [key |-> cmd.meant[i].key, op |-> <<"=">>, value |-> cmd.meant[i].value]]
           read == ReadBack(Inner(sent.selector))
       IN IF \E i \in DOMAIN meant : "nl" \in Range(meant[i].value) THEN read = None ELSE read = meant

(* Nothing that is wrong is left out of a table: a firing alert or rule, a *)
(* target that is not up, an active silence; rows are in the order of      *)
(* their columns, and an unchanged server that lists its entries the other *)
(* way round gives the same rows, up to those with the same key.           *)
Alarming(item) ==
  CASE cmd.op = "targets" -> get(item, "health") # Text(<<"up">>)
    [] cmd.op = "rules" -> get(item.is, "state") = Text(<<"firing">>)
    [] cmd.op = "alerts" /\ cmd.server = "prom" -> get(item, "state") = Text(<<"firing">>)
    [] cmd.op \in {"alerts", "silences"} -> get(get(item, "status"), "state") = Text(<<"active">>)
    [] OTHER -> TRUE
Asked(item) ==
  cmd.only = None \/ str_or(get(get(item, "labels"), IF cmd.op = "targets" THEN "job" ELSE "alertname"), Dash) \in cmd.only
StateColumn == IF cmd.op \in {"targets"} \/ cmd.server = "am" THEN 1 ELSE IF cmd.op = "rules" THEN 2 ELSE 5
RowAlarms(row) ==
  CASE cmd.op = "metadata" -> TRUE [] cmd.op = "targets" -> row[1] # <<"up">>
    [] OTHER -> row[StateColumn] \in {<<"firing">>, <<"active">>}
TablesAreWhole ==
  Plainly /\ cmd.op \in Tables /\ "pending" \notin cmd.flags =>
    LET items == Items(cmd.server, cmd.op, Now_)
    IN /\ Cardinality({i \in DOMAIN rows : RowAlarms(rows[i])}) = Cardinality({i \in DOMAIN items : Alarming(items[i]) /\ Asked(items[i])})
       /\ \A i, k \in DOMAIN rows : i < k => ~Less(Sorting(cmd, rows[k]), Sorting(cmd, rows[i]))
       /\ \/ Table(cmd, Reverse(items)) = rows
          \/ \E i, k \in DOMAIN rows : i # k /\ Sorting(cmd, rows[i]) = Sorting(cmd, rows[k])

(* Each entry of a log is one line of three cells, whatever is in it; and  *)
(* what is queried or named comes in the order of the lines, so that an    *)
(* unchanged server gives the same lines.                                  *)
LinesAreWhole ==
  /\ Plainly /\ cmd.server = "loki" /\ cmd.op \in {"query", "range"} =>
       \A i \in DOMAIN rows : {"nl", "tab"} \cap Range(Joined(rows[i], " ")) = {}
  /\ Plainly /\ cmd.op \in {"query", "range", "series", "labels", "values"} =>
       \A i, k \in DOMAIN rows : i < k => ~Less(Joined(rows[k], "tab"), Joined(rows[i], "tab"))

(* Only a success that was understood is answered with rows; 404 or no     *)
(* rows is exit 1, any other answer and any wrong argument is exit 2, and  *)
(* a duration is what its parts add up to, or is refused as too long; the  *)
(* window that is asked for ends now and begins that long ago.             *)
Meant(t) == cmd.times[t].means
ExitsAreTold ==
  /\ rows # <<>> => code = 0 /\ reply.status = 200 /\ (cmd.limit = None \/ Len(rows) <= cmd.limit)
  /\ code = 0 => rows # <<>> \/ (cmd.json /\ cmd.limit = 0)
  /\ code = 1 => reply.status \in {200, 404}
  /\ reply # None /\ reply.status = 404 => code = 1
  /\ reply # None /\ reply \in Faults /\ reply.status # 404 /\ cmd.server # "am" => code = 2
  /\ cmd # None => (sent = None) =
       \/ ~cmd.endpoint \/ (cmd.labels # None /\ cmd.meant = None)
       \/ \E t \in DOMAIN cmd.times : Meant(t) = None \/ (t \in {"step", "window"} /\ Meant(t) = 0)
  /\ sent # None /\ cmd.op = "range" =>
       LET unit == IF cmd.server = "loki" THEN Nanos ELSE 1
       IN /\ sent.window.end = unit * Now /\ sent.window.step = Meant("step")
          /\ sent.window.start = IF Meant("since") >= Now THEN 0 ELSE unit * (Now - Meant("since"))

(* Where all instances have the same buckets, spelled alike, the rows go   *)
(* up through the bounds, a delta is what was observed in the bucket by    *)
(* the first query, and a bucket has no rate where no instance had one by  *)
(* the second (histogram.rs, build_buckets).                               *)
Uniform == \A i, k \in Instances : Buckets[i] = Buckets[k]
BucketsAreTrue ==
  Plainly /\ cmd.op = "histogram" /\ first.of \notin Data["prom"]["histogram"] /\ reply.body.of.data \notin Data["prom"]["histogram"] =>
    /\ {rows[i].le : i \in DOMAIN rows} = UNION {Buckets[i] : i \in Instances}
    /\ \A i \in DOMAIN rows :
         /\ rows[i].cum <= Sums(Instances)[rows[i].le]
         /\ (rows[i].rate = None) = (\A x \in Instances \ fresh : rows[i].le \notin Buckets[x])
         /\ Uniform => /\ rows[i].delta = FoldSet(LAMBDA x, n : n + first.observed[x][rows[i].le], 0, Instances)
                       /\ i > 1 => Value[rows[i - 1].le] < Value[rows[i].le]

(* What sak prom and sak loki say of a server is so.                       *)
MetricsAreTrue == LabelsAreTold /\ TablesAreWhole /\ LinesAreWhole /\ ExitsAreTold /\ BucketsAreTrue
================================================================================
