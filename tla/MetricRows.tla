------------------------------ MODULE MetricRows ------------------------------
(***************************************************************************)
(* What sak prom, sak prom am and sak loki make of an answer (src/prom,    *)
(* src/loki): labels, tables, samples and listings as rows; and what they  *)
(* take for a duration (src/duration.rs).                                  *)
(*                                                                         *)
(* A text is a sequence of characters, some of them words.  A JSON value   *)
(* is [kind, of]; what is absent is None, and so is a malformed answer.    *)
(* The number a text stands for is its one character, or None if none.     *)
(***************************************************************************)
EXTENDS Integers, Sequences, FiniteSets, SequencesExt, FiniteSetsExt

CONSTANTS
  None,
  Rank,      \* the order of characters
  MaxNumber  \* the largest u64

Lt(a, b) == Rank[a] < Rank[b]
Less(s, t) ==
  \/ IsStrictPrefix(s, t)
  \/ \E i \in DOMAIN s \cap DOMAIN t : Lt(s[i], t[i]) /\ SubSeq(s, 1, i - 1) = SubSeq(t, 1, i - 1)
Joined(texts, by) == FlattenSeq([i \in DOMAIN texts |-> IF i = 1 THEN texts[i] ELSE <<by>> \o texts[i]])
(* A stable sort, and the rows of which one is malformed.                  *)
Sorted(s, key) ==
  LET before(i) == {j \in DOMAIN s : Less(key[j], key[i]) \/ (key[j] = key[i] /\ j < i)}
  IN [k \in DOMAIN s |-> s[CHOOSE i \in DOMAIN s : Cardinality(before(i)) = k - 1]]
Collect(s) == IF \E i \in DOMAIN s : s[i] = None THEN None ELSE s
Flattened(s) == IF Collect(s) = None THEN None ELSE FlattenSeq(s)
Upto(s, n) == IF n = None \/ n >= Len(s) THEN s ELSE SubSeq(s, 1, n)

-----------------------------------------------------------------------------
(* Durations (src/duration.rs).                                            *)

Numerals == <<"0", "1", "2", "3", "4", "5", "6", "7", "8", "9">>
Digits == [c \in Range(Numerals) |-> (CHOOSE i \in DOMAIN Numerals : Numerals[i] = c) - 1]
Seconds == [c \in {"s", "m", "h", "d", "w"} |->
              CASE c = "s" -> 1 [] c = "m" -> 60 [] c = "h" -> 3600 [] c = "d" -> 86400 [] OTHER -> 604800]
Bad == [total |-> None, num |-> 0, digit |-> FALSE, unit |-> FALSE]
Segment(acc, c) ==
  CASE acc.total = None -> Bad
    [] acc.total # None /\ c \in DOMAIN Digits ->
         IF acc.num > (MaxNumber - Digits[c]) \div 10 THEN Bad
         ELSE [acc EXCEPT !.num = 10 * @ + Digits[c], !.digit = TRUE]
    [] OTHER ->
         IF \/ ~acc.digit \/ c \notin DOMAIN Seconds \/ acc.num > MaxNumber \div Seconds[c]
            \/ acc.total > MaxNumber - acc.num * Seconds[c] THEN Bad
         ELSE [total |-> acc.total + acc.num * Seconds[c], num |-> 0, digit |-> FALSE, unit |-> TRUE]
parse_duration(text) ==
  LET end == FoldLeft(Segment, [total |-> 0, num |-> 0, digit |-> FALSE, unit |-> FALSE], text)
  IN IF end.digit \/ ~end.unit THEN None ELSE end.total

-----------------------------------------------------------------------------
(* Values of an answer.                                                    *)

get(v, key) == IF v # None /\ v.kind = "object" /\ key \in DOMAIN v.of THEN v.of[key] ELSE None
str_or(v, default) == IF v # None /\ v.kind = "text" THEN v.of ELSE default
as_array(v) == IF v # None /\ v.kind = "list" THEN v.of ELSE None
Dash == <<"-">>
label(v, name) == str_or(get(get(v, "labels"), name), Dash)
Summary(v) == str_or(get(get(v, "annotations"), "summary"), <<>>)
State(v) == str_or(get(get(v, "status"), "state"), Dash)
collapse_newlines(text) == [i \in DOMAIN text |-> IF text[i] \in {"nl", "cr"} THEN " " ELSE text[i]]
collapse_ws(text) == [i \in DOMAIN text |-> IF text[i] \in {"nl", "cr", "tab"} THEN " " ELSE text[i]]
Escaped(c) == CASE c = "bs" -> <<"bs", "bs">> [] c = "quote" -> <<"bs", "quote">> [] c = "nl" -> <<"bs", "n">> [] OTHER -> <<c>>
(* As it would be with the quotes alone escaped.                           *)
escape_label_value_Quotes(text) ==
  FlattenSeq([i \in DOMAIN text |-> IF text[i] = "quote" THEN Escaped(text[i]) ELSE <<text[i]>>])
escape_label_value(text) == FlattenSeq([i \in DOMAIN text |-> Escaped(text[i])])
Quoted(key, op, text) == <<key>> \o op \o <<"quote">> \o escape_label_value(text) \o <<"quote">>
Keys(f) == SetToSortSeq(DOMAIN f, Lt)
Labels(f) ==
  LET keys == Keys(f)
  IN <<"{">> \o Joined([i \in DOMAIN keys |-> Quoted(keys[i], <<"=">>, str_or(f[keys[i]], <<>>))], ",") \o <<"}">>
format_labels(v) == IF v # None /\ v.kind = "object" THEN Labels(v.of) ELSE Labels(<<>>)
(* prom/series.rs sets the name apart; Loki's series have none.            *)
format_series(server, v) ==
  IF v.kind # "object" THEN None
  ELSE IF server = "loki" THEN format_labels(v)
  ELSE str_or(get(v, "__name__"), <<>>) \o Labels([k \in DOMAIN v.of \ {"__name__"} |-> v.of[k]])
Operator(equal, regex) == (IF equal THEN <<"=">> ELSE <<"!">>) \o (IF regex THEN <<"~">> ELSE IF equal THEN <<>> ELSE <<"=">>)
Is(v, default) == IF v # None /\ v.kind = "bool" THEN v.of ELSE default
format_matchers(v) ==
  IF as_array(v) = None THEN <<>>
  ELSE Joined([i \in DOMAIN v.of |->
         str_or(get(v.of[i], "name"), <<>>) \o Operator(Is(get(v.of[i], "isEqual"), TRUE), Is(get(v.of[i], "isRegex"), FALSE))
         \o <<"quote">> \o escape_label_value(str_or(get(v.of[i], "value"), <<>>)) \o <<"quote">>], ",")

-----------------------------------------------------------------------------
(* Tables: the items of an answer, their cells, which of them are wanted,  *)
(* the columns they are sorted by and the last column, which is flattened. *)

extract_alert_row(a) ==
  LET value == get(a, "value")
  IN <<label(a, "alertname"), label(a, "severity"), label(a, "instance"),
       IF value # None /\ value.kind \in {"text", "number"} THEN value.of ELSE Dash,
       str_or(get(a, "state"), Dash), str_or(get(a, "activeAt"), Dash), Summary(a)>>
extract_am_alert_row(a) ==
  <<State(a), label(a, "alertname"), label(a, "severity"), label(a, "instance"), str_or(get(a, "startsAt"), Dash), Summary(a)>>
extract_am_silence_row(s) ==
  <<State(s), str_or(get(s, "id"), Dash), str_or(get(s, "endsAt"), Dash), str_or(get(s, "createdBy"), Dash),
    format_matchers(get(s, "matchers")), str_or(get(s, "comment"), <<>>)>>
extract_rule_row(r) ==
  <<str_or(get(r.is, "type"), Dash), str_or(get(r.is, "state"), Dash), str_or(get(r.is, "health"), Dash), r.of,
    str_or(get(r.is, "name"), Dash), str_or(get(r.is, "query"), <<>>)>>
extract_target_row(t) ==
  <<str_or(get(t, "health"), Dash), label(t, "job"), label(t, "instance"), str_or(get(t, "scrapeUrl"), Dash),
    str_or(get(t, "lastScrape"), Dash), str_or(get(t, "lastError"), <<>>)>>
metadata_row(m) ==
  <<<<m.of>>, str_or(get(m.is, "type"), Dash), str_or(get(m.is, "unit"), <<>>), str_or(get(m.is, "help"), <<>>)>>

Under(list, name) == IF as_array(list) = None THEN <<>> ELSE [i \in DOMAIN list.of |-> [of |-> name, is |-> list.of[i]]]
Items(server, op, d) ==
  CASE op = "alerts" /\ server = "prom" -> as_array(get(d, "alerts"))
    [] op = "targets" -> as_array(get(d, "activeTargets"))
    [] op = "rules" ->
         LET groups == as_array(get(d, "groups"))
         IN IF groups = None THEN None
            ELSE FlattenSeq([i \in DOMAIN groups |-> Under(get(groups[i], "rules"), str_or(get(groups[i], "name"), Dash))])
    [] op = "metadata" ->
         IF d.kind # "object" THEN None
         ELSE LET keys == Keys(d.of)
              IN Flattened([i \in DOMAIN keys |-> IF as_array(d.of[keys[i]]) = None THEN None ELSE Under(d.of[keys[i]], keys[i])])
    [] OTHER -> as_array(d)
Cells(server, op, item) ==
  CASE op = "alerts" /\ server = "prom" -> extract_alert_row(item)
    [] op = "alerts" /\ server = "am" -> extract_am_alert_row(item)
    [] op = "silences" -> extract_am_silence_row(item)
    [] op = "rules" -> extract_rule_row(item)
    [] op = "targets" -> extract_target_row(item)
    [] OTHER -> metadata_row(item)
state_filter(flags, state) ==
  \/ "all" \in flags
  \/ state = <<"firing">> /\ "pending" \notin flags
  \/ state = <<"pending">> /\ "firing" \notin flags
Named(c, name) == c.only = None \/ name \in c.only
Wanted(c, row) ==
  CASE c.op = "alerts" /\ c.server = "prom" -> state_filter(c.flags, row[5]) /\ Named(c, row[1])
    [] c.op = "alerts" /\ c.server = "am" -> ("all" \in c.flags \/ row[1] = <<"active">>) /\ Named(c, row[2])
    [] c.op = "silences" -> "all" \in c.flags \/ row[1] = <<"active">>
    [] c.op = "rules" -> "firing" \in c.flags => row[2] = <<"firing">>
    [] c.op = "targets" -> ("down" \in c.flags => row[1] # <<"up">>) /\ Named(c, row[2])
    [] OTHER -> TRUE
Columns(server, op) ==
  CASE op = "alerts" /\ server = "prom" -> <<5, 1, 3>> [] op = "alerts" /\ server = "am" -> <<1, 2, 4>>
    [] op = "silences" -> <<1, 2>> [] op = "rules" -> <<4, 5, 6>> [] op = "targets" -> <<2, 3>> [] OTHER -> <<1, 2, 4>>
Tables == {"alerts", "silences", "rules", "targets", "metadata"}
Sorting(c, row) == LET by == Columns(c.server, c.op) IN Joined([k \in DOMAIN by |-> row[by[k]]], "tab")
Table(c, items) ==
  LET kept == SelectSeq([i \in DOMAIN items |-> Cells(c.server, c.op, items[i])], LAMBDA r : Wanted(c, r))
      sorted == Sorted(kept, [i \in DOMAIN kept |-> Sorting(c, kept[i])])
  IN [i \in DOMAIN sorted |-> [sorted[i] EXCEPT ![Len(sorted[i])] = collapse_newlines(@)]]

-----------------------------------------------------------------------------
(* Lines: what the queries and the listings of names answer.               *)

parse_sample_pair(v) ==
  LET pair == as_array(v)
  IN IF pair = None \/ Len(pair) # 2 \/ pair[1].kind \notin {"text", "number"} \/ pair[2].kind # "text" THEN None
     ELSE <<pair[1].of, pair[2].of>>
parse_stream_entry(v) == IF as_array(v) = None \/ v.of = <<>> \/ v.of[1].kind # "text" THEN None ELSE parse_sample_pair(v)
Entry(type, series, v) ==
  IF type = "streams"
  THEN LET e == parse_stream_entry(v) IN IF e = None THEN None ELSE <<e[1], format_labels(get(series, "stream")), collapse_ws(e[2])>>
  ELSE LET e == parse_sample_pair(v) IN IF e = None THEN None ELSE <<format_labels(get(series, "metric"))>> \o e
Entries(type, series) ==
  LET values == as_array(get(series, "values"))
  IN IF values = None THEN None ELSE Collect([i \in DOMAIN values |-> Entry(type, series, values[i])])
Point(series) ==
  LET e == parse_sample_pair(get(series, "value")) IN IF e = None THEN None ELSE <<format_labels(get(series, "metric")), e[2]>>
format_result(server, d) ==
  LET type == str_or(get(d, "resultType"), <<None>>)[1]
      result == get(d, "result")
      list == as_array(result)
  IN CASE type \in {"scalar", "string"} /\ server = "prom" ->
            IF parse_sample_pair(result) = None THEN None ELSE <<<<parse_sample_pair(result)[2]>>>>
       [] type = "vector" /\ list # None -> Collect([i \in DOMAIN list |-> Point(list[i])])
       [] (type = "matrix" \/ (type = "streams" /\ server = "loki")) /\ list # None ->
            Flattened([i \in DOMAIN list |-> Entries(type, list[i])])
       [] OTHER -> None
extract_strings(d) == IF as_array(d) = None THEN None ELSE Collect([i \in DOMAIN d.of |-> IF d.of[i].kind = "text" THEN <<d.of[i].of>> ELSE None])
extract_series_lines(server, d) ==
  IF as_array(d) = None THEN None
  ELSE Collect([i \in DOMAIN d.of |-> LET line == format_series(server, d.of[i]) IN IF line = None THEN None ELSE <<line>>])

(* Properties of the server: flags, the head and the sections of the       *)
(* database in the order they come, the lines of the configuration.        *)
Verbatim(v) == IF v.kind \in {"text", "number"} THEN v.of ELSE <<v.kind>>
flag_rows(d) ==
  IF d.kind # "object" THEN None ELSE LET keys == Keys(d.of) IN [i \in DOMAIN keys |-> <<<<keys[i]>>, collapse_newlines(Verbatim(d.of[keys[i]]))>>]
HeadKeys == <<"numSeries", "numLabelPairs", "chunkCount", "minTime", "maxTime">>
SECTIONS ==
  <<<<"series_by_metric", "seriesCountByMetricName">>, <<"label_values_by_name", "labelValueCountByLabelName">>,
    <<"memory_by_label", "memoryInBytesByLabelName">>, <<"series_by_label_pair", "seriesCountByLabelValuePair">>>>
value_to_string(v) == IF v = None \/ v.kind = "null" THEN Dash ELSE Verbatim(v)
HeadLine(head, key) == IF get(head, key) = None THEN <<>> ELSE <<<<<<"head">>, <<key>>, value_to_string(get(head, key))>>>>
Section(name, list) ==
  IF list = None THEN <<>> ELSE [i \in DOMAIN list |-> <<<<name>>, str_or(get(list[i], "name"), Dash), value_to_string(get(list[i], "value"))>>]
extract_tsdb_lines(d) ==
  IF d.kind # "object" THEN None
  ELSE FlattenSeq([i \in DOMAIN HeadKeys |-> HeadLine(get(d, "headStats"), HeadKeys[i])])
       \o FlattenSeq([i \in DOMAIN SECTIONS |-> Section(SECTIONS[i][1], as_array(get(d, SECTIONS[i][2])))])
Chomped(line) == IF line # <<>> /\ Last(line) = "cr" THEN Front(line) ELSE line
Broken(lines, c) ==
  IF c = "nl" THEN Append([lines EXCEPT ![Len(lines)] = Chomped(@)], <<>>) ELSE [lines EXCEPT ![Len(lines)] = Append(@, c)]
yaml_lines(d) ==
  LET yaml == str_or(get(d, "yaml"), None)
      lines == FoldLeft(Broken, <<<<>>>>, yaml)
  IN IF yaml = None THEN None
     ELSE LET kept == IF Last(lines) = <<>> THEN Front(lines) ELSE lines IN [i \in DOMAIN kept |-> <<kept[i]>>]

InOrder(lines) == IF lines = None THEN None ELSE Sorted(lines, [i \in DOMAIN lines |-> Joined(lines[i], "tab")])
build_rows(c, d) ==
  CASE c.op \in Tables ->
         IF Items(c.server, c.op, d) = None \/ "unreadable" \in c.flags THEN None ELSE Table(c, Items(c.server, c.op, d))
    [] c.op \in {"query", "range"} -> InOrder(format_result(c.server, d))
    [] c.op \in {"labels", "values"} -> InOrder(extract_strings(d))
    [] c.op = "series" -> InOrder(extract_series_lines(c.server, d))
    [] c.op = "flags" -> flag_rows(d)
    [] c.op = "tsdb" -> extract_tsdb_lines(d)
    [] OTHER -> yaml_lines(d)
=============================================================================
