-------------------------------- MODULE Lists --------------------------------
(* What the json commands do with the elements of an array: take some,     *)
(* sort, tell apart, count, keep those a predicate holds of, and project   *)
(* into cells.                                                             *)
EXTENDS Documents

CONSTANTS Collation, \* the texts scalars have, in the order of their bytes
          NumberOf   \* the number each text parses to, for those that do

Elements(d) == [i \in 1 .. Size(d) |-> Children(d)[Positions[i]]]
ArrayOf(s) == Build("array", [p \in {Positions[i] : i \in DOMAIN s} |-> s[Index(p)]])
Text(d) == IF IsContainer(d) THEN ToString(d) ELSE d[<<>>].v
JsonText(d) == IF type_name(d) = "string" THEN "'" \o Text(d) \o "'" ELSE Text(d)

-----------------------------------------------------------------------------
(* Which elements.  Lost stands for the error of a path that leads nowhere *)
(* or to something that is no array.                                       *)
Lost == <<Broken>>
Resolved(d, e) == {Part(d, p) : p \in DOMAIN d \cap resolve_expression(d, e)}
Single(S) == CHOOSE x \in S : TRUE

Joined(found) ==
  IF \E i \in DOMAIN found : found[i] = {} \/ type_name(Single(found[i])) /= "array" THEN Lost
  ELSE FlattenSeq([i \in DOMAIN found |-> Elements(Single(found[i]))])
collect_elements(in, e) == Joined([i \in DOMAIN in |-> Resolved(in[i], e)])

(* count and uniq look into each element, pass over those without the     *)
(* path and spread the arrays they find.                                  *)
Records(d) == IF type_name(d) = "array" THEN Elements(d) ELSE <<d>>
Spread(found) == IF found = {} THEN <<>> ELSE Records(Single(found))
ValuesAt(records, e) ==
  IF records /= <<>> /\ ~parses(e) THEN Lost
  ELSE FlattenSeq([i \in DOMAIN records |-> Spread(Resolved(records[i], e))])
collect_path_values(in, e) == ValuesAt(FlattenSeq([i \in DOMAIN in |-> Records(in[i])]), e)

Least(x, y) == IF x < y THEN x ELSE y
apply_take(s, take) ==
  CASE take.kind = "first" -> SubSeq(s, 1, Least(take.n, Len(s)))
    [] take.kind = "last" -> SubSeq(s, Len(s) - Least(take.n, Len(s)) + 1, Len(s))
    [] take.kind = "range" -> SubSeq(s, take.n + 1, Least(take.end, Len(s)))

-----------------------------------------------------------------------------
(* Orders.  A comparison is negative, zero or positive.                    *)
TypeRank == [t \in {"null", "boolean", "number", "string", "array", "object"} |->
               CASE t = "null" -> 0 [] t = "boolean" -> 1 [] t = "number" -> 2
                 [] t = "string" -> 3 [] t = "array" -> 4 [] t = "object" -> 5]
Collated(t) == CHOOSE i \in DOMAIN Collation : Collation[i] = t
IsNumeric(d) == type_name(d) \in {"number", "string"} /\ Text(d) \in DOMAIN NumberOf
scalar_cmp(a, b) ==
  IF type_name(a) = "number" /\ type_name(b) = "number" THEN NumberOf[Text(a)] - NumberOf[Text(b)]
  ELSE Collated(Text(a)) - Collated(Text(b))
value_cmp(a, b, numeric) ==
  CASE numeric /\ IsNumeric(a) /\ IsNumeric(b) -> NumberOf[Text(a)] - NumberOf[Text(b)]
    [] numeric /\ IsNumeric(a) /\ ~IsNumeric(b) -> -1
    [] numeric /\ ~IsNumeric(a) /\ IsNumeric(b) -> 1
    [] OTHER -> IF type_name(a) /= type_name(b)
                THEN TypeRank[type_name(a)] - TypeRank[type_name(b)] ELSE scalar_cmp(a, b)

(* mistake: reversing takes the missing to the front.                      *)
key_cmp_Flipped(a, b, numeric, reverse) ==
  LET ord == CASE a = {} /\ b = {} -> 0
               [] a = {} /\ b /= {} -> 1
               [] a /= {} /\ b = {} -> -1
               [] OTHER -> value_cmp(Single(a), Single(b), numeric)
  IN  IF reverse THEN -ord ELSE ord
(* key_cmp: an element without the field goes behind the others, whichever *)
(* way the rest is sorted.                                                 *)
key_cmp(a, b, numeric, reverse) ==
  CASE a = {} /\ b = {} -> 0
    [] a = {} /\ b /= {} -> 1
    [] a /= {} /\ b = {} -> -1
    [] OTHER -> LET ord == value_cmp(Single(a), Single(b), numeric) IN IF reverse THEN -ord ELSE ord

(* Slice::sort_by is stable: an element goes behind those it ties with.    *)
sort_by(s, Cmp(_, _)) ==
  FoldLeft(LAMBDA acc, x : InsertAt(acc, Cardinality({i \in DOMAIN acc : Cmp(acc[i], x) <= 0}) + 1, x),
           <<>>, s)
sort_by_key(s, field, numeric, reverse) ==
  sort_by(s, LAMBDA x, y : key_cmp(Resolved(x, field), Resolved(y, field), numeric, reverse))

distinct_sorted(s) ==
  LET text_cmp(x, y) == Collated(JsonText(x)) - Collated(JsonText(y))
      cmp(x, y) == IF value_cmp(x, y, FALSE) /= 0 THEN value_cmp(x, y, FALSE) ELSE text_cmp(x, y)
      sorted == sort_by(s, cmp)
  IN  FoldLeft(LAMBDA acc, x : IF acc /= <<>> /\ JsonText(Last(acc)) = JsonText(x) THEN acc
                               ELSE Append(acc, x), <<>>, sorted)

-----------------------------------------------------------------------------
(* Counts, cells and predicates.                                           *)
Missing == "-"
render_cell(found) ==
  IF found = {} \/ found = {Null} THEN Missing ELSE Text(Single(found))

(* tally: how often each text is found, the elements without the field     *)
(* grouped by passed over.                                                 *)
occurrences(keys) ==
  [t \in UNION ToSet(keys) |-> Cardinality({i \in DOMAIN keys : keys[i] = {t}})]
tally(s, by) ==
  LET key(found) == IF found = {} THEN {} ELSE {render_cell(found)}
  IN  occurrences([i \in DOMAIN s |-> key(Resolved(s[i], by))])

(* A container is looked into, by columns that must all be paths; a scalar *)
(* fills the first column.  NoRow stands for the error of a malformed one. *)
NoRow == <<>>
project_row(element, fields) ==
  CASE ~IsContainer(element) -> [j \in DOMAIN fields |-> IF j = 1 THEN render_cell({element}) ELSE Missing]
    [] IsContainer(element) ->
         IF \E j \in DOMAIN fields : ~parses(fields[j]) THEN NoRow
         ELSE [j \in DOMAIN fields |-> render_cell(Resolved(element, fields[j]))]

(* --where: numbers compare as numbers and strings as text; nothing else   *)
(* is ordered, and a missing path equals nothing.  A regex is the set of   *)
(* the texts it matches.                                                   *)
eq_value(found, literal) ==
  /\ found /= {}
  /\ LET v == Single(found)
     IN  IF type_name(v) = "number" /\ type_name(literal) = "number"
         THEN NumberOf[Text(v)] = NumberOf[Text(literal)] ELSE v = literal
Ordered(found, literal) ==
  found /= {} /\ type_name(literal) \in {"number", "string"}
  /\ type_name(Single(found)) = type_name(literal)
ord_value(found, literal) == scalar_cmp(Single(found), literal)
holds(pred, found) ==
  LET ordered == Ordered(found, pred.literal)
      matched == found /= {} /\ Text(Single(found)) \in pred.regex
  IN  CASE pred.op = "=" -> eq_value(found, pred.literal)
        [] pred.op = "!=" -> ~eq_value(found, pred.literal)
        [] pred.op = "~" -> matched
        [] pred.op = "!~" -> ~matched
        [] pred.op = "<" -> ordered /\ ord_value(found, pred.literal) < 0
        [] pred.op = "<=" -> ordered /\ ord_value(found, pred.literal) <= 0
        [] pred.op = ">" -> ordered /\ ord_value(found, pred.literal) > 0
        [] pred.op = ">=" -> ordered /\ ord_value(found, pred.literal) >= 0
eval_where(pred, element) == holds(pred, Resolved(element, pred.path))
filter_elements(s, preds) ==
  SelectSeq(s, LAMBDA x : \A pred \in preds : eval_where(pred, x))
=============================================================================
