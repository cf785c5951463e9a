------------------------------ MODULE SqlBuild ------------------------------
(***************************************************************************)
(* sqln query building: dynamic filters resolved through a mapping         *)
(* (sqln/filter), the predicates they become (sqln/criteria), the SQL text *)
(* and parameters written for a dialect (sqln/driver), and the pages the   *)
(* manager reads with them.                                                *)
(*                                                                         *)
(* The text is a sequence of tokens.  A condition token carries its        *)
(* placeholders: the number of the parameter, or Positional for MySQL's ?, *)
(* which takes the parameters in the order of the text.  A string value is *)
(* a sequence of characters, because LIKE reads it.                        *)
(***************************************************************************)
EXTENDS Integers, Sequences, SequencesExt

CONSTANTS Requests,     \* what callers ask for
          Dialects,     \* the databases it is asked of
          TableRows,         \* the table, in the order of the sort column
          Mapping,      \* name -> [column, ops, search, sortable]
          Limits,       \* maxFilters, maxInValues, maxLikeLength
          IndexColumns, \* the columns of the full-text index
          Unindexed,    \* search strings without a word that MySQL indexes
          DefaultLimit, \* page size when a request gives none
          Width         \* Page and Limit are unsigned, below Width

ASSUME SqlBuildAssumption ==
  /\ DefaultLimit \in 1..(Width - 1)
  /\ Dialects \subseteq {"postgres", "mysql", "sqlserver", "oracle"}

VARIABLES asked,    \* the request, Nothing before
          built,    \* its text and parameters, or the error
          read      \* the pages read: next page, rows, total pages

buildVars == <<asked, built, read>>

Nothing == [none |-> TRUE]
Nil == [null |-> TRUE]
Is(kind, v) == kind \in DOMAIN v
Positional == 0

BuildInit == asked = Nothing /\ built = Nothing /\ read = Nothing

-----------------------------------------------------------------------------
(* criteria.Predicate and its constructors.                                *)
Pred(op, field, value) ==
  [op |-> op, field |-> field, value |-> value, literal |-> FALSE, err |-> FALSE, kids |-> <<>>]
And == Pred("AND", "", Nil)
Or == Pred("OR", "", Nil)
Group(ps) == [Pred("__group__", "", Nil) EXCEPT !.kids = ps]
Substring(p) == [p EXCEPT !.literal = TRUE]
Overlaps(field, v) == [Pred("&&", field, v) EXCEPT !.err = ~(Is("list", v) /\ v.typed)]
\* DateBetween: a zero date (0) or a reversed range fails the build.
DateBetween(field, from, to) ==
  [Pred("BETWEEN", field, [list |-> << [int |-> from], [int |-> to] >>, typed |-> FALSE])
     EXCEPT !.err = from = 0 \/ to = 0 \/ from > to]

IsLogical(p) == p.op \in {"AND", "OR"}

\* The constructors by the shape of their condition: Eq to Gte, In and NotIn,
\* IsNull to IsFalse.
Comparisons == {"=", "!=", "<", "<=", ">", ">="}
Memberships == {"IN", "NOT IN"}
ValueChecks == {"IS NULL", "IS NOT NULL", "IS TRUE", "IS FALSE"}

-----------------------------------------------------------------------------
(* sqln/filter: one filter to one predicate; Invalid rejects the request.  *)
InvalidFilter == Pred("invalid", "", Nil)

AllowedOperators ==
  Comparisons \cup Memberships \cup ValueChecks
  \cup {"LIKE", "NOT LIKE", "~~", "!~~", "SEARCH", "BETWEEN", "__group__"}
LikeConditions == {"LIKE", "NOT LIKE", "~~", "!~~", "SEARCH"}

\* A name a regular expression accepts; the ones it refuses hold a space.
IsIdentifier(s) == s \notin {"", "a b"}

\* scalarConditionPredicate
ScalarCondition(field, cond, v) ==
  IF cond \in Comparisons THEN Pred(cond, field, v) ELSE InvalidFilter

\* fmt.Sprintf("%v") of a value that is neither a string nor a signed number.
TextOf(v) ==
  CASE Is("bool", v) -> IF v.bool THEN << "t", "r", "u", "e" >> ELSE << "f", "a", "l", "s", "e" >>
    [] Is("uint", v) -> << ToString(v.uint) >>
    [] Is("time", v) -> << "@", ToString(v.time) >>

\* resolveValueType: a string of two dates is a range; a boolean, an unsigned
\* number and a single date become text.
ResolveValueType(v) == IF Is("bool", v) \/ Is("uint", v) \/ Is("time", v) THEN [str |-> TextOf(v)] ELSE v

\* buildScalarPredicate: only BETWEEN takes a range; a LIKE value is literal
\* text.
BuildScalar(field, cond, value) ==
  LET v == ResolveValueType(value)
  IN  CASE Is("range", v) ->
             IF cond = "BETWEEN" THEN Pred("BETWEEN", field, [list |-> v.range, typed |-> FALSE]) ELSE InvalidFilter
        [] Is("str", v) /\ cond \in LikeConditions \ {"SEARCH"} -> Substring(Pred(cond, field, v))
        [] OTHER -> ScalarCondition(field, cond, v)

\* buildOrExpansion
OrExpansion(field, cond, vs) ==
  LET part == [i \in 1..Len(vs) |-> ScalarCondition(field, cond, vs[i])]
  IN  IF \E i \in 1..Len(vs) : part[i] = InvalidFilter THEN InvalidFilter
      ELSE Group([i \in 1..(2 * Len(vs) - 1) |-> IF i % 2 = 0 THEN Or ELSE part[(i + 1) \div 2]])

\* buildSingleElementPredicate: membership in a list of one is equality.
BuildSingleElement(field, cond, v) ==
  BuildScalar(field, CASE cond = "IN" -> "=" [] cond = "NOT IN" -> "!=" [] OTHER -> cond, v)

\* buildBetweenPredicate and toTimeSlice: two dates.
BuildBetween(field, vs) ==
  IF Len(vs) = 2 /\ \A i \in 1..2 : Is("time", vs[i])
  THEN Pred("BETWEEN", field, [list |-> << [int |-> vs[1].time], [int |-> vs[2].time] >>, typed |-> FALSE])
  ELSE InvalidFilter

\* buildSlicePredicate
BuildSlice(field, cond, vs) ==
  LET list == [list |-> vs, typed |-> FALSE]
  IN  CASE vs = <<>> -> InvalidFilter
        [] Len(vs) = 1 -> BuildSingleElement(field, cond, vs[1])
        [] cond = "BETWEEN" -> BuildBetween(field, vs)
        [] cond \in {"IN", "="} -> Pred("IN", field, list)
        [] cond \in {"NOT IN", "!="} -> Pred("NOT IN", field, list)
        [] OTHER -> OrExpansion(field, cond, vs)

\* filterToPredicate of a condition
FilterToPredicate(field, cond, v) ==
  CASE ~IsIdentifier(field) -> InvalidFilter
    [] cond = "IS NULL" -> Pred("IS NULL", field, Nil)
    [] cond = "IS NOT NULL" -> Pred("IS NOT NULL", field, Nil)
    [] Is("null", v) -> Pred("IS NULL", field, Nil)
    [] cond \notin AllowedOperators -> InvalidFilter
    [] Is("list", v) -> BuildSlice(field, cond, v.list)
    [] OTHER -> BuildScalar(field, cond, v)

Connective(f) == f.logical # ""

\* limits.check
WithinLimits(f) ==
  LET values == IF Is("list", f.value) THEN f.value.list ELSE << f.value >>
  IN  /\ Is("list", f.value) => Len(values) <= Limits.maxInValues
      /\ f.cond \in LikeConditions =>
           \A i \in 1..Len(values) : Is("str", values[i]) => Len(values[i].str) <= Limits.maxLikeLength

\* Field.searchPredicate
SearchPredicate(m, v) ==
  IF m.search /\ Is("str", v) THEN Pred("SEARCH", "", [term |-> v.str, on |-> ""]) ELSE InvalidFilter

\* Mapping.predicate: nothing outside the mapping.
MappedPredicate(f) ==
  LET m == Mapping[f.name]
      cond == IF Is("null", f.value) /\ f.cond = "" THEN "IS NULL" ELSE f.cond
  IN  CASE Connective(f) ->
             IF f.logical = "AND" THEN And ELSE IF f.logical = "OR" THEN Or ELSE InvalidFilter
        [] f.name \notin DOMAIN Mapping -> InvalidFilter
        [] m.ops # {} /\ cond \notin m.ops -> InvalidFilter
        [] cond = "SEARCH" -> SearchPredicate(m, f.value)
        [] OTHER -> FilterToPredicate(m.column, f.cond, f.value)

\* Mapping.checkedPredicate
CheckedPredicate(f) == IF Connective(f) \/ WithinLimits(f) THEN MappedPredicate(f) ELSE InvalidFilter

\* validateLogicalPlacement
LogicalPlacement(fs) ==
  /\ ~Connective(fs[1]) /\ ~Connective(fs[Len(fs)])
  /\ \A i \in 2..Len(fs) : ~(Connective(fs[i]) /\ Connective(fs[i - 1]))

CountConditions(fs) == Len(SelectSeq(fs, LAMBDA f : ~Connective(f)))

-----------------------------------------------------------------------------
(* criteria.builder: tokens and parameters so far, and whether it failed.  *)
Empty(args) == [toks |-> <<>>, params |-> args, failed |-> FALSE]
Param(d, n) == IF d = "mysql" THEN Positional ELSE n
Fail(b) == [b EXCEPT !.failed = TRUE]
WriteText(b, word) == [b EXCEPT !.toks = Append(@, [word |-> word])]

\* nextParam for each of vs, in the order they are written into the token.
Emit(d, b, tok, vs) ==
  [b EXCEPT !.toks = Append(@, tok @@ [ps |-> [i \in 1..Len(vs) |-> Param(d, Len(b.params) + i)]]),
            !.params = @ \o vs]

Cond(op, field) == [op |-> op, field |-> field, escape |-> FALSE]

\* EscapeLike: ! before the escape character and each wildcard of d.
Special(d) == {"!", "%", "_"} \cup (IF d = "sqlserver" THEN {"["} ELSE {})
EscapeLike(d, s) ==
  FlattenSeq([i \in 1..Len(s) |-> IF s[i] \in Special(d) THEN << "!", s[i] >> ELSE << s[i] >>])

\* likeParam and writeEscape
WriteLike(d, b, p) ==
  IF p.literal
  THEN Emit(d, b, [Cond(p.op, p.field) EXCEPT !.escape = TRUE],
            << [str |-> << "%" >> \o EscapeLike(d, p.value.str) \o << "%" >>] >>)
  ELSE Emit(d, b, Cond(p.op, p.field), << p.value >>)

\* toSlice: a slice of any element type; its elements are v.list.
IsSlice(v) == Is("list", v)

\* isTypedSlice and ArrayMembership: PostgreSQL binds a typed slice whole.
ArrayMembership(d, b, p) ==
  Emit(d, b, Cond(IF p.op = "NOT IN" THEN "<> ALL" ELSE "= ANY", p.field), << p.value >>)

\* writeMembership
WriteMembership(d, b, p) ==
  CASE ~IsSlice(p.value) -> Emit(d, b, Cond(p.op, p.field), << p.value >>)
    [] p.value.list = <<>> -> Emit(d, b, Cond(IF p.op = "NOT IN" THEN "1 = 1" ELSE "1 = 0", p.field), <<>>)
    [] d = "postgres" /\ p.value.typed -> ArrayMembership(d, b, p)
    [] OTHER -> Emit(d, b, Cond(p.op, p.field), p.value.list)

WriteOverlap(d, b, p) ==
  CASE d # "postgres" -> Fail(b)
    [] p.value.list = <<>> -> Emit(d, b, Cond("1 = 0", p.field), <<>>)
    [] OTHER -> Emit(d, b, Cond("&&", p.field), << p.value >>)

\* builder.qualifier: the alias the search names, else the only one its
\* table has; a bare clause has no tables.
Qualifiers(aliases, s) ==
  IF s.on # "" THEN (IF IsIdentifier(s.on) THEN {s.on} ELSE {})
  ELSE IF aliases = <<>> THEN {""}
  ELSE IF Len(aliases[1]) = 1 THEN {aliases[1][1]} ELSE {}

\* TextMatch, TextRank and TextHighlight: PostgreSQL binds the search string
\* once.  MySQL binds it once for each weight group of a rank; a highlight
\* takes a pattern and the markers, and neither when no word is indexed.
Markers == [markers |-> TRUE]
TextParams(d, groups, kind, term) ==
  CASE d = "mysql" /\ kind = "rank" /\ groups > 0 -> [i \in 1..groups |-> [str |-> term]]
    [] d = "mysql" /\ kind = "highlight" -> IF term \in Unindexed THEN <<>> ELSE << [str |-> term], Markers >>
    [] OTHER -> << [str |-> term] >>

\* textExpr: an empty search fails, as does the highlight of a column that is
\* not indexed; on MySQL, also a match or a rank without an indexed word.
TextExpr(d, b, aliases, groups, kind, s, column) ==
  LET names == Qualifiers(aliases, s)
  IN  IF \/ d \notin {"postgres", "mysql"} \/ s.term = <<>> \/ names = {}
         \/ kind = "highlight" /\ column \notin IndexColumns
         \/ d = "mysql" /\ kind # "highlight" /\ s.term \in Unindexed
      THEN Fail(b)
      ELSE Emit(d, b, [op |-> kind, term |-> s.term, alias |-> CHOOSE n \in names : TRUE],
                TextParams(d, groups, kind, s.term))

WriteBetween(d, b, p) ==
  IF IsSlice(p.value) /\ Len(p.value.list) = 2 THEN Emit(d, b, Cond("BETWEEN", p.field), p.value.list) ELSE Fail(b)

\* writePredicate and writeClause
RECURSIVE WriteClause(_, _, _, _)
WritePredicate(d, b, p, aliases) ==
  CASE p.err -> Fail(b)
    [] p.op \notin {"__group__", "SEARCH"} /\ ~IsIdentifier(p.field) -> Fail(b)
    [] p.op = "__group__" -> WriteText(WriteClause(d, WriteText(b, "("), p.kids, aliases), ")")
    [] p.op = "SEARCH" -> TextExpr(d, b, aliases, 0, "match", p.value, "")
    [] p.op \in ValueChecks -> Emit(d, b, Cond(p.op, p.field), <<>>)
    [] p.op = "&&" -> WriteOverlap(d, b, p)
    [] p.op \in Memberships -> WriteMembership(d, b, p)
    [] p.op = "BETWEEN" -> WriteBetween(d, b, p)
    [] p.op \in LikeConditions -> WriteLike(d, b, p)
    [] OTHER -> Emit(d, b, Cond(p.op, p.field), << p.value >>)

WriteClause(d, b, ps, aliases) ==
  FoldLeft(LAMBDA acc, i :
             IF IsLogical(ps[i]) THEN WriteText(acc, ps[i].op)
             ELSE WritePredicate(d, IF i > 1 /\ ~IsLogical(ps[i - 1]) THEN WriteText(acc, "AND") ELSE acc, ps[i], aliases),
           b, [i \in 1..Len(ps) |-> i])

\* Query.writeBody: the relevance columns, then WHERE, then HAVING.
WriteBody(d, q) ==
  LET select == FoldLeft(LAMBDA acc, r :
                           IF IsIdentifier(r.as) THEN TextExpr(d, acc, q.aliases, q.groups, r.kind, r.search, r.column) ELSE Fail(acc),
                         Empty(<<>>), q.relevance)
      where == IF q.where = <<>> THEN select ELSE WriteClause(d, WriteText(select, "WHERE"), q.where, q.aliases)
  IN  IF q.having = <<>> THEN where ELSE WriteClause(d, WriteText(where, "HAVING"), q.having, q.aliases)

\* Query.writeOrderBy, which may bind a relevance.
WriteOrderBy(d, b, q) ==
  FoldLeft(LAMBDA acc, o :
             IF Is("search", o) THEN TextExpr(d, acc, q.aliases, q.groups, "rank", o.search, "")
             ELSE IF IsIdentifier(o.field) THEN acc ELSE Fail(acc),
           IF q.order = <<>> THEN b ELSE WriteText(b, "ORDER BY"), q.order)

\* Query.writeLimitOffset: the same words for every dialect.
WriteNumber(b, word, n) == IF n > 0 THEN [b EXCEPT !.toks = @ \o << [word |-> word], [n |-> n] >>] ELSE b
WriteLimitOffset(b, q) == WriteNumber(WriteNumber(b, "LIMIT", q.limit), "OFFSET", q.offset)

\* Query.Build; BuildBase, for a page, leaves order and limits to the dialect.
QueryBuild(d, q, paged) ==
  IF paged THEN WriteBody(d, q) ELSE WriteLimitOffset(WriteOrderBy(d, WriteBody(d, q), q), q)

\* filter.Build: "base AND ( clause )", placeholders after those of base.
Base(d, tenant) == Emit(d, WriteText(Empty(<<>>), "WHERE"), Cond("=", "tenant"), << tenant >>)
Accepts(fs) ==
  /\ CountConditions(fs) <= Limits.maxFilters
  /\ LogicalPlacement(fs)
  /\ \A i \in 1..Len(fs) : CheckedPredicate(fs[i]) # InvalidFilter
Predicates(fs) == [i \in 1..Len(fs) |-> CheckedPredicate(fs[i])]
BuildBare(d, tenant, fs) ==
  CASE fs = <<>> -> Base(d, tenant)
    [] ~Accepts(fs) -> Fail(Base(d, tenant))
    [] OTHER -> WriteClause(d, WriteText(Base(d, tenant), "AND"), Predicates(fs), <<>>)
Build(d, tenant, fs) ==
  CASE fs = <<>> -> Base(d, tenant)
    [] ~Accepts(fs) -> Fail(Base(d, tenant))
    [] OTHER -> WriteText(WriteClause(d, WriteText(WriteText(Base(d, tenant), "AND"), "("), Predicates(fs), <<>>), ")")

-----------------------------------------------------------------------------
(* The database: NULL is unknown, AND binds tighter than OR.               *)
Not3(x) == CASE x = "T" -> "F" [] x = "F" -> "T" [] OTHER -> x
All3(S) == IF "F" \in S THEN "F" ELSE IF "U" \in S THEN "U" ELSE "T"
Any3(S) == IF "T" \in S THEN "T" ELSE IF "U" \in S THEN "U" ELSE "F"
Truth(b) == IF b THEN "T" ELSE "F"

\* A parameter beside a column value x.  A text is read as the column's type;
\* MySQL, whose booleans are numbers, reads every text without digits as 0.
ReadAs(d, x, v) ==
  CASE Is("uint", v) -> [int |-> v.uint]
    [] Is("bool", x) /\ Is("str", v) -> [bool |-> d # "mysql" /\ v.str = TextOf([bool |-> TRUE])]
    [] Is("int", x) /\ Is("str", v) -> [int |-> CHOOSE n \in 0..Width : TextOf([uint |-> n]) = v.str]
    [] OTHER -> v

Compare(op, x, v) ==
  CASE Is("null", x) \/ Is("null", v) -> "U"
    [] op = "=" -> Truth(x = v)
    [] op = "!=" -> Truth(x # v)
    [] op = "<" -> Truth(x.int < v.int)
    [] op = "<=" -> Truth(x.int <= v.int)
    [] op = ">" -> Truth(x.int > v.int)
    [] op = ">=" -> Truth(x.int >= v.int)

\* LIKE: a class ([) matches no [ itself; Oracle refuses a stray escape.
RECURSIVE Likes(_, _, _, _)
Likes(d, esc, p, s) ==
  CASE p = <<>> -> s = <<>>
    [] esc /\ p[1] = "!" ->
         /\ Len(p) > 1 /\ s # <<>> /\ s[1] = p[2]
         /\ d = "oracle" => p[2] \in {"!", "%", "_"}
         /\ Likes(d, esc, SubSeq(p, 3, Len(p)), Tail(s))
    [] p[1] = "%" -> \E k \in 0..Len(s) : Likes(d, esc, Tail(p), SubSeq(s, k + 1, Len(s)))
    [] p[1] = "_" -> s # <<>> /\ Likes(d, esc, Tail(p), Tail(s))
    [] p[1] = "[" /\ d = "sqlserver" -> FALSE
    [] OTHER -> s # <<>> /\ s[1] = p[1] /\ Likes(d, esc, Tail(p), Tail(s))

\* The values a token's placeholders stand for.
BoundBefore(toks, i) ==
  FoldLeft(LAMBDA n, t : n + (IF Is("ps", t) THEN Len(t.ps) ELSE 0), 0, SubSeq(toks, 1, i - 1))
Bound(b, i) ==
  [j \in 1..Len(b.toks[i].ps) |->
     b.params[IF b.toks[i].ps[j] = Positional THEN BoundBefore(b.toks, i) + j ELSE b.toks[i].ps[j]]]

Condition(d, t, params, row) ==
  LET x == row[t.field]
      vs == [i \in 1..Len(params) |-> ReadAs(d, x, params[i])]
      members == {Compare("=", x, v) : v \in ToSet(vs)}
      range == ToSet(vs[1].list)
  IN  CASE t.op = "IS NULL" -> Truth(Is("null", x))
        [] t.op = "IS NOT NULL" -> Truth(~Is("null", x))
        [] t.op \in {"IS TRUE", "IS FALSE"} -> Truth(x = [bool |-> t.op = "IS TRUE"])
        [] t.op = "1 = 0" -> "F"
        [] t.op = "1 = 1" -> "T"
        [] t.op = "IN" -> Any3(members)
        [] t.op = "NOT IN" -> Not3(Any3(members))
        [] t.op = "= ANY" -> Any3({Compare("=", x, v) : v \in range})
        [] t.op = "<> ALL" -> All3({Compare("!=", x, v) : v \in range})
        [] t.op = "&&" -> IF Is("null", x) THEN "U" ELSE Truth(ToSet(x.list) \cap range # {})
        [] t.op = "BETWEEN" -> All3({Compare(">=", x, vs[1]), Compare("<=", x, vs[2])})
        [] t.op \in {"LIKE", "~~"} -> IF Is("null", x) THEN "U" ELSE Truth(Likes(d, t.escape, vs[1].str, x.str))
        [] t.op \in {"NOT LIKE", "!~~"} -> IF Is("null", x) THEN "U" ELSE Truth(~Likes(d, t.escape, vs[1].str, x.str))
        [] OTHER -> Compare(t.op, x, vs[1])

\* The places of the word at the top level of lo..hi.
Depth(toks, i) ==
  Len(SelectSeq(SubSeq(toks, 1, i - 1), LAMBDA t : t = [word |-> "("]))
  - Len(SelectSeq(SubSeq(toks, 1, i - 1), LAMBDA t : t = [word |-> ")"]))
TopLevel(toks, lo, hi, word) ==
  {i \in lo..hi : toks[i] = [word |-> word] /\ Depth(toks, i) = Depth(toks, lo)}

RECURSIVE Eval(_, _, _, _, _)
Eval(d, b, lo, hi, row) ==
  LET splits(word) == TopLevel(b.toks, lo, hi, word)
      at(S) == CHOOSE i \in S : \A j \in S : i <= j
      t == b.toks[lo]
  IN  CASE splits("OR") # {} ->
             Any3({Eval(d, b, lo, at(splits("OR")) - 1, row), Eval(d, b, at(splits("OR")) + 1, hi, row)})
        [] splits("AND") # {} ->
             All3({Eval(d, b, lo, at(splits("AND")) - 1, row), Eval(d, b, at(splits("AND")) + 1, hi, row)})
        [] t = [word |-> "("] -> Eval(d, b, lo + 1, hi - 1, row)
        [] t.op = "match" -> IF Is("null", row.doc) THEN "U" ELSE Truth(row.doc = Bound(b, lo)[1])
        [] OTHER -> Condition(d, t, Bound(b, lo), row)

\* The rows the WHERE and the HAVING of the text select; each row is its
\* own group.
Holds(d, b, word, ends, row) ==
  LET at(w) == {i \in 1..Len(b.toks) : b.toks[i] = [word |-> w]}
      from == CHOOSE i \in at(word) : TRUE
      end == {Len(b.toks) + 1} \cup UNION {at(w) : w \in ends}
  IN  at(word) = {} \/ Eval(d, b, from + 1, (CHOOSE i \in end : \A j \in end : i <= j) - 1, row) = "T"
Tails == {"ORDER BY", "LIMIT", "OFFSET"}
Selected(d, b) ==
  SelectSeq(TableRows, LAMBDA row : /\ Holds(d, b, "WHERE", {"HAVING"} \cup Tails, row)
                               /\ Holds(d, b, "HAVING", Tails, row))

\* The number after LIMIT or OFFSET.
Says(b, word) == \E i \in 1..Len(b.toks) : b.toks[i] = [word |-> word]
Number(b, word, default) ==
  IF Says(b, word) THEN b.toks[(CHOOSE i \in 1..Len(b.toks) : b.toks[i] = [word |-> word]) + 1].n ELSE default
\* SQL Server and Oracle have no LIMIT; MySQL has no OFFSET without one.
Refuses(d, b) ==
  \/ d \in {"sqlserver", "oracle"} /\ (Says(b, "LIMIT") \/ Says(b, "OFFSET"))
  \/ d = "mysql" /\ Says(b, "OFFSET") /\ ~Says(b, "LIMIT")

-----------------------------------------------------------------------------
(* A request is built and, if it was not refused, read page by page.       *)
ClampLimit(limit, max) == LET l == IF limit = 0 THEN DefaultLimit ELSE limit IN IF l < max THEN l ELSE max
TotalPages(total, limit) == (total + limit - 1) \div limit

\* BuildPagination: LIMIT and OFFSET of PostgreSQL and MySQL, OFFSET and FETCH
\* of SQL Server, or Oracle's window of row numbers.
LimitOffset(rows, limit, offset) ==
  SubSeq(rows, offset + 1, IF offset + limit < Len(rows) THEN offset + limit ELSE Len(rows))
FetchNext(rows, limit, offset) ==
  LET rest == SubSeq(rows, offset + 1, Len(rows)) IN SubSeq(rest, 1, IF limit < Len(rest) THEN limit ELSE Len(rest))
RowNumbers(rows, limit, offset) ==
  LET upTo == SubSeq(rows, 1, IF offset + limit < Len(rows) THEN offset + limit ELSE Len(rows))
  IN  SubSeq(upTo, offset + 1, Len(upTo))
Window(d, rows, limit, offset) ==
  CASE d = "oracle" -> RowNumbers(rows, limit, offset)
    [] d = "sqlserver" -> FetchNext(rows, limit, offset)
    [] OTHER -> LimitOffset(rows, limit, offset)

Ask(r) ==
  /\ asked = Nothing
  /\ asked' = r
  /\ built' = IF Is("filters", r) THEN Build(r.dialect, r.tenant, r.filters) ELSE QueryBuild(r.dialect, r.query, r.paged)
  /\ read' = [page |-> 0, rows |-> <<>>, pages |-> 1]

\* pageTotal and fetchPagedList; Page and Limit are widened before they are
\* multiplied.
PageTotal == Len(Selected(asked.dialect, built))
PagedList(page, limit) == Window(asked.dialect, Selected(asked.dialect, built), limit, page * limit)

\* ExecutePagedQuery, fetchPage: count, then the page.
FetchPage ==
  /\ asked # Nothing /\ asked.paged /\ ~built.failed
  /\ read.page < read.pages /\ read.page < Width
  /\ LET limit == ClampLimit(asked.limit, asked.max)
     IN  read' = [page |-> read.page + 1, pages |-> TotalPages(PageTotal, limit),
                  rows |-> read.rows \o PagedList(read.page, limit)]
  /\ UNCHANGED <<asked, built>>

\* ExecuteListQuery; a text the database refuses is its error, with no rows.
FetchList ==
  /\ asked # Nothing /\ ~asked.paged /\ ~built.failed /\ read.page = 0
  /\ ~Refuses(asked.dialect, built)
  /\ LET rows == Selected(asked.dialect, built)
     IN  read' = [page |-> 1, pages |-> 1,
                  rows |-> LimitOffset(rows, Number(built, "LIMIT", Len(rows)), Number(built, "OFFSET", 0))]
  /\ UNCHANGED <<asked, built>>

BuildNext == \/ \E r \in Requests, d \in Dialects : Ask([dialect |-> d] @@ r)
             \/ FetchPage
             \/ FetchList

-----------------------------------------------------------------------------
(* What a request means, read from the request alone.                      *)
Includes(s, part) == \E k \in 0..(Len(s) - Len(part)) : SubSeq(s, k + 1, k + Len(part)) = part

\* One condition of a filter on one value of the row.
Scalar(cond, x, v) ==
  LET text == IF Is("str", v) THEN v.str ELSE TextOf(v)
  IN  CASE Is("range", v) -> ~Is("null", x) /\ v.range[1].int <= x.int /\ x.int <= v.range[2].int
        [] cond \in {"LIKE", "~~"} -> ~Is("null", x) /\ Includes(x.str, text)
        [] cond \in {"NOT LIKE", "!~~"} -> ~Is("null", x) /\ ~Includes(x.str, text)
        [] OTHER -> Compare(CASE cond = "IN" -> "=" [] cond = "NOT IN" -> "!=" [] OTHER -> cond, x,
                            IF Is("uint", v) THEN [int |-> v.uint] ELSE v) = "T"
Asks(f, row) ==
  LET x == IF f.cond = "SEARCH" THEN row.doc ELSE row[Mapping[f.name].column]
      vs == f.value.list
  IN  CASE f.cond = "SEARCH" -> x = f.value
        [] f.cond = "IS NOT NULL" -> ~Is("null", x)
        [] f.cond = "IS NULL" \/ Is("null", f.value) -> Is("null", x)
        [] ~Is("list", f.value) -> Scalar(f.cond, x, f.value)
        [] Len(vs) = 1 -> Scalar(f.cond, x, vs[1])
        [] f.cond = "BETWEEN" -> ~Is("null", x) /\ vs[1].time <= x.int /\ x.int <= vs[2].time
        [] f.cond \in {"NOT IN", "!="} -> \A i \in 1..Len(vs) : Scalar("!=", x, vs[i])
        [] OTHER -> \E i \in 1..Len(vs) : Scalar(f.cond, x, vs[i])

\* A predicate of a criteria query; NULL never satisfies a comparison.
Wants(p, row) ==
  LET x == row[p.field]
      vs == IF Is("list", p.value) THEN p.value.list ELSE << p.value >>
  IN  CASE p.op = "SEARCH" -> row.doc = [str |-> p.value.term]
        [] p.op = "IS NULL" -> Is("null", x)
        [] p.op = "IS NOT NULL" -> ~Is("null", x)
        [] p.op \in {"IS TRUE", "IS FALSE"} -> x = [bool |-> p.op = "IS TRUE"]
        [] p.op = "IN" -> ~Is("null", x) /\ x \in ToSet(vs)
        [] p.op = "NOT IN" -> vs = <<>> \/ (~Is("null", x) /\ x \notin ToSet(vs))
        [] p.op = "&&" -> ~Is("null", x) /\ ToSet(x.list) \cap ToSet(vs) # {}
        [] p.op = "BETWEEN" -> ~Is("null", x) /\ vs[1].int <= x.int /\ x.int <= vs[2].int
        [] p.literal -> Scalar(p.op, x, p.value)
        [] p.op \in LikeConditions -> ~Is("null", x) /\ x = p.value     \* a pattern without wildcards
        [] OTHER -> Compare(p.op, x, p.value) = "T"

\* A list of items joined by AND where nothing is said: some run between
\* ORs, all of its items.
Executes(items, sep(_), holds(_)) ==
  LET n == Len(items)
  IN  \E lo \in 1..n : \E hi \in lo..n :
        /\ lo = 1 \/ sep(items[lo - 1]) = "OR"
        /\ hi = n \/ sep(items[hi + 1]) = "OR"
        /\ \A i \in lo..hi : sep(items[i]) # "OR" /\ (sep(items[i]) = "" => holds(items[i]))

RECURSIVE Satisfies(_, _)
Satisfies(ps, row) ==
  ps = <<>> \/ Executes(ps, LAMBDA p : IF IsLogical(p) THEN p.op ELSE "",
                    LAMBDA p : IF p.op = "__group__" THEN Satisfies(p.kids, row) ELSE Wants(p, row))

Meant(r, row) ==
  IF Is("filters", r)
  THEN /\ row.tenant = r.tenant
       /\ r.filters = <<>> \/ Executes(r.filters, LAMBDA f : f.logical, LAMBDA f : Asks(f, row))
  ELSE Satisfies(r.query.where, row) /\ Satisfies(r.query.having, row)

\* The rows asked for, of a query without pages those Limit and Offset leave.
AskedRows(r) ==
  LET rows == SelectSeq(TableRows, LAMBDA row : Meant(r, row))
      after == Max({0, r.query.offset})
      upTo == IF r.query.limit > 0 THEN Min({after + r.query.limit, Len(rows)}) ELSE Len(rows)
  IN  IF Is("filters", r) \/ r.paged THEN rows ELSE SubSeq(rows, after + 1, upTo)

\* MySQL is given the text "true" for a boolean: it reads 0, which is FALSE.
ReadsTrueAsFalse(d, b) == d = "mysql" /\ [str |-> TextOf([bool |-> TRUE])] \in ToSet(b.params)

(* A request that is not refused reads exactly the rows it asks for, each  *)
(* once and in order, in every dialect: no alternative of a filter leaves  *)
(* the base condition, a placeholder takes the value written for it, the   *)
(* relevance and the search of a query bind the same term, no value is a   *)
(* pattern, and the pages neither overlap nor miss a row                   *)
(* (filter/mapping.go:74, criteria/builder.go:63, manager.go:281).  One    *)
(* request is left out, because the code does not do this for it: a filter *)
(* on MySQL with the single value TRUE (filter/dynamic_filter.go:384).     *)
RowsAsked ==
  (asked # Nothing /\ ~built.failed /\ ~ReadsTrueAsFalse(asked.dialect, built)) =>
    LET rows == AskedRows(asked)
        limit == ClampLimit(asked.limit, asked.max)
        whole == read.page = read.pages /\ read.page > 0
    IN  /\ \A i \in 1..Len(built.toks) : Is("term", built.toks[i]) =>
             \A j \in 1..Len(built.toks[i].ps) :
               Bound(built, i)[j] = IF built.toks[i].op = "highlight" /\ j = 2 THEN Markers ELSE [str |-> built.toks[i].term]
        /\ IF whole \/ ~asked.paged
           THEN read.page > 0 => read.rows = rows
           ELSE read.rows = SubSeq(rows, 1, IF read.page * limit < Len(rows) THEN read.page * limit ELSE Len(rows))
=============================================================================
