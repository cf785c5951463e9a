----------------------------- MODULE TextSearch -----------------------------
(***************************************************************************)
(* sqln/fts: a search string parsed into groups of terms, the search       *)
(* expression each database is given, and the lexicon that corrects        *)
(* misspelled words.                                                       *)
(*                                                                         *)
(* A search string is a sequence of lexemes: a run of word characters is   *)
(* one lexeme, of Words, and every other character is itself.  A document  *)
(* is the sequence of its words.                                           *)
(***************************************************************************)
EXTENDS Integers, Sequences, FiniteSets, SequencesExt

CONSTANTS Words,         \* words of searches and documents, "or" included
          Numbers,       \* words that are numbers, as a function to Nat
          Stopwords,     \* words of the index's language that are not indexed
          Short,         \* words below MySQL's innodb_ft_min_token_size
          Starts,        \* Starts[w]: the words w is a prefix of
          Groups,        \* Spec.Synonyms: sets of word sequences
          Similar,       \* Similar[w]: words similar to w, best first
          Tables,        \* contents the table takes
          Searches,      \* what users ask: [mode, alts]
          MaxNear, MaxTerms

ASSUME TextSearchAssumption == MaxNear \in Nat \ {0} /\ MaxTerms \in Nat \ {0}

VARIABLES table,     \* the documents
          lexicon,   \* words the lexicon table holds
          refresh,   \* a running RefreshLexicon
          search     \* a search: its string, its correction, what it found

textVars == <<table, lexicon, refresh, search>>

NoSearch == [pc |-> "idle"]
TextInit == table \in Tables /\ lexicon = {} /\ refresh = NoSearch /\ search = NoSearch

-----------------------------------------------------------------------------
(* Parsing.                                                                *)
Term(words, negate, prefix, near) ==
  [words |-> words, negate |-> negate, prefix |-> prefix, near |-> near, synonyms |-> {}]

\* splitWords
SplitWords(s) == SelectSeq(s, LAMBDA x : x \in Words)

\* keepPositive
KeepPositive(q) == SelectSeq(q, LAMBDA g : \E i \in 1..Len(g) : ~g[i].negate)

\* The end of a quoted run that starts at i, past the text if it is open.
Closing(s, i) == LET C == {j \in (i + 1)..Len(s) : s[j] = "\""}
                 IN  IF C = {} THEN Len(s) + 1 ELSE CHOOSE j \in C : \A k \in C : j <= k

\* parseWebsearch: the loop at i with the groups done and the open group.
RECURSIVE Websearch(_, _, _, _)
Websearch(s, i, q, g) ==
  LET flush == IF g = <<>> THEN q ELSE Append(q, g)
      negate == /\ i < Len(s) /\ s[i] = "-" /\ (i = 1 \/ s[i - 1] = " ")
                /\ s[i + 1] \in Words \cup {"\""}
      at == IF negate THEN i + 1 ELSE i
      end == Closing(s, at)
      quoted == SplitWords(SubSeq(s, at + 1, end - 1))
      tilde == end < Len(s) /\ s[end + 1] = "~"
      number == tilde /\ end + 1 < Len(s) /\ s[end + 2] \in DOMAIN Numbers
      near == IF number /\ Len(quoted) = 2
              THEN (IF Numbers[s[end + 2]] < MaxNear THEN Numbers[s[end + 2]] ELSE MaxNear) ELSE 0
      after == end + 1 + (IF tilde THEN 1 ELSE 0) + (IF number THEN 1 ELSE 0)
  IN  CASE i > Len(s) -> flush
        [] s[at] = "\"" ->
             Websearch(s, after, q, IF quoted = <<>> THEN g ELSE Append(g, Term(quoted, negate, FALSE, near)))
        [] s[at] = "or" /\ ~negate -> Websearch(s, at + 1, flush, <<>>)
        [] s[at] \in Words -> Websearch(s, at + 1, q, Append(g, Term(<< s[at] >>, negate, FALSE, 0)))
        [] OTHER -> Websearch(s, at + 1, q, g)

Parse(s, mode) ==
  LET words == SplitWords(s)
  IN  CASE mode \in {"all", "prefix"} ->
             KeepPositive(<< [i \in 1..Len(words) |-> Term(<< words[i] >>, FALSE, mode = "prefix", 0)] >>)
        [] mode = "any" -> [i \in 1..Len(words) |-> << Term(<< words[i] >>, FALSE, FALSE, 0) >>]
        [] mode = "phrase" -> IF words = <<>> THEN <<>> ELSE << << Term(words, FALSE, FALSE, 0) >> >>
        [] OTHER -> KeepPositive(Websearch(s, 1, <<>>, <<>>))

\* synonymMap and Index.expand
Synonyms(w) == UNION {G \ {<< w >>} : G \in {G \in Groups : << w >> \in G}}
Expand(q) ==
  [i \in 1..Len(q) |-> [j \in 1..Len(q[i]) |->
     IF Len(q[i][j].words) = 1 /\ ~q[i][j].prefix
     THEN [q[i][j] EXCEPT !.synonyms = Synonyms(q[i][j].words[1])] ELSE q[i][j]]]

\* Search.Query: no groups is ErrEmptySearch, too many terms ErrInvalidSearch.
TermCount(q) == Len(FlattenSeq(q))
QueryTerms(s, mode) == LET q == Parse(s, mode) IN IF TermCount(q) > MaxTerms THEN <<>> ELSE Expand(q)

-----------------------------------------------------------------------------
(* Rendering for PostgreSQL: the tokens of a tsquery.                      *)
TsOp(c) == [op |-> c]
Joined(parts, op) ==
  FlattenSeq([i \in 1..Len(parts) |-> (IF i > 1 THEN << op >> ELSE <<>>) \o parts[i]])
Parens(s) == << TsOp("(") >> \o s \o << TsOp(")") >>
TsPhrase(words) == Joined([i \in 1..Len(words) |-> << [word |-> words[i], prefix |-> FALSE] >>], [apart |-> 1])

TsTerm(t) ==
  LET w(i) == << [word |-> t.words[i], prefix |-> FALSE] >>
      apart(i) == w(IF i % 2 = 1 THEN 1 ELSE 2) \o << [apart |-> (i + 1) \div 2] >> \o w(IF i % 2 = 1 THEN 2 ELSE 1)
      grouped == (t.near > 0 /\ Len(t.words) = 2) \/ (t.synonyms # {} /\ Len(t.words) = 1)
      body == CASE t.near > 0 /\ Len(t.words) = 2 -> Parens(Joined([i \in 1..(2 * t.near) |-> apart(i)], TsOp("|")))
                [] t.synonyms # {} /\ Len(t.words) = 1 ->
                     LET alts == SetToSeq(t.synonyms)
                     IN  Parens(Joined(<< TsPhrase(t.words) >> \o [i \in 1..Len(alts) |-> TsPhrase(alts[i])], TsOp("|")))
                [] t.prefix /\ Len(t.words) = 1 -> << [word |-> t.words[1], prefix |-> TRUE] >>
                [] OTHER -> TsPhrase(t.words)
  IN  IF ~t.negate THEN body
      ELSE << TsOp("!") >> \o (IF Len(t.words) > 1 /\ ~grouped THEN Parens(body) ELSE body)

PostgresValue(q) ==
  LET groups == [i \in 1..Len(q) |-> Joined([j \in 1..Len(q[i]) |-> TsTerm(q[i][j])], TsOp("&"))]
  IN  IF Len(groups) = 1 THEN groups[1] ELSE Joined([i \in 1..Len(groups) |-> Parens(groups[i])], TsOp("|"))

(* Rendering for MySQL: groups of signed terms; a term with nothing InnoDB *)
(* indexes is left out.                                                    *)
Indexable(w) == w \notin Short \cup Stopwords
MyPhrase(words) == \E i \in 1..Len(words) : Indexable(words[i])
\* @N spans N words: N - 1 positions apart.
SpanShort(near) == near
Span(near) == near + 1
Within(words, n) == [phrase |-> words, within |-> n, prefix |-> FALSE]

\* booleanTerm: the alternatives of a term, none when it is left out.
BooleanTerm(t) ==
  CASE t.near > 0 /\ Len(t.words) = 2 /\ Indexable(t.words[1]) /\ Indexable(t.words[2]) -> {Within(t.words, Span(t.near))}
    [] Len(t.words) > 1 -> IF MyPhrase(t.words) THEN {Within(t.words, 0)} ELSE {}
    [] t.prefix -> IF t.words[1] \in Stopwords THEN {} ELSE {[Within(t.words, 0) EXCEPT !.prefix = TRUE]}
    [] OTHER -> {Within(a, 0) : a \in {a \in {t.words} \cup t.synonyms : MyPhrase(a)}}

MySQLValue(q) ==
  LET signed(g) == SelectSeq([j \in 1..Len(g) |-> [minus |-> g[j].negate, alts |-> BooleanTerm(g[j])]],
                             LAMBDA x : x.alts # {})
  IN  SelectSeq([i \in 1..Len(q) |-> signed(q[i])], LAMBDA g : \E j \in 1..Len(g) : ~g[j].minus)

-----------------------------------------------------------------------------
(* The databases.                                                          *)
At(doc, i, w) == w \in Stopwords \/ (i \in 1..Len(doc) /\ doc[i] = w)
\* words at distances gaps[1], gaps[2], ... in doc; PostgreSQL indexes no
\* stopword, so one in a phrase only keeps the distance of the others
Spaced(doc, words, gaps) ==
  \E i \in (1 - FoldLeft(+, 0, gaps))..Len(doc) :
    \A k \in 1..Len(words) : At(doc, i + FoldLeft(+, 0, SubSeq(gaps, 1, k - 1)), words[k])

Nesting(s, i) == Len(SelectSeq(SubSeq(s, 1, i - 1), LAMBDA x : x = TsOp("("))) - Len(SelectSeq(SubSeq(s, 1, i - 1), LAMBDA x : x = TsOp(")")))
Cut(s, lo, hi, op) == {i \in lo..hi : s[i] = TsOp(op) /\ Nesting(s, i) = Nesting(s, lo)}

\* to_tsquery: | binds least, then &, then !; a stopword is dropped, which
\* "none" stands for.
RECURSIVE TsEval(_, _, _, _)
TsEval(s, lo, hi, doc) ==
  LET at(S) == CHOOSE i \in S : \A j \in S : i <= j
      sides(op) == {TsEval(s, lo, at(Cut(s, lo, hi, op)) - 1, doc), TsEval(s, at(Cut(s, lo, hi, op)) + 1, hi, doc)} \ {"none"}
      phrase == SelectSeq(SubSeq(s, lo, hi), LAMBDA x : "word" \in DOMAIN x)
      gaps == SelectSeq(SubSeq(s, lo, hi), LAMBDA x : "apart" \in DOMAIN x)
      words == [i \in 1..Len(phrase) |-> phrase[i].word]
  IN  CASE Cut(s, lo, hi, "|") # {} ->
             IF sides("|") = {} THEN "none" ELSE IF "yes" \in sides("|") THEN "yes" ELSE "no"
        [] Cut(s, lo, hi, "&") # {} ->
             IF sides("&") = {} THEN "none" ELSE IF "no" \in sides("&") THEN "no" ELSE "yes"
        [] s[lo] = TsOp("!") ->
             LET x == TsEval(s, lo + 1, hi, doc) IN CASE x = "yes" -> "no" [] x = "no" -> "yes" [] OTHER -> x
        [] s[lo] = TsOp("(") -> TsEval(s, lo + 1, hi - 1, doc)
        [] \A i \in 1..Len(words) : words[i] \in Stopwords -> "none"
        [] phrase[1].prefix -> IF \E i \in 1..Len(doc) : doc[i] \in Starts[words[1]] \ Stopwords THEN "yes" ELSE "no"
        [] OTHER -> IF Spaced(doc, words, [i \in 1..Len(gaps) |-> gaps[i].apart]) THEN "yes" ELSE "no"

\* InnoDB boolean mode: a phrase matches its stopwords too.
MyAlt(a, doc) ==
  CASE a.prefix -> \E i \in 1..Len(doc) : doc[i] \in Starts[a.phrase[1]] /\ Indexable(doc[i])
    [] a.within > 0 ->
         \E i, j \in 1..Len(doc) : doc[i] = a.phrase[1] /\ doc[j] = a.phrase[2] /\ i # j /\ (i - j) < a.within /\ (j - i) < a.within
    [] OTHER -> \E i \in 0..(Len(doc) - Len(a.phrase)) : SubSeq(doc, i + 1, i + Len(a.phrase)) = a.phrase
MyEval(value, doc) ==
  \E i \in 1..Len(value) : \A j \in 1..Len(value[i]) :
    (\E a \in value[i][j].alts : MyAlt(a, doc)) # value[i][j].minus

Found(dialect, q) ==
  {doc \in table : IF dialect = "postgres"
                   THEN TsEval(PostgresValue(q), 1, Len(PostgresValue(q)), doc) = "yes"
                   ELSE MyEval(MySQLValue(q), doc)}

-----------------------------------------------------------------------------
(* The lexicon.                                                            *)
\* collectWords reads the table, before the transaction that replaces the
\* lexicon.
RefreshReads ==
  /\ refresh = NoSearch
  /\ refresh' = [pc |-> "read", words |-> UNION {ToSet(d) : d \in table} \ Short]
  /\ UNCHANGED <<table, lexicon, search>>
RefreshCommits ==
  /\ refresh.pc = "read" /\ lexicon' = refresh.words /\ refresh' = NoSearch /\ UNCHANGED <<table, search>>
RefreshFails == refresh.pc = "read" /\ refresh' = NoSearch /\ UNCHANGED <<table, lexicon, search>>

\* correctable
Correctable(q) ==
  UNION {ToSet(t.words) : t \in {t \in ToSet(FlattenSeq(q)) : ~t.negate /\ ~t.prefix}} \ Short

\* Suggest: the best candidate of each word the lexicon lacks.
Candidates(w) == SelectSeq(Similar[w], LAMBDA c : c \in lexicon)
Fix(q) == {w \in Correctable(q) \ lexicon : Candidates(w) # <<>>}
\* replaceWords
ReplaceWords(s, F) == [i \in 1..Len(s) |-> IF s[i] \in F THEN Candidates(s[i])[1] ELSE s[i]]
-----------------------------------------------------------------------------
\* A user's search, written as a search string.
Quoted(item) == << "\"" >> \o Joined([i \in 1..Len(item.words) |-> << item.words[i] >>], " ") \o << "\"" >>
Item(item) ==
  (IF item.negate THEN << "-" >> ELSE <<>>)
  \o (IF Len(item.words) = 1 /\ item.bare THEN item.words ELSE Quoted(item))
  \o (IF item.near = "" THEN <<>> ELSE << "~", item.near >>)
Written(alts) ==
  Joined([i \in 1..Len(alts) |-> Joined([j \in 1..Len(alts[i]) |-> Item(alts[i][j])], " ")], " ")
Spelled(r) ==
  IF r.mode = "web"
  THEN FlattenSeq([i \in 1..Len(r.alts) |-> (IF i > 1 THEN << " ", "or", " " >> ELSE <<>>) \o Written(<< r.alts[i] >>)])
  ELSE Written(r.alts)

TypeSearch(r, dialect) ==
  /\ search = NoSearch
  /\ search' = [pc |-> "typed", asked |-> r, dialect |-> dialect, string |-> Spelled(r), fixed |-> {}, found |-> {}]
  /\ UNCHANGED <<table, lexicon, refresh>>

Correct ==
  /\ search.pc = "typed" /\ search.fixed = {}
  /\ LET q == QueryTerms(search.string, search.asked.mode)
     IN  /\ q # <<>> /\ Fix(q) # {}
         /\ search' = [search EXCEPT !.string = ReplaceWords(@, Fix(q)),
                                     !.fixed = {<<w, Candidates(w)[1]>> : w \in Fix(q)}]
  /\ UNCHANGED <<table, lexicon, refresh>>

RunSearch ==
  /\ search.pc = "typed"
  /\ LET q == QueryTerms(search.string, search.asked.mode)
         empty == q = <<>> \/ (search.dialect = "mysql" /\ MySQLValue(q) = <<>>)
     IN  search' = [search EXCEPT !.pc = IF empty THEN "refused" ELSE "done",
                                  !.found = IF empty THEN {} ELSE Found(search.dialect, q)]
  /\ UNCHANGED <<table, lexicon, refresh>>

TableChanges ==
  /\ search = NoSearch
  /\ table' \in Tables \ {table} /\ UNCHANGED <<lexicon, refresh, search>>

TextNext ==
  \/ \E r \in Searches, d \in {"postgres", "mysql"} : TypeSearch(r, d)
  \/ Correct \/ RunSearch \/ TableChanges
  \/ RefreshReads \/ RefreshCommits \/ RefreshFails

-----------------------------------------------------------------------------
(* What a search means.  A word the index drops asks nothing; a phrase     *)
(* asks for its words in order; ~N for two words at most N apart.  MySQL   *)
(* has no position for a word it does not index, so there ~N beside such a *)
(* word is the phrase, in the order it was typed.                          *)
Fixed(w) == IF \E f \in search.fixed : f[1] = w THEN (CHOOSE f \in search.fixed : f[1] = w)[2] ELSE w
Alternatives(words) == {words} \cup (IF Len(words) = 1 THEN Synonyms(words[1]) ELSE {})
Drops(dialect, words) ==
  \A i \in 1..Len(words) : words[i] \in Stopwords \/ (dialect = "mysql" /\ words[i] \in Short)
Has(dialect, doc, words) ==
  IF dialect = "postgres" THEN Spaced(doc, words, [i \in 1..(Len(words) - 1) |-> 1])
  ELSE \E i \in 0..(Len(doc) - Len(words)) : SubSeq(doc, i + 1, i + Len(words)) = words
Apart(doc, words, n) ==
  IF ToSet(words) \cap Stopwords # {} THEN \E i \in 1..Len(doc) : doc[i] \in ToSet(words) \ Stopwords
  ELSE \E i, j \in 1..Len(doc) : i # j /\ doc[i] = words[1] /\ doc[j] = words[2] /\ i - j <= n /\ j - i <= n
Measured(dialect, words) == dialect = "mysql" => \A i \in 1..Len(words) : Indexable(words[i])
ItemHolds(dialect, mode, item, doc) ==
  LET words == [i \in 1..Len(item.words) |-> Fixed(item.words[i])]
      n == IF item.near = "" THEN 0 ELSE Numbers[item.near]
  IN  CASE mode = "prefix" -> \E i \in 1..Len(doc) : doc[i] \in Starts[words[1]] \ Stopwords /\ (dialect = "mysql" => Indexable(doc[i]))
        [] Len(words) = 2 /\ n > 0 /\ Measured(dialect, words) -> Apart(doc, words, IF n < MaxNear THEN n ELSE MaxNear)
        [] OTHER -> \E a \in Alternatives(words) : ~Drops(dialect, a) /\ Has(dialect, doc, a)
\* On PostgreSQL an exclusion stays alone when the words beside it are
\* stopwords: the rendering leaves those to to_tsquery.
\* An item none of whose readings is indexed asks nothing.
Silent(dialect, mode, item) ==
  IF mode = "prefix" THEN item.words[1] \in Stopwords
  ELSE \A a \in Alternatives([i \in 1..Len(item.words) |-> Fixed(item.words[i])]) : Drops(dialect, a)
GroupHolds(dialect, mode, g, doc) ==
  LET loud == SelectSeq(g, LAMBDA x : ~Silent(dialect, mode, x))
      kept == IF dialect = "postgres" THEN g ELSE loud
  IN  /\ loud # <<>> /\ \E i \in 1..Len(kept) : ~kept[i].negate
      /\ \A i \in 1..Len(loud) : ItemHolds(dialect, mode, loud[i], doc) # loud[i].negate

(* A search that ran found exactly the documents its words, phrases,       *)
(* proximities, exclusions and alternatives ask for, in each database:     *)
(* nothing a user types reads as an operator of the database, and the same *)
(* words corrected mean the same search (fts/search.go:143,                *)
(* driver/postgres/fulltext.go:66, driver/mysql/fulltext.go:78,            *)
(* fts/suggest.go:150).  A proximity to a word MySQL does not index is the *)
(* phrase there, which finds fewer documents (driver/mysql/fulltext.go:123).*)
SearchMeans ==
  search.pc = "done" =>
    search.found = {doc \in table :
         \E i \in 1..Len(search.asked.alts) :
           GroupHolds(search.dialect, search.asked.mode, search.asked.alts[i], doc)}
=============================================================================
