----------------------------- MODULE MCStorage -----------------------------
(***************************************************************************)
(* One instance of each model of sqln, of base/bucket, base/session and    *)
(* the worker pool, for TLC.  A behaviour is of one part: the others keep  *)
(* their initial state.                                                    *)
(***************************************************************************)
EXTENDS Transaction, QueryCache, SqlConnect, SqlBuild, TextSearch, Bucket, SessionLock, WorkerPool, TLC

CONSTANTS i1, i2

VARIABLE part

Both(v) == [i \in Instance |-> v]
MCIndexed ==
    [dialect |-> "postgres", replica |-> TRUE, migrations |-> "none", policy |-> "verify", stored |-> TRUE,
     concurrently |-> FALSE, weights |-> FALSE, suggest |-> TRUE, boot |-> FALSE, version |-> Both(2)]
Catalog(objs, v) == [o \in Objects |-> IF o \in objs THEN v ELSE 0]
MCEmpty == Catalog({}, 2)
MCTable == {<<"cat", "dog">>, <<"dog", "the", "cat">>, <<"cats">>, <<"ox", "cat">>, <<"hot", "dog">>, <<"kitty">>,
            <<"dog", "ox">>, <<"dog", "ox", "hot", "cat">>}

Executing  == part = "transaction" /\ UNCHANGED <<part, qcVars, scVars, buildVars, textVars, bucketVars, slVars, poolVars>>
Caching    == part = "cache" /\ UNCHANGED <<part, txVars, scVars, buildVars, textVars, bucketVars, slVars, poolVars>>
Connecting == part = "connect" /\ UNCHANGED <<part, txVars, qcVars, buildVars, textVars, bucketVars, slVars, poolVars>>
Building   == part = "build" /\ UNCHANGED <<part, txVars, qcVars, scVars, textVars, bucketVars, slVars, poolVars>>
Searching  == part = "search" /\ UNCHANGED <<part, txVars, qcVars, scVars, buildVars, bucketVars, slVars, poolVars>>
Keeping    == part = "bucket" /\ UNCHANGED <<part, txVars, qcVars, scVars, buildVars, textVars, slVars, poolVars>>
Locking    == part = "session" /\ UNCHANGED <<part, txVars, qcVars, scVars, buildVars, textVars, bucketVars, poolVars>>
Pooling    == part = "pool" /\ UNCHANGED <<part, txVars, qcVars, scVars, buildVars, textVars, bucketVars, slVars>>

Init ==
    /\ part \in {"transaction", "cache", "connect", "build", "search", "bucket", "session", "pool"}
    /\ TransactionInit /\ QueryCacheInit /\ BuildInit /\ SessionLockInit /\ WorkerPoolInit
    /\ SqlConnectInit
    /\ part # "connect" => (cfg = MCIndexed /\ catalog = MCEmpty)
    /\ TextInit
    /\ part # "search" => table = MCTable
    /\ BucketInit
    /\ part # "bucket" => kind = "mem"

Next ==
    \/ Executing /\ TransactionNext
    \/ Caching /\ QueryCacheNext
    \/ Connecting /\ SqlConnectNext
    \/ Building /\ BuildNext
    \/ Searching /\ TextNext
    \/ Keeping /\ BucketNext
    \/ Locking /\ SessionLockNext
    \/ Pooling /\ WorkerPoolNext
-----------------------------------------------------------------------------
\* Transactions: nested on one pool, across two pools, retried.
Exec(pool_, retries, end) == [op |-> "execute", db |-> pool_, retries |-> retries, end |-> end]
Insert(pool_) == [op |-> "write", db |-> pool_]
End == [op |-> "end"]
MCPrograms ==
    {<<Exec("A", 2, 4), Insert("A"), Insert("A"), End>>,
     <<Exec("A", 1, 6), Insert("A"), Exec("A", 1, 5), Insert("A"), End, End>>,
     <<Exec("A", 1, 7), Insert("A"), Exec("B", 1, 6), Insert("B"), Insert("A"), End, End, Insert("A")>>,
     <<Exec("A", 1, 5), Insert("B"), Exec("A", 0, 4), End, End>>}

\* Connections: every policy, two instances of different versions.
Rolling == [i \in Instance |-> IF i = i1 THEN 1 ELSE 2]
MCSettings ==
    {MCIndexed,
     [MCIndexed EXCEPT !.policy = "ensure", !.boot = TRUE, !.version = Rolling],
     [MCIndexed EXCEPT !.policy = "ensure", !.stored = FALSE, !.concurrently = TRUE, !.replica = FALSE],
     [MCIndexed EXCEPT !.migrations = "registered", !.stored = FALSE, !.concurrently = TRUE],
     [MCIndexed EXCEPT !.dialect = "mysql", !.weights = TRUE, !.policy = "ensure", !.version = Rolling],
     [MCIndexed EXCEPT !.dialect = "mysql", !.concurrently = TRUE, !.policy = "ensure"],
     [MCIndexed EXCEPT !.dialect = "mysql", !.weights = TRUE, !.migrations = "registered", !.boot = TRUE, !.suggest = FALSE],
     [MCIndexed EXCEPT !.migrations = "unregistered", !.policy = "trust"]}
MCCatalogs ==
    {MCEmpty, Catalog({"column", "index", "tag", "weights", "lexicon"}, 1), Catalog({"column", "index", "tag"}, 2),
     Catalog({"column", "index", "tag", "lexicon"}, 2),
     Catalog({"index"}, 1)}

\* Queries: each operator alone, pairs and triples around OR, nested groups,
\* a table with nulls, wildcards in values, and rows of another tenant.
I(n) == [int |-> n]
S(s) == [str |-> s]
List(s) == [list |-> s, typed |-> FALSE]
Typed(s) == [list |-> s, typed |-> TRUE]
Bool(b) == [bool |-> b]
Row(n, tenant, a, b, t, doc, tags) ==
    [id |-> n, tenant |-> I(tenant), a |-> a, b |-> b, t |-> t, doc |-> doc, tags |-> tags]
MCTableRows ==
    <<Row(1, 1, I(1), Bool(TRUE), S(<<"x">>), S(<<"x">>), Typed(<<I(1)>>)),
      Row(2, 1, I(2), Bool(FALSE), S(<<"[", "x">>), Nil, Nil),
      Row(3, 1, Nil, Nil, S(<<"%">>), S(<<"x">>), Typed(<<>>)),
      Row(4, 1, I(0), Bool(TRUE), Nil, S(<<"y">>), Typed(<<I(2), I(1)>>)),
      Row(5, 1, I(2), Bool(TRUE), S(<<"!", "_">>), S(<<"x">>), Nil),
      Row(6, 2, I(1), Bool(FALSE), S(<<"x">>), S(<<"x">>), Typed(<<I(1)>>))>>
Column(c, ops, find) == [column |-> c, ops |-> ops, search |-> find]
MCMapping ==
    [num |-> Column("a", {}, FALSE), text |-> Column("t", {}, FALSE), eq |-> Column("a", {"=", "IS NULL"}, FALSE),
     flag |-> Column("b", {}, FALSE), bad |-> Column("a b", {}, FALSE), find |-> Column("", {}, TRUE)]
MCUnindexed == {<<"u">>}
MCLimits == [maxFilters |-> 3, maxInValues |-> 3, maxLikeLength |-> 2]
Where(name, cond, v) == [name |-> name, cond |-> cond, value |-> v, logical |-> ""]
Join(l) == [Where("", "", Nil) EXCEPT !.logical = l]
Conditions ==
    {Where("num", c, I(1)) : c \in {"=", "!=", "<", "<=", ">", ">=", "EXEC"}}
    \cup {Where("num", c, List(<<I(1), I(2)>>)) : c \in {"IN", "NOT IN", "=", "!=", ">", "LIKE", "BETWEEN"}}
    \cup {Where("num", c, Nil) : c \in {"", "IS NOT NULL", "IS NULL"}}
    \cup {Where("num", "IN", List(<<>>)), Where("num", "NOT IN", List(<<I(2)>>)), Where("num", "IN", List(<<I(0), I(1), I(2), I(3)>>)),
          Where("num", "BETWEEN", [range |-> <<I(1), I(2)>>]), Where("num", "=", [range |-> <<I(1), I(2)>>]),
          Where("num", "BETWEEN", List(<<[time |-> 1], [time |-> 1]>>))}
    \cup {Where("flag", c, Bool(b)) : c \in {"=", "!=", "IN"}, b \in BOOLEAN}
    \cup {Where("flag", "NOT IN", List(<<Bool(FALSE)>>)), Where("flag", "IN", List(<<Bool(TRUE), Bool(FALSE)>>)),
          Where("text", "LIKE", Bool(TRUE)), Where("num", "=", [uint |-> 1]), Where("num", "IN", List(<<[uint |-> 1], [uint |-> 2]>>))}
    \cup {Where("text", c, S(<<"%">>)) : c \in {"LIKE", "NOT LIKE", "~~", "!~~"}}
    \cup {Where("text", "LIKE", S(<<"[", "x">>)), Where("text", "~~", S(<<"!", "_">>)), Where("text", "LIKE", S(<<"x", "x", "x">>))}
    \cup {Where("eq", "=", I(2)), Where("eq", ">", I(2)), Where("bad", "=", I(1)), Where("none", "=", I(1)),
          Where("find", "SEARCH", S(<<"x">>)), Where("num", "SEARCH", S(<<"x">>)), Join("XOR"), Join("OR")}
FewConditions ==
    {Where("num", ">", List(<<I(0), I(1)>>)), Where("num", "IN", List(<<I(1), I(2)>>)), Where("text", "LIKE", S(<<"[">>)),
     Where("find", "SEARCH", S(<<"x">>)), Where("num", "", Nil)}
FilterLists ==
    {<<>>} \cup {<<f>> : f \in Conditions} \cup {<<f, g>> : f \in FewConditions, g \in FewConditions}
    \cup {<<f, Join(l), g, h>> : f \in FewConditions, g \in FewConditions, h \in FewConditions, l \in {"OR", "AND"}}
    \cup {<<f, Join("OR"), Join("AND"), f>> : f \in FewConditions} \cup {<<f, f, f, f>> : f \in FewConditions}
Plain == [relevance |-> <<>>, where |-> <<>>, having |-> <<>>, order |-> <<>>, aliases |-> <<<<"p">>>>, groups |-> 2,
          limit |-> 0, offset |-> 0]
Find == [term |-> <<"x">>, on |-> ""]
Is2 == Pred("=", "a", I(2))
Matches == Pred("SEARCH", "", Find)
Preds ==
    {Is2, Group(<<Is2, Or, Pred("IS NULL", "a", Nil)>>), Group(<<Group(<<Is2, Or, Matches>>), Pred("NOT IN", "a", Typed(<<I(1)>>))>>),
     Pred("IN", "a", Typed(<<I(1), I(2)>>)), Pred("IN", "a", I(1)), Pred("NOT IN", "a", Typed(<<>>)), Pred("IN", "a", Typed(<<>>)),
     Overlaps("tags", Typed(<<I(1), I(3)>>)), Overlaps("tags", Typed(<<>>)), Overlaps("tags", List(<<I(1)>>)),
     DateBetween("a", 1, 2), DateBetween("a", 2, 1), Pred("IS TRUE", "b", Nil), Pred("IS FALSE", "b", Nil),
     Pred("IS NOT NULL", "t", Nil), Pred("BETWEEN", "a", List(<<I(1)>>)), Pred("=", "a b", I(1)), Matches,
     Substring(Pred("~~", "t", S(<<"_">>))), Pred("LIKE", "t", S(<<"x">>))}
Queries ==
    {[Plain EXCEPT !.where = <<p, Or, Is2>>] : p \in Preds}
    \cup {[Plain EXCEPT !.where = <<Matches, Is2>>, !.having = <<Pred(">", "a", I(0))>>, !.aliases = al,
                        !.relevance = <<[kind |-> k, search |-> s, as |-> a, column |-> "doc"]>>, !.order = <<[search |-> Find], [field |-> o]>>] :
            k \in {"rank", "highlight"}, s \in {Find, [Find EXCEPT !.on = "q"], [Find EXCEPT !.term = <<>>]}, a \in {"r", "a b"},
            o \in {"id", "a b"}, al \in {<<<<"p">>>>, <<<<"p", "q">>>>, <<<<>>>>}}
    \cup {[Plain EXCEPT !.where = <<p>>, !.limit = 2, !.groups = 0,
                        !.relevance = <<[kind |-> k, search |-> [Find EXCEPT !.term = t], as |-> "r", column |-> c]>>] :
            p \in {Is2, Matches}, k \in {"rank", "highlight"}, t \in {<<"x">>, <<"u">>}, c \in {"doc", "t"}}
    \cup {[Plain EXCEPT !.where = w, !.order = o, !.limit = l, !.offset = f] :
            w \in {<<>>, <<Is2, Or, Matches>>}, o \in {<<>>, <<[field |-> "id"]>>}, l \in {-1, 0, 1, 2, 9}, f \in {-1, 0, 1, 2, 9}}
MCRequests ==
    {[filters |-> fs, tenant |-> I(1), paged |-> TRUE, limit |-> 1, max |-> 3] : fs \in FilterLists}
    \cup {[filters |-> <<>>, tenant |-> I(1), paged |-> TRUE, limit |-> l, max |-> m] : l \in 0 .. 3, m \in 1 .. 3}
    \cup {[query |-> q, paged |-> p, limit |-> 2, max |-> 3] : q \in Queries, p \in BOOLEAN}

\* Searches: stopwords, short words, synonyms, phrases, proximity, exclusions.
MCWords == {"cat", "dog", "cats", "the", "ox", "or", "2", "dgo", "kitty", "hot"}
MCNumbers == "2" :> 2
MCStarts == [w \in MCWords |-> IF w = "cat" THEN {"cat", "cats"} ELSE {w}]
MCGroups == {{<<"cat">>, <<"kitty">>, <<"hot", "dog">>}}
MCSimilar == [w \in MCWords |-> IF w = "dgo" THEN <<"dog", "cat">> ELSE <<>>]
MCTables == {MCTable, {<<"cat">>, <<"ox", "2">>}}
Phrase(ws) == [words |-> ws, negate |-> FALSE, bare |-> TRUE, near |-> ""]
Word(w) == Phrase(<<w>>)
Minus(i) == [i EXCEPT !.negate = TRUE]
Near(ws) == [Phrase(ws) EXCEPT !.near = "2"]
SomeItems ==
    {Word(w) : w \in {"cat", "dog", "the", "ox", "dgo"}}
    \cup {Phrase(<<"cat", "dog">>), Near(<<"dog", "cat">>), [Word("or") EXCEPT !.bare = FALSE], Phrase(<<"the", "ox">>)}
    \cup {Near(ws) : ws \in {<<"dog", "ox">>, <<"cat", "ox">>, <<"the", "cat">>, <<"dog", "the">>, <<"the", "ox">>}}
FewItems ==
    {Word("dog"), Word("the"), Minus(Word("cat")), Minus(Word("ox")), Minus(Near(<<"dog", "cat">>)), Minus(Phrase(<<"cat", "dog">>))}
Web(alts) == [mode |-> "web", alts |-> alts]
MCSearches ==
    {Web(<<<<i>>>>) : i \in SomeItems \cup {Minus(j) : j \in SomeItems}}
    \cup {Web(<<<<i, j>>>>) : i \in {Word("dgo"), Phrase(<<"cat", "dog">>), Word("the")}, j \in FewItems}
    \cup {Web(<<<<i, j>>, <<k>>>>) : i \in {Word("cat"), Word("the")}, j \in FewItems, k \in {Minus(Word("ox")), Near(<<"cat", "dog">>)}}
    \cup {[mode |-> m, alts |-> <<<<Word(v), Word(w)>>>>] : v \in {"cat", "the"}, w \in {"dog", "ox"}, m \in {"all", "prefix"}}
    \cup {[mode |-> "any", alts |-> <<<<Word("ox")>>, <<Word(w)>>>>] : w \in {"dgo", "the"}}
    \cup {[mode |-> "all", alts |-> <<<<Word("cat"), Word("dog"), Word("ox"), Word("hot")>>>>],
          [mode |-> "phrase", alts |-> <<<<Phrase(<<"ox", "cat">>)>>>>]}

\* Objects: a key that is a folder's name, the folder and an object in it.
MCKeys == <<"a", "d", "d/", "d/x">>
MCInFolder == [k \in {"a", "d", "d/", "d/x"} |-> IF k = "d/x" THEN "d/" ELSE ""]
MCTwin == [k \in {"a", "d", "d/", "d/x", ""} |-> CASE k = "d" -> "d/" [] k = "d/" -> "d" [] OTHER -> ""]
=============================================================================
