---------------------------- MODULE MongoMeaning ----------------------------
(***************************************************************************)
(* What a MongoDB server does with the calls of MongoRules: the values of the  *)
(* result, the stored fields each is computed from, those that decide which    *)
(* documents come back and in which order, the collections read, and what      *)
(* happens besides reading. It knows nothing of nyet's rules.                  *)
(*                                                                          *)
(* A document is a set of values [path, from], `from` the stored fields        *)
(* <<collection, path>> behind it. What a comparison with a whole embedded     *)
(* document decides is left out: only the fields it names count. Where the     *)
(* server's answer depends on more than that, a document has every value it    *)
(* may have.                                                                 *)
(***************************************************************************)
EXTENDS MongoRules

CONSTANT Stored     \* collection -> the paths of its documents

ASSUME StoredAssumption ==
    \A k \in DOMAIN Stored : k \in STRING /\ Stored[k] \subseteq Seq(STRING)

\* The fields a server names itself are named by strings.
ASSUME ServerNamesAssumption == {"_id", "count", "value"} \subseteq STRING

Documents == SUBSET [path : Seq(STRING), from : SUBSET (STRING \X Seq(STRING))]

Contents(k) ==
    IF k \in DOMAIN Stored THEN {[path |-> path, from |-> {<<k, path>>}] : path \in Stored[k]}
    ELSE {}

Behind(values) == UNION {v.from : v \in values}

\* The values at a path or around it, those at or below it, these with the path
\* taken off, and a document put at a path.
At(d, path) == {v \in d : IsPrefix(v.path, path)}
Under1(d, path) == {v \in d : IsPrefix(path, v.path)}
Below(d, path) ==
    {[path |-> SubSeq(v.path, Len(path) + 1, Len(v.path)), from |-> v.from] : v \in Under1(d, path)}
Put(path, d) == {[path |-> path \o v.path, from |-> v.from] : v \in d}

\* The values that are no embedded documents.
Single(values) == {v \in values : v.path = << >>}

(***************************************************************************)
(* Expressions and filters                                                  *)
(***************************************************************************)
Ancestors(tree, n) ==
    LET above[m \in DOMAIN tree] == IF tree[m].up = 0 THEN {m} ELSE {m} \cup above[tree[m].up]
    IN  above[n]

Subtree(tree, n) == {m \in DOMAIN tree : n \in Ancestors(tree, m)}

\* The nodes on the way from n down to m.
Between(tree, n, m) == Ancestors(tree, m) \ (Ancestors(tree, n) \cup {m})

\* The path node m of a filter or a projection means.
FieldPath(tree, n, m) ==
    LET path[x \in DOMAIN tree] ==
            IF x = n \/ tree[x].up = 0 THEN << >>
            ELSE path[tree[x].up] \o (IF IsOperator(tree[x].key) THEN << >> ELSE tree[x].key)
    IN  path[m]

Fields(tree, n) == {m \in Under(tree, n) : ~IsOperator(tree[m].key)}
Field(tree, n, name) == {m \in Under(tree, n) : tree[m].key = <<name>>}
Texts(tree, nodes) == {tree[m].text : m \in {x \in nodes : tree[x].kind = "string"}}

\* The path a text names, if it is a reference.
Pointed(text) ==
    IF text = << >> \/ text[1] \notin {"$", "$$"} THEN << >>
    ELSE IF text[1] = "$" THEN Tail(text) ELSE SubSeq(text, 3, Len(text))

\* A variable of an expression or a $lookup holds a value that its references
\* lead to, one after another.
Held(d, tree) ==
    LET spoken == UNION {ToSet(Pointed(text)) : text \in Texts(tree, DOMAIN tree)}
        led(v, i) == ToSet(SubSeq(v.path, 1, i)) \subseteq spoken
    IN  UNION {{[path |-> SubSeq(v.path, i + 1, Len(v.path)), from |-> v.from] :
                    i \in {j \in 0 .. Len(v.path) : led(v, j)}} : v \in d}

\* The value or document a text refers to; a variable may be any of those held.
Ref(d, held, text) ==
    IF text = << >> \/ text[1] \notin {"$", "$$"} THEN {}
    ELSE IF text[1] = "$" \/ text[2] \in {"ROOT", "CURRENT"} THEN Below(d, Pointed(text))
    ELSE held

RefsIn(d, held, tree, n) == UNION {Ref(d, held, text) : text \in Texts(tree, Subtree(tree, n))}

\* What an expression makes: a reference, the document or value it names; an
\* operator, one of those its references name or a value computed from them.
Computed1(d, held, tree, n) ==
    IF tree[n].kind = "string" THEN Ref(d, held, tree[n].text)
    ELSE RefsIn(d, held, tree, n)
         \cup {[path |-> << >>, from |-> Behind(Single(RefsIn(d, held, tree, n)))]}

\* Fields made of expressions, and a document of them or an expression.
MadeOf(d, held, tree, nodes) == UNION {Put(tree[m].key, Computed1(d, held, tree, m)) : m \in nodes}

Made(d, held, tree, n) ==
    IF tree[n].kind = "doc" /\ Fields(tree, n) = Under(tree, n) THEN MadeOf(d, held, tree, Under(tree, n))
    ELSE Computed1(d, held, tree, n)

\* Which documents a value of an expression tells apart.
Tells(d, held, tree, nodes) == UNION {Behind(Single(RefsIn(d, held, tree, m))) : m \in nodes}

\* The nodes of a filter that name fields: what stands in an array under a
\* field's name is compared with, and no stage is an operator of a filter.
Naming(tree, n) ==
    {m \in Subtree(tree, n) \ {n} :
        \A x \in Between(tree, n, m) :
            /\ tree[x].kind = "array" => IsOperator(tree[x].key)
            /\ tree[x].key # <<"$", "facet">>}

FilterDecides(d, held, tree, n) ==
    Tells(d, held, tree, {n}) \cup UNION {Behind(At(d, FieldPath(tree, n, m))) : m \in Naming(tree, n)}

\* What an order by the fields of a document decides.
OrderDecides(d, tree, nodes) ==
    UNION {Behind(At(d, tree[m].key)) : m \in UNION {Fields(tree, n) : n \in nodes}}

(***************************************************************************)
(* Stages                                                                   *)
(***************************************************************************)

\* A projection: fields kept or dropped, in documents of documents too, fields
\* an operator picks from, and fields made.
Projected(d, held, tree, n) ==
    LET flags(text) == {m \in Subtree(tree, n) \ {n} :
                            /\ tree[m].kind = "flag" /\ tree[m].text = <<text>>
                            /\ \A x \in Between(tree, n, m) \cup {m} : ~IsOperator(tree[x].key)}
        drops == flags("0")
        keeps == flags("1")
        made  == {m \in Under(tree, n) : tree[m].kind # "flag"}
        picks == {m \in made : Fields(tree, m) # Under(tree, m)}
        kept  == IF keeps = {} /\ drops # {}
                 THEN d \ UNION {Under1(d, FieldPath(tree, n, m)) : m \in drops}
                 ELSE (UNION {Under1(d, FieldPath(tree, n, m)) : m \in keeps}) \cup Under1(d, <<"_id">>)
    IN  kept \cup (UNION {Under1(d, tree[m].key) : m \in picks}) \cup MadeOf(d, held, tree, made)

\* What a namespace stage brings: a collection, or what its pipeline makes of it.
Joined1(c, n, held, inner) ==
    LET tree  == c.tree
        texts == Texts(tree, NamedSources(tree, n)) \ {<< >>}
        whole == UNION {Contents(text[1]) : text \in texts}
        runs  == {m \in Field(tree, n, "pipeline") : tree[m].kind = "array"}
    IN  IF runs = {} THEN [d |-> whole, decides |-> {}]
        ELSE inner[<<CHOOSE m \in runs : TRUE, whole, held>>]

\* The stages that do more than let documents through, as limit, skip and sample do.
Shaping ==
    {"match", "redact", "sort", "project", "addFields", "set", "unset", "group", "bucket", "bucketAuto",
     "setWindowFields", "sortByCount", "count", "unwind", "replaceWith", "replaceRoot", "lookup",
     "graphLookup", "unionWith", "facet"}

\* One stage, applied to [d, decides]; `around` are values of the variables of the
\* stages around it, and `inner` runs a pipeline nested in it.
Stage(c, n, before, around, inner) ==
    LET tree == c.tree
        d    == before.d
        op   == tree[n].key[2]
        held == around \cup Held(d, tree)
        to(values, more) == [d |-> values, decides |-> before.decides \cup more]
        field(name) == Field(tree, n, name)
        texts(name) == Texts(tree, field(name))
        under(name) == UNION {Under(tree, m) : m \in field(name)}
        fields      == MadeOf(d, held, tree, Under(tree, n))
        joined      == Joined1(c, n, held, inner)
        brought(e)  == UNION {Put(text, e) : text \in texts("as")}
        named(e, names) == UNION {Behind(At(e, text)) : text \in UNION {texts(name) : name \in names}}
        branch      == [m \in {x \in Under(tree, n) : tree[n].kind = "doc" /\ tree[x].kind = "array"} |->
                            inner[<<m, d, held>>]]
        counted(path) == {[path |-> path, from |-> {}]}
    IN  IF op \notin Shaping THEN before ELSE
        CASE op = "match" -> to(d, FilterDecides(d, held, tree, n))
          [] op = "redact" -> to(d, Tells(d, held, tree, {n}))
          [] op = "sort"  -> to(d, OrderDecides(d, tree, {n}))
          [] op = "project" -> to(Projected(d, held, tree, n), {})
          [] op \in {"addFields", "set"} -> to(d \cup fields, {})
          [] op = "unset" ->
                to(d \ UNION {Under1(d, text) : text \in Texts(tree, {n} \cup Under(tree, n))}, {})
          [] op = "group" -> to(fields, Tells(d, held, tree, field("_id")))
          [] op \in {"bucket", "bucketAuto"} ->
                to((UNION {Put(<<"_id">>, Computed1(d, held, tree, m)) : m \in field("groupBy")})
                       \cup counted(<<"count">>) \cup MadeOf(d, held, tree, under("output")),
                   Tells(d, held, tree, field("groupBy")))
          [] op = "setWindowFields" ->
                to(d \cup MadeOf(d, held, tree, under("output")),
                   Tells(d, held, tree, field("partitionBy")) \cup OrderDecides(d, tree, field("sortBy")))
          [] op = "sortByCount" ->
                to(Put(<<"_id">>, Computed1(d, held, tree, n)) \cup counted(<<"count">>),
                   Tells(d, held, tree, {n}))
          [] op = "count" -> to(counted(tree[n].text), {})
          [] op = "unwind" ->
                to(d \cup UNION {counted(text) : text \in texts("includeArrayIndex")},
                   Tells(d, held, tree, {n}))
          [] op = "replaceWith" -> to(Made(d, held, tree, n), {})
          [] op = "replaceRoot" -> to(UNION {Made(d, held, tree, m) : m \in field("newRoot")}, {})
          [] op = "lookup" ->
                to(d \cup brought(joined.d),
                   joined.decides \cup named(d, {"localField"}) \cup named(joined.d, {"foreignField"}))
          [] op = "graphLookup" ->
                to(d \cup brought(joined.d \cup UNION {counted(text) : text \in texts("depthField")}),
                   named(joined.d, {"connectFromField", "connectToField"})
                   \cup Tells(d, held, tree, field("startWith"))
                   \cup UNION {FilterDecides(joined.d, held, tree, m) : m \in field("restrictSearchWithMatch")})
          [] op = "unionWith" -> to(d \cup joined.d, joined.decides)
          [] op = "facet" ->
                to(UNION {Put(tree[m].key, branch[m].d) : m \in DOMAIN branch},
                   UNION {branch[m].decides : m \in DOMAIN branch})

StageOf(tree, i) == CHOOSE x \in Under(tree, i) : TRUE

\* What is left of [d, decides] after element i of pipeline n; the server knows
\* no other key of a stage.
Passed(c, n, i, before, around, inner) ==
    IF i \in Under(c.tree, n) /\ IsOperator(c.tree[StageOf(c.tree, i)].key)
    THEN Stage(c, StageOf(c.tree, i), before, around, inner) ELSE before

Pipeline(c, n, d, around, inner) ==
    LET after[i \in 0 .. Len(c.tree)] ==
            IF i = 0 THEN [d |-> d, decides |-> {}] ELSE Passed(c, n, i, after[i - 1], around, inner)
    IN  after[Len(c.tree)]

\* What the pipelines of a call make of documents, one nested in another no
\* deeper than there are values.
Aggregated(c) ==
    LET run[k \in 0 .. Len(c.tree)] ==
            [x \in (DOMAIN c.tree) \X Documents \X Documents |->
                IF k = 0 THEN [d |-> x[2], decides |-> {}]
                ELSE Pipeline(c, x[1], x[2], x[3], run[k - 1])]
    IN  run[Len(c.tree)]

(***************************************************************************)
(* The call                                                                 *)
(***************************************************************************)
CallResult(c) ==
    LET tree == c.tree
        d    == Contents(c.collection)
        held == Held(d, tree)
        first == Root(c, "first")
        filter(name) == UNION {FilterDecides(d, held, tree, n) : n \in Root(c, name)}
        answers == {Aggregated(c)[<<n, d, {}>>] : n \in first}
    IN  CASE c.method \in {"find", "findOne"} ->
                [d |-> IF Root(c, "second") = {} THEN d
                       ELSE UNION {Projected(d, held, tree, n) : n \in Root(c, "second")},
                 decides |-> filter("first") \cup OrderDecides(d, tree, Root(c, "sort"))]
          [] c.method = "aggregate" ->
                [d |-> UNION {r.d : r \in answers}, decides |-> UNION {r.decides : r \in answers}]
          [] c.method = "countDocuments" ->
                [d |-> {[path |-> <<"count">>, from |-> {}]}, decides |-> filter("first")]
          [] c.method = "distinct" ->
                [d |-> Put(<<"value">>, Below(d, c.key)),
                 decides |-> filter("second") \cup Behind(At(d, c.key))]

\* How many documents answer a call that `matching` documents match: they are
\* counted in one group, or in none.
Answering(c, matching) ==
    IF c.method = "countDocuments" /\ matching > 0 THEN 1 ELSE matching

\* What happens besides reading this database's own collections.
CallRuns(c) ==
    LET tree == c.tree
        keys == {tree[n].key : n \in DOMAIN tree}
    IN  {<<"write", k[2]>> : k \in {x \in keys : OperatorIn(x, WriteKeys)}}
        \cup {<<"javascript", k[2]>> : k \in {x \in keys :
                OperatorIn(x, JavascriptKeys \cup {"code", "codeWithScope"})}}
        \cup {<<"javascript", n>> : n \in {x \in DOMAIN tree : tree[x].kind = "named"}}
        \cup {<<"method", m>> : m \in {c.method} \ {"find", "findOne", "aggregate", "countDocuments", "distinct"}}
        \cup {<<"option", k[2]>> : k \in {x \in keys : OperatorIn(x, OwnedKeys)}}
        \cup {<<"elsewhere", n>> : n \in {x \in DOMAIN tree :
                tree[x].key \in {<<"from">>, <<"coll">>} /\ tree[x].kind = "doc" /\ ~Spelled(tree, x)
                /\ tree[x].up # 0 /\ OperatorIn(tree[tree[x].up].key, NamespaceStages)}}
        \cup {<<"catalog", k>> : k \in Catalogs \cap Collections(c)}

=============================================================================
