----------------------------- MODULE MongoRules -----------------------------
(***************************************************************************)
(* Layer 1 for MongoDB and the scan of its replies (src/mongo.rs): what        *)
(* check_with_pii says of one mongosh call, the command sent for it, and what  *)
(* read_reply and scan_reply make of the answer.                               *)
(*                                                                          *)
(* A call is                                                                *)
(*   [text, collection, method, args, chain, tree, key]                      *)
(* where `tree` is the values of all its arguments, one node per value in the  *)
(* order they are written:                                                    *)
(*   [up, key, kind, text]                                                   *)
(* `up` is the node's parent (0: an argument, whose key says which); `key` its *)
(* field name as a path, <<"$", op>> for an operator, << >> in an array; kind  *)
(* "doc", "array", "string", "flag" (a boolean, 0 or 1), "typed" (well-formed  *)
(* for the extended JSON type it stands under), "malformed" (a string, number  *)
(* or regular expression that does not end or does not fit), "named" (a bare   *)
(* word or a constructor that is none of the few known) or "other"; `text` is  *)
(* a string's path, after "$" in a field reference and "$$" in a variable.     *)
(***************************************************************************)
EXTENDS Refusals, Integers

CONSTANTS
    Methods,        \* [read, write, javascript, chain]: what the lists name
    StageOps,       \* the pipeline stages on the allowlist
    Operators,      \* the query operators and expressions on the allowlist
    Catalogs,       \* the collections named system.*
    MaxDepth        \* levels a value may nest

\* The lists name what is read, and no form of JavaScript for an operator.
ASSUME ListsAssumption ==
    /\ Methods.read \subseteq {"find", "findOne", "aggregate", "countDocuments", "distinct"}
    /\ {"code", "codeWithScope"} \cap (StageOps \cup Operators) = {}

WriteKeys == {"merge", "out"}
JavascriptKeys == {"accumulator", "function", "where"}
OwnedKeys == {"comment", "db", "hint", "maxTimeMS", "readPreference"}
UnprovableKeys ==
    {"arrayToObject", "bsonSize", "densify", "fill", "getField", "objectToArray",
     "setField", "unsetField"}
NamespaceStages == {"graphLookup", "lookup", "unionWith"}

ExtendedTypes ==
    {"binary", "code", "codeWithScope", "date", "maxKey", "minKey", "numberDecimal",
     "numberDouble", "numberInt", "numberLong", "oid", "regularExpression", "timestamp"}

IsOperator(key) == Len(key) = 2 /\ key[1] = "$"
OperatorIn(key, names) == IsOperator(key) /\ key[2] \in names

(***************************************************************************)
(* The tree of values                                                       *)
(***************************************************************************)
Under(tree, n) == {m \in DOMAIN tree : tree[m].up = n}

\* A document of one extended JSON key stands for the value it spells.
Spelled(tree, n) ==
    /\ tree[n].kind = "doc"
    /\ Cardinality(Under(tree, n)) = 1
    /\ \A m \in Under(tree, n) : OperatorIn(tree[m].key, ExtendedTypes)

\* The nodes left once extended JSON is read.
Live(tree) == {n \in DOMAIN tree : tree[n].up = 0 \/ ~Spelled(tree, tree[n].up)}

Nesting(tree) ==
    LET depth[n \in DOMAIN tree] == IF tree[n].up = 0 THEN 1 ELSE 1 + depth[tree[n].up]
    IN  depth

\* parse_string, parse_number, parse_regex
LiteralObjections(node) == When(node.kind = "malformed", "PARSE_FAILED")

\* parse_word, parse_ctor: nothing is evaluated, so a name means nothing else.
ConstructorObjections(node) == When(node.kind = "named", "PARSE_FAILED")

\* parse_value, parse_document and finish_document, for one value.
ValueObjections(tree, n) ==
    LET spelled(names) == Spelled(tree, n) /\ \E m \in Under(tree, n) : tree[m].key[2] \in names
    IN  When(Nesting(tree)[n] > MaxDepth, "PARSE_FAILED")
        \cup LiteralObjections(tree[n]) \cup ConstructorObjections(tree[n])
        \cup When(\E i, j \in Under(tree, n) :
                    i # j /\ tree[n].kind = "doc" /\ tree[i].key = tree[j].key, "PARSE_FAILED")
        \cup When(spelled({"code", "codeWithScope"}), "DENIED_FUNCTION")
        \cup When(spelled({"binary"}), "DENIED_OPERATOR")
        \cup When(/\ spelled(ExtendedTypes \ {"code", "codeWithScope", "binary"})
                  /\ \E m \in Under(tree, n) : tree[m].kind # "typed", "PARSE_FAILED")

(***************************************************************************)
(* parse: the call around the values                                        *)
(***************************************************************************)
MethodObjections(method) ==
    IF method \in Methods.write THEN {"WRITE_OPERATION"}
    ELSE IF method \in Methods.javascript THEN {"DENIED_FUNCTION"}
    ELSE When(method \notin Methods.read, "DENIED_COMMAND")

Root(c, name) == {n \in DOMAIN c.tree : c.tree[n].up = 0 /\ c.tree[n].key = <<name>>}

\* A document that spells another value is no document.
RootIs(c, name, kind) == \A n \in Root(c, name) : c.tree[n].kind = kind /\ ~Spelled(c.tree, n)

\* build_op: how many arguments the method takes, and of which kind.
ArgumentObjections(c) ==
    LET arity == IF c.method \in {"find", "findOne", "distinct"} THEN 2 ELSE 1
    IN  IF c.args > arity THEN {"DENIED_COMMAND"}
        ELSE CASE c.method \in {"find", "findOne"} ->
                    When(~RootIs(c, "first", "doc") \/ ~RootIs(c, "second", "doc"), "PARSE_FAILED")
               [] c.method = "aggregate" ->
                    When(c.args = 0 \/ ~RootIs(c, "first", "array"), "PARSE_FAILED")
               [] c.method = "distinct" ->
                    IF c.key = << >> \/ ~RootIs(c, "second", "doc") THEN {"PARSE_FAILED"}
                    ELSE When(Len(c.key) > 1, "DENIED_COMMAND")
               [] OTHER -> When(~RootIs(c, "first", "doc"), "PARSE_FAILED")

\* apply_chain for the i-th call of the chain, [name, arg, n]: on find only,
\* each at most once, findOne being a limit already.
ChainObjections(c, i) ==
    LET call  == c.chain[i]
        taken == \/ \E j \in 1..(i - 1) : c.chain[j].name = call.name
                 \/ call.name = "limit" /\ c.method = "findOne"
    IN  IF call.name \notin Methods.chain \/ c.method \notin {"find", "findOne"}
        THEN {"DENIED_COMMAND"}
        ELSE CASE call.name = "toArray" -> When(call.arg # "none", "PARSE_FAILED")
               [] call.name = "sort" ->
                    When(\/ taken \/ call.arg # "doc" \/ ~RootIs(c, "sort", "doc")
                         \/ \E n \in Root(c, "sort") : Under(c.tree, n) = {}, "PARSE_FAILED")
               [] call.name = "skip" -> When(taken \/ call.arg # "int" \/ call.n < 0, "PARSE_FAILED")
               [] OTHER -> When(taken \/ call.arg # "int" \/ call.n < 1, "PARSE_FAILED")

\* A text that is too long, or breaks off where something was expected, is
\* refused whatever else it has.
TextObjections(c) == When(c.text # "ok", "PARSE_FAILED")

Parse(c) ==
    << TextObjections(c),
       When(c.collection = None \/ c.collection \in Catalogs, "DENIED_COMMAND"),
       MethodObjections(c.method) >>
    \o [n \in DOMAIN c.tree |-> ValueObjections(c.tree, n)]
    \o << ArgumentObjections(c) >>
    \o [i \in DOMAIN c.chain |-> ChainObjections(c, i)]

(***************************************************************************)
(* PiiCtx: the protected names, of every collection the call reads           *)
(***************************************************************************)
SourceFields == {"from", "coll"}

\* The collections a value names when it stands under a namespace stage.
NamedSources(tree, n) ==
    IF ~OperatorIn(tree[n].key, NamespaceStages) THEN {}
    ELSE IF tree[n].kind = "string" THEN {n}
    ELSE {m \in Under(tree, n) : Len(tree[m].key) = 1 /\ tree[m].key[1] \in SourceFields
                                 /\ tree[n].kind = "doc" /\ ~Spelled(tree, n)}

\* A bug: only the collection of the call itself is protected.
Collections_NotJoined(c) == {c.collection}

Collections(c) ==
    {c.collection}
    \cup (IF c.method # "aggregate" THEN {}
          ELSE {c.tree[m].text[1] : m \in
                 {x \in UNION {NamedSources(c.tree, n) : n \in Live(c.tree)} :
                     c.tree[x].kind = "string" /\ c.tree[x].text # << >>}})

ProtectedNames(p, c) == {r[2] : r \in {x \in p.rules : x[1] \in Collections(c)}}

PathHit(names, path) == \E i \in DOMAIN path : path[i] \in names

\* check_ref: "$a.b" and "$$v.a.b" name fields, a bare "$$ROOT" all of them.
RefObjections(names, text) ==
    CASE text = << >> \/ text[1] \notin {"$", "$$"} -> {}
      [] text[1] = "$" -> When(PathHit(names, Tail(text)), "PII_COLUMN")
      [] text[1] = "$$" ->
            IF Len(text) = 2 THEN When(text[2] \in {"ROOT", "CURRENT"}, "PII_UNPROVABLE")
            ELSE When(PathHit(names, SubSeq(text, 3, Len(text))), "PII_COLUMN")

\* check_field_key; a projection literal of the field is what "mask" relaxes.
FieldObjections(p, names, node, projection) ==
    When(/\ ~IsOperator(node.key) /\ PathHit(names, node.key)
         /\ ~(projection /\ p.mode = "mask" /\ node.kind = "flag"), "PII_COLUMN")

JoinFields ==
    {"localField", "foreignField", "as", "connectFromField", "connectToField", "depthField"}

\* check_stage: the names a stage takes outside keys and references.
StageObjections(p, names, tree, n) ==
    LET op   == tree[n].key[2]
        hits(m) == tree[m].kind = "string" /\ PathHit(names, tree[m].text)
        named(fields) == {m \in Under(tree, n) : tree[n].kind = "doc" /\ ~Spelled(tree, n)
                                                 /\ tree[m].key[1] \in fields}
    IN  When(/\ IsOperator(tree[n].key)
             /\ \/ /\ op = "unset" /\ p.mode # "mask"
                   /\ hits(n) \/ (tree[n].kind = "array" /\ \E m \in Under(tree, n) : hits(m))
                \/ op = "count" /\ hits(n)
                \/ op = "unwind" /\ \E m \in named({"includeArrayIndex"}) : hits(m)
                \/ op \in {"lookup", "graphLookup"} /\ \E m \in named(JoinFields) : hits(m),
             "PII_COLUMN")

(***************************************************************************)
(* classify: the walk over the values                                       *)
(***************************************************************************)

\* How the walk comes to a value: as a "pipeline", a "stage" of one, the
\* "facets" of $facet, or a value in a "projection" or elsewhere ("strict").
ArgumentMode(c, n) ==
    IF c.method = "aggregate" THEN "pipeline"
    ELSE IF c.method \in {"find", "findOne"} /\ c.tree[n].key = <<"second">> THEN "projection"
    ELSE "strict"

\* walk_doc: a pipeline is one wherever it stands.
FieldMode(node, value) ==
    CASE node.key = <<"$", "facet">> /\ node.kind = "doc" -> "facets"
      [] node.key = <<"pipeline">> /\ node.kind = "array" -> "pipeline"
      [] OTHER -> value

ModeUnder(tree, n, around) ==
    LET node == tree[n]
    IN  CASE around = "pipeline" -> "stage"
          [] around = "facets" -> "pipeline"
          [] around = "stage" ->
                FieldMode(node, IF node.key = <<"$", "project">> THEN "projection" ELSE "strict")
          [] around \in {"projection", "strict"} /\ tree[node.up].kind = "array" -> around
          [] OTHER ->
                FieldMode(node, IF around = "projection" /\ ~IsOperator(node.key) /\ node.kind = "doc"
                                THEN "projection" ELSE "strict")

Modes(c) ==
    LET mode[n \in DOMAIN c.tree] ==
            LET u == c.tree[n].up
            IN  IF u = 0 THEN ArgumentMode(c, n) ELSE ModeUnder(c.tree, n, mode[u])
    IN  mode

\* With it, how deep the walk counts the value.
Walked(c) ==
    LET mode == Modes(c)
        depth[n \in DOMAIN c.tree] ==
            LET u == c.tree[n].up
            IN  CASE u = 0 -> 0
                  [] u # 0 /\ mode[n] = "stage" -> depth[u]
                  [] u # 0 /\ mode[n] = "pipeline" /\ mode[u] # "facets" -> depth[u] + 2
                  [] OTHER -> depth[u] + 1
    IN  [mode |-> mode, depth |-> depth]

\* check_key: what may stand where an operator does.
KeyObjections(names, key, stage) ==
    IF ~IsOperator(key) THEN {}
    ELSE IF names # {} /\ key[2] \in UnprovableKeys THEN {"PII_UNPROVABLE"}
    ELSE IF key[2] \in WriteKeys THEN {"WRITE_OPERATION"}
    ELSE IF key[2] \in JavascriptKeys THEN {"DENIED_FUNCTION"}
    ELSE IF key[2] \in OwnedKeys THEN {"DENIED_OPERATOR"}
    ELSE When(key[2] \notin (IF stage THEN StageOps ELSE Operators \cup StageOps), "DENIED_OPERATOR")

\* A bug: the {db, coll} form of a namespace is let through.
SourceObjections_NamesOnly(tree, n) ==
    When(\E m \in NamedSources(tree, n) :
            tree[m].kind = "string" /\ tree[m].text # << >> /\ tree[m].text[1] \in Catalogs,
         "DENIED_COMMAND")

\* check_collection_source: a stage reads a collection of this database that is
\* not a catalog.
SourceObjections(tree, n) ==
    When(\E m \in NamedSources(tree, n) :
            \/ tree[m].kind = "string" /\ tree[m].text # << >> /\ tree[m].text[1] \in Catalogs
            \/ tree[m].kind = "doc" /\ ~Spelled(tree, m), "DENIED_COMMAND")

NodeObjections(p, names, c, walked, n) ==
    LET tree == c.tree
        node == tree[n]
        u    == node.up
        in   == IF u = 0 THEN "argument" ELSE IF tree[u].kind = "array" THEN "array" ELSE walked.mode[u]
        protected(objections) == IF names = {} THEN {} ELSE objections
    IN  << When(walked.mode[n] = "stage" /\ (node.kind # "doc" \/ Spelled(tree, n)
                                             \/ Cardinality(Under(tree, n)) # 1), "PARSE_FAILED"),
           IF in \in {"stage", "strict", "projection", "facets"}
           THEN KeyObjections(names, node.key, in = "stage") ELSE {},
           CASE in = "stage" ->
                    protected(FieldObjections(p, names, node, FALSE)
                              \cup StageObjections(p, names, tree, n))
             [] in \in {"strict", "projection"} ->
                    protected(FieldObjections(p, names, node, in = "projection"))
             [] in = "facets" ->
                    protected(When(PathHit(names, node.key), "PII_COLUMN"))
                    \cup When(node.kind # "array", "PARSE_FAILED")
             [] OTHER -> {},
           IF in \in {"stage", "strict", "projection"} THEN SourceObjections(tree, n) ELSE {},
           When(walked.depth[n] > MaxDepth, "PARSE_FAILED"),
           IF node.kind = "string" /\ walked.mode[n] \in {"strict", "projection"}
           THEN protected(RefObjections(names, node.text)) ELSE {} >>

\* The nodes as they are written: the first that is refused decides.
Walk(p, c) ==
    LET names  == ProtectedNames(p, c)
        walked == Walked(c)
    IN  When(c.method = "distinct" /\ PathHit(names, c.key), "PII_COLUMN")
        \cup FirstRefusal([n \in DOMAIN c.tree |->
                              IF n \in Live(c.tree)
                              THEN FirstRefusal(NodeObjections(p, names, c, walked, n)) ELSE {}])

\* check_with_pii. The walk is over a request, so after parse let one through.
Check(p, c) ==
    LET parsed == FirstRefusal(Parse(c))
    IN  [why |-> Caught(c.text = "panic", IF parsed # {} THEN parsed ELSE Walk(p, c))]

(***************************************************************************)
(* The command sent, and the reply to it                                    *)
(***************************************************************************)

\* The bounds on the rows of the command: what the agent asks for never raises
\* what nyet fetches; a count has one row, and an explain no bound of nyet's
\* (`fetch` is << >> there).
Bounds(c, fetch) ==
    LET ours   == {IF n < 1 THEN 1 ELSE n : n \in ToSet(fetch)}
        agents == {call.n : call \in {x \in ToSet(c.chain) : x.name = "limit"}}
                  \cup (IF c.method = "findOne" THEN {1} ELSE {})
    IN  CASE c.method \in {"find", "findOne"} -> ours \cup agents
          [] c.method \in {"aggregate", "distinct"} -> ours
          [] OTHER -> {}

\* A bug: only the number of rows tells of a cut.
ReadReply_ByRows(c, documents, open) == [rows |-> documents, truncated |-> FALSE]

\* read_reply: an open cursor means the server stopped early; a count of no
\* document is a count of zero.
ReadReply(c, documents, open) ==
    [rows      |-> IF c.method = "countDocuments" /\ documents = 0 THEN 1 ELSE documents,
     truncated |-> open]

\* The single column of these two is a label of nyet's own.
LabelledByNyet(c) == c.method \in {"countDocuments", "distinct"}

\* scan_reply over the paths of a reply's values: "deny" withholds the answer,
\* "mask" the value.
ScanReply(p, c, paths) ==
    LET names == ProtectedNames(p, c)
        hits  == {path \in paths : PathHit(names, IF LabelledByNyet(c) THEN Tail(path) ELSE path)}
        deep  == {path \in paths \ hits : Len(path) - 1 > MaxDepth}
    IN  [why  |-> When(names # {} /\ deep # {}, "PII_UNPROVABLE")
                  \cup When(hits # {} /\ p.mode # "mask", "PII_COLUMN"),
         mask |-> IF p.mode = "mask" THEN hits ELSE {}]

=============================================================================
