------------------------------ MODULE SqlRules ------------------------------
(***************************************************************************)
(* Layer 1 for SQL and the PII nets around it (src/validator.rs): what       *)
(* validate says of one statement (net A included), and what check_origins   *)
(* or check_result_names says of its result (net B).                         *)
(*                                                                          *)
(* A statement is the parser's tree, flattened: `queries[1]` is the root     *)
(* query and `queries[2]`, if any, is nested in it as a derived table, a CTE, *)
(* a subquery of an expression or the right arm of a set operation (`role`). *)
(* Names are those the parser hands over, already folded to lower case.      *)
(*                                                                          *)
(*   expression  [k |-> "col", q, c]      q.c, or c with q = ""             *)
(*               [k |-> "call", f, args]  f(args)                           *)
(*               [k |-> "sub"]            queries[2] as a value             *)
(*               [k |-> "ordinal"]        the number 1; any other literal   *)
(*   argument    [k |-> "arg", e], [k |-> "star"], [k |-> "qstar", q]       *)
(*   item        [k |-> "item", e, alias], [k |-> "star"], [k |-> "qstar", q] *)
(*   source      [k, name, call, args, alias, renames, op, using, on, inner] *)
(*               k: "table" | "function" | "derived" | "nested"             *)
(*               op: how it is joined to what stands before it              *)
(***************************************************************************)
EXTENDS Refusals

CONSTANTS
    Builtin,    \* per engine: the functions its denylist names
    Family,     \* per engine: the functions its denied prefixes cover
    Sampling    \* per engine: the catalogs that publish sampled values

(***************************************************************************)
(* The policy of a connection                                               *)
(***************************************************************************)

SqlEngines == {"sqlite", "postgres", "mysql", "clickhouse"}

\* Built-in list, minus what the config allows, plus what it denies.
DeniedFunctions(p) == (Builtin[p.engine] \ p.allow) \cup p.deny

IsDenied(p, f) == f \in DeniedFunctions(p) \/ f \in Family[p.engine]

ProtectsTable(p, t) == \E r \in p.rules : r[1] = t

ColumnsOf(p, t) == {r[2] : r \in {x \in p.rules : x[1] = t}}

(***************************************************************************)
(* The nodes of a statement, as the visitors meet them                      *)
(***************************************************************************)
Selects(s) == {q \in ToSet(s.queries) : q.body = "select"}

\* One level of joins: a FROM, or the inside of a parenthesised join.
Levels(q) == {q.from} \cup {f.inner : f \in {x \in ToSet(q.from) : x.k = "nested"}}

Factors(q) == UNION {ToSet(level) : level \in Levels(q)}

AllFactors(s) == UNION {Factors(q) : q \in Selects(s)}

Inner(args) == {a.e : a \in {x \in ToSet(args) : x.k = "arg"}}

Within(e) == {e} \cup (IF e.k = "call" THEN Inner(e.args) ELSE {})

\* Every expression node of a query: those of its projection that `indexes`
\* names, WHERE, GROUP BY, ORDER BY, ON, and the arguments of calls.
ExprsOver(q, indexes) ==
    LET tops == {q.items[i].e : i \in {x \in indexes : q.items[x].k = "item"}}
                \cup q.where \cup ToSet(q.group) \cup ToSet(q.order)
                \cup UNION {f.on \cup Inner(f.args) : f \in Factors(q)}
    IN  UNION {Within(e) : e \in tops}

Exprs(q) == ExprsOver(q, DOMAIN q.items)

AllExprs(s) == UNION {Exprs(q) : q \in ToSet(s.queries)}

Calls(s) == {e \in AllExprs(s) : e.k = "call"}

SourceCalls(s) == {f \in AllFactors(s) : f.k = "function" \/ (f.k = "table" /\ f.call)}

(***************************************************************************)
(* Net A: the scope of a statement                                          *)
(***************************************************************************)

\* The physical relation a table factor names. FROM ONLY t arrives as a table
\* "only" with alias t, FROM ONLY (t) as a call only(t).
RelationName(f) ==
    IF ~f.call
    THEN IF f.name = "only" /\ f.alias # None THEN f.alias ELSE f.name
    ELSE IF /\ f.name = "only" /\ Len(f.args) = 1
            /\ f.args[1].k = "arg" /\ f.args[1].e.k = "col"
         THEN f.args[1].e.c
         ELSE None

\* `TABLE t` keeps its name outside the factors.
TableBodies(s) == {q.table : q \in {x \in ToSet(s.queries) : x.body = "table"}}

\* What a set of factors brings into scope. Opaque sources (derived tables,
\* functions, a parenthesised join as a whole) give a qualifier and no more.
Scope(p, factors, bodies) ==
    LET named   == {f \in factors : f.k = "table" /\ RelationName(f) # None}
        opaque  == {f \in factors : f.k # "table" \/ (f.call /\ f \notin named)}
        guarded == {f \in named : ProtectsTable(p, RelationName(f))}
        tables  == {RelationName(f) : f \in guarded} \cup {t \in bodies : ProtectsTable(p, t)}
        aliases(fs) == {f.alias : f \in fs} \ {None}
    IN  IF p.rules = {}
        THEN [columns |-> {}, handles |-> {}, relations |-> {},
              renames |-> FALSE, unresolved |-> FALSE]
        ELSE [columns    |-> UNION {ColumnsOf(p, t) : t \in tables},
              handles    |-> tables \cup aliases(guarded),
              relations  |-> {RelationName(f) : f \in named} \cup bodies
                             \cup aliases(named) \cup aliases(opaque),
              renames    |-> \E f \in guarded : f.renames,
              unresolved |-> \E f \in factors \ named : f.k = "table" /\ ~f.call]

StatementScope(p, s) == Scope(p, AllFactors(s), TableBodies(s))

\* The scope of one select's FROM: what an unqualified * expands.
Inside(level) == ToSet(level) \cup UNION {ToSet(f.inner) : f \in ToSet(level)}

LocalScope(p, level) == Scope(p, Inside(level), {})

Active(scope) == scope.handles # {} \/ scope.unresolved

PrefixIsSafe(scope, q) == q \notin scope.handles /\ q \in scope.relations

\* A bug: a qualifier of another table counts for nothing.
NamesProtected_AnyTable(scope, e) == e.k = "col" /\ e.c \in scope.columns

NamesProtected(scope, e) ==
    /\ e.k = "col"
    /\ e.c \in scope.columns
    /\ ~(e.q # None /\ PrefixIsSafe(scope, e.q))

QualifiedStarIsSafe(scope, q) == ~Active(scope) \/ PrefixIsSafe(scope, q)

(***************************************************************************)
(* Net A: what mode = "mask" relaxes                                        *)
(***************************************************************************)
RootIsSelect(s) == s.kind = "query" /\ s.role # "arm" /\ s.queries[1].body = "select"

\* Indexes of the root's projection that are bare references to a protected
\* column, whether or not a wildcard makes their position unknown.
Candidates(p, s) ==
    IF p.mode # "mask" \/ ~RootIsSelect(s) THEN {}
    ELSE {i \in DOMAIN s.queries[1].items :
            LET item == s.queries[1].items[i]
            IN  /\ item.k = "item" /\ item.alias = None
                /\ NamesProtected(StatementScope(p, s), item.e)}

HasStar(q) == \E i \in ToSet(q.items) : i.k \in {"star", "qstar"}

WildcardConflict(p, s) == Candidates(p, s) # {} /\ HasStar(s.queries[1])

Maskable(p, s) == IF WildcardConflict(p, s) THEN {} ELSE Candidates(p, s)

\* Sorting, grouping or deduplicating by anything but a plain name.
OrderingConflict(p, s) ==
    LET q == s.queries[1]
        named(keys) == \A e \in ToSet(keys) : e.k = "col"
    IN  /\ Maskable(p, s) # {}
        /\ \/ q.orderAll \/ ~named(q.order)
           \/ q.distinct
           \/ q.groupAll \/ ~named(q.group) \/ q.rollup

\* The nodes themselves are exempt, not their names: the same expression in
\* another place is judged.
JudgedExprs(p, s) ==
    LET root == s.queries[1]
    IN  ExprsOver(root, DOMAIN root.items \ Maskable(p, s))
        \cup UNION {Exprs(s.queries[i]) : i \in DOMAIN s.queries \ {1}}

(***************************************************************************)
(* The walk (Checker): every refusal each hook may raise                    *)
(***************************************************************************)
Reads == {"query", "explain", "explain_table", "show"}
Control == {"set", "start", "commit", "rollback", "savepoint", "release"}

\* EXPLAIN ANALYZE runs its statement, however it is spelled.
ExplainExecutes(s) == s.analyze \/ s.options \cap {"analyze", "analyse"} # {}

StatementObjections(s) ==
    When(s.kind = "explain" /\ ExplainExecutes(s) /\ s.inner = "query", "EXPLAIN_ANALYZE")
    \cup When(s.kind \in Control \/ (s.kind = "explain" /\ s.inner \in Control), "TXN_CONTROL")
    \cup When(\/ s.kind \notin Reads \cup Control
              \/ s.kind = "explain" /\ s.inner \notin Reads \cup Control
              \/ \E q \in ToSet(s.queries) : q.body = "write", "WRITE_OPERATION")

QueryObjections(p, s) ==
    LET qs == ToSet(s.queries)
    IN  When(p.rules # {} /\ \E t \in TableBodies(s) :
                                 t \in Sampling[p.engine] \/ ProtectsTable(p, t), "PII_COLUMN")
        \cup When(\E q \in qs : q.settings, "TXN_CONTROL")
        \cup When(\E q \in qs : q.format, "WIRE_FORMAT")
        \cup When(\E q \in qs : q.locks, "LOCKING_CLAUSE")

\* A bug: USING names its columns outside the expressions.
JoinExposes_Using(p, scope, level) ==
    \E i \in 2..Len(level) :
        LET f == level[i]
        IN  \/ f.op = "array" /\ f.k = "table" /\ ~f.call /\ f.name \in scope.columns
            \/ f.op = "natural" /\ Active(LocalScope(p, level))

\* USING names columns outside the expressions, NATURAL names none, and the
\* operand of ARRAY JOIN stands where a relation would.
JoinExposes(p, scope, level) ==
    \E i \in 2..Len(level) :
        LET f == level[i]
        IN  \/ f.op = "array" /\ f.k = "table" /\ ~f.call /\ f.name \in scope.columns
            \/ f.op = "using" /\ f.using \in scope.columns
            \/ f.op = "natural" /\ Active(LocalScope(p, level))

StarExposes(p, scope, q) ==
    \E i \in ToSet(q.items) :
        \/ i.k = "star" /\ Active(LocalScope(p, q.from))
        \/ i.k = "qstar" /\ ~QualifiedStarIsSafe(scope, i.q)

SelectObjections(p, s) ==
    LET scope == StatementScope(p, s)
    IN  When(\E q \in Selects(s) : q.into, "WRITE_OPERATION")
        \cup When(/\ p.rules # {}
                  /\ \E q \in Selects(s) :
                         \/ StarExposes(p, scope, q)
                         \/ \E level \in Levels(q) : JoinExposes(p, scope, level), "PII_COLUMN")

\* f(t.*) hands over a whole row; count(*) reads no column.
ArgsExpose(scope, args) ==
    /\ Active(scope)
    /\ \E a \in ToSet(args) : a.k = "qstar" /\ ~QualifiedStarIsSafe(scope, a.q)

\* A protected column, or a relation used as a value: a whole row.
PiiExpr(scope, e) ==
    /\ Active(scope)
    /\ e.k = "col"
    /\ ~(e.q # None /\ PrefixIsSafe(scope, e.q))
    /\ e.c \in scope.columns \cup scope.handles

ExprObjections(p, s) ==
    LET scope == StatementScope(p, s)
    IN  When(\/ \E e \in JudgedExprs(p, s) : PiiExpr(scope, e)
             \/ \E e \in Calls(s) : ArgsExpose(scope, e.args), "PII_COLUMN")
        \cup When(\E e \in Calls(s) : IsDenied(p, e.f), "DENIED_FUNCTION")

\* A bug: a function is judged in expressions only.
FactorObjections_CallsInFrom(p, s) ==
    LET scope == StatementScope(p, s)
    IN  When(\/ /\ p.rules # {}
                /\ \E f \in AllFactors(s) : f.k = "table" /\ RelationName(f) \in Sampling[p.engine]
             \/ \E f \in SourceCalls(s) : ArgsExpose(scope, f.args), "PII_COLUMN")

FactorObjections(p, s) ==
    LET scope == StatementScope(p, s)
    IN  When(\/ /\ p.rules # {}
                /\ \E f \in AllFactors(s) : f.k = "table" /\ RelationName(f) \in Sampling[p.engine]
             \/ \E f \in SourceCalls(s) : ArgsExpose(scope, f.args), "PII_COLUMN")
        \cup When(\E f \in SourceCalls(s) : IsDenied(p, f.name), "DENIED_FUNCTION")

\* In which the walk stops at the first; all that it may stop at.
WalkObjections(p, s) ==
    StatementObjections(s) \cup QueryObjections(p, s) \cup SelectObjections(p, s)
    \cup ExprObjections(p, s) \cup FactorObjections(p, s)

(***************************************************************************)
(* classify: the stages in order, each with the refusals it may give        *)
(***************************************************************************)

\* An executable comment or hint, found in the text under one of the two
\* readings of backslashes it is scanned with.
Readings == {"escapes", "plain"}

ExecutableComment(s) == s.opener \cap Readings # {}

Stages(p, s) ==
    LET scope == StatementScope(p, s)
    IN  << When(p.engine = "sqlite" /\ s.kind = "pragma", "WRITE_OPERATION"),
           When(p.engine = "mysql" /\ ExecutableComment(s), "EXECUTABLE_COMMENT"),
           When(s.parse # "ok" \/ s.count = 0, "PARSE_FAILED"),
           When(s.count > 1, "MULTI_STATEMENT"),
           When(scope.renames \/ scope.unresolved, "PII_COLUMN"),
           When(WildcardConflict(p, s) \/ OrderingConflict(p, s), "PII_COLUMN"),
           WalkObjections(p, s) >>

\* The verdict: the reasons it may name, and the promise to net B: the result
\* columns mode = "mask" let through.
Validate(p, s) ==
    LET why == Caught(s.parse = "panic", FirstRefusal(Stages(p, s)))
    IN  [why     |-> why,
         exempt  |-> IF why = {} THEN Maskable(p, s) ELSE {},
         isQuery |-> why = {} /\ s.kind = "query"]

Allowed(p, s) == Validate(p, s).why = {}

(***************************************************************************)
(* Net B. An origin is [k |-> "table", t, c], or [k |-> "expression"] or      *)
(* [k |-> "unknown"]                                                          *)
(***************************************************************************)
Refused(reason) == [why |-> {reason}, mask |-> {}]

\* Columns are taken in order; the first that cannot go out decides. A promise
\* that was not kept is looked at last.
NetB(p, n, exempt, hit(_), unknown(_)) ==
    LET sanctioned(i) == p.mode = "mask" /\ i \in exempt
        bad  == {i \in 1..n : unknown(i) \/ (hit(i) /\ ~sanctioned(i))}
        mask == {i \in 1..n : hit(i) /\ sanctioned(i)}
        first == CHOOSE i \in bad : \A j \in bad : i <= j
    IN  IF p.rules = {} THEN [why |-> {}, mask |-> {}]
        ELSE IF bad # {}
             THEN Refused(IF unknown(first) THEN "PII_UNPROVABLE" ELSE "PII_COLUMN")
        ELSE IF ~(exempt \subseteq mask) THEN Refused("PII_UNPROVABLE")
        ELSE [why |-> {}, mask |-> mask]

JudgeOrigins(p, labels, origins, exempt) ==
    NetB(p, Len(labels), exempt,
         LAMBDA i : /\ i \in DOMAIN origins /\ origins[i].k = "table"
                    /\ <<origins[i].t, origins[i].c>> \in p.rules,
         LAMBDA i : i \notin DOMAIN origins \/ origins[i].k = "unknown")

\* ClickHouse reports no origins: the labels are all there is.
JudgeResultNames(p, labels, exempt) ==
    NetB(p, Len(labels), exempt,
         LAMBDA i : \E r \in p.rules : r[2] = labels[i],
         LAMBDA i : FALSE)

=============================================================================
