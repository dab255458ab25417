------------------------------ MODULE Verdicts ------------------------------
(***************************************************************************)
(* One exchange between an agent and nyet's policy: a connection with its     *)
(* rules, a statement in its language, the verdict of layer 1 before          *)
(* anything is sent, what the server makes of an accepted statement, and the   *)
(* judgement of the reply before it is shown. The rules are in SqlRules,       *)
(* MongoRules and RedisRules; what the servers do is in SqlMeaning,            *)
(* MongoMeaning and here (Redis).                                              *)
(***************************************************************************)
EXTENDS SqlMeaning, MongoMeaning, RedisRules

CONSTANTS
    SqlPolicies,    \* connections of SQL engines: engine, mode, rules, allow, deny
    Statements,     \* SQL statements
    MongoPolicies,  \* MongoDB connections: mode, rules
    MongoCalls,
    RedisPolicies,  \* Redis connections: allow, deny
    RedisLines,
    Served,         \* Redis: command name -> its flags on the server
    RowLimit,       \* rows a connection hands out
    Matching        \* how many documents or items a server may have for a read

\* What the parser hands over of a SQL statement: one query or two, the clauses
\* of a select in a select only, calls whose arguments are names and values, joins
\* that join to something, a parenthesised join of plain sources, and an inner
\* statement where it is an EXPLAIN.
Given(args) ==
    \A a \in ToSet(args) :
        \/ a.k \in {"star", "qstar"}
        \/ a.k = "arg" /\ (a.e.k \in {"col", "ordinal"} \/ (a.e.k = "call" /\ a.e.args = << >>))

Written(e) == e.k \in {"col", "sub", "ordinal"} \/ (e.k = "call" /\ Given(e.args))

ListOf(s) == s \in Seq(ToSet(s))

Level(level) ==
    /\ ListOf(level)
    /\ level # << >> => level[1].op \notin {"using", "natural", "array"}
    /\ \A f \in ToSet(level) : Given(f.args) /\ \A e \in f.on : Written(e)

Query(q) ==
    /\ q.body \in {"select", "table", "write"}
    /\ q.body # "select" => ~q.into /\ q.items = << >> /\ q.from = << >>
    /\ ListOf(q.items) /\ \A i \in ToSet(q.items) : i.k \in {"star", "qstar"} \/ (i.k = "item" /\ Written(i.e))
    /\ \A e \in q.where \cup ToSet(q.group) \cup ToSet(q.order) : Written(e)
    /\ Level(q.from)
    /\ \A f \in ToSet(q.from) :
           \/ f.k \in {"table", "function", "derived"}
           \/ f.k = "nested" /\ Level(f.inner) /\ \A g \in ToSet(f.inner) : g.k \in {"table", "function", "derived"}

ParsedSql(s) ==
    /\ \E n \in 1 .. 2 : DOMAIN s.queries = 1 .. n
    /\ ListOf(s.queries) /\ \A q \in ToSet(s.queries) : Query(q)
    /\ s.kind # "explain" => s.inner \in Reads
    /\ s.opener \subseteq Readings

\* What is written of a MongoDB call: values stand under what was opened before
\* them, those of an array without a key; the second argument under "second" and
\* the document of .sort() under "sort".
WrittenCall(c) ==
    /\ c.tree \in Seq([up : Nat, key : Seq(STRING), kind : STRING, text : Seq(STRING)])
    /\ c.chain \in Seq([name : STRING, arg : STRING, n : Int])
    /\ c.key \in Seq(STRING)
    /\ \A n \in DOMAIN c.tree :
           LET u == c.tree[n].up
           IN  /\ u < n
               /\ u # 0 => /\ c.tree[u].kind \in {"doc", "array"}
                           /\ c.tree[u].kind = "array" => c.tree[n].key = << >>
               /\ u = 0 => \/ c.tree[n].key = <<"first">>
                           \/ c.tree[n].key = <<"second">> /\ c.args > 1
                           \/ c.tree[n].key = <<"sort">> /\ c.chain # << >>

ASSUME SqlAssumption ==
    /\ SqlPolicies \subseteq [engine : SqlEngines, mode : {"deny", "mask"},
                              rules : SUBSET (STRING \X STRING), allow : SUBSET STRING, deny : SUBSET STRING]
    /\ \A s \in Statements : ParsedSql(s)
    /\ \A t \in DOMAIN Tables : ListOf(Tables[t])
    /\ \A v \in DOMAIN Views : ListOf(Views[v])

ASSUME MongoAssumption ==
    /\ MongoPolicies \subseteq [engine : {"mongodb"}, mode : {"deny", "mask"}, rules : SUBSET (STRING \X STRING)]
    /\ \A c \in MongoCalls : c.args \in Nat /\ WrittenCall(c)

\* A container of commands is not a command that reads (CONTAINERS).
ASSUME RedisAssumption ==
    /\ RedisPolicies \subseteq [engine : {"redis"}, allow : SUBSET Seq(STRING), deny : SUBSET Seq(STRING)]
    /\ \A l \in RedisLines : l.words \in Seq(STRING)
    /\ DOMAIN Served \subseteq Seq(STRING)
    /\ \A name \in DOMAIN Served :
           Len(name) > 1 /\ <<name[1]>> \in DOMAIN Served => "readonly" \notin Served[<<name[1]>>]

ASSUME ReplyAssumption == RowLimit \in Nat /\ Matching \subseteq Nat

VARIABLES
    policy,     \* the connection asked about
    ask,        \* the statement, once there is one
    verdict,    \* layer 1's answer
    reply       \* the result, and what is judged of it before it is shown

vars == <<policy, ask, verdict, reply>>

Nothing == [none |-> TRUE]

Init ==
    /\ policy \in SqlPolicies \cup MongoPolicies \cup RedisPolicies
    /\ ask = Nothing
    /\ verdict = Nothing
    /\ reply = Nothing

\* Layer 1 let the statement through: it is sent.
Sent == verdict # Nothing /\ verdict.why = {}

(***************************************************************************)
(* SQL                                                                      *)
(***************************************************************************)
IsSql == policy.engine \in SqlEngines

AskSql ==
    /\ IsSql /\ ask = Nothing
    /\ ask' \in Statements
    /\ UNCHANGED <<policy, verdict, reply>>

JudgeSql ==
    /\ IsSql /\ ask # Nothing /\ verdict = Nothing
    /\ verdict' = Validate(policy, ask)
    /\ UNCHANGED <<policy, ask, reply>>

\* Net B looks at the origins a driver reports, where there are any.
NetOf(p, columns, exempt) ==
    LET labels == [i \in DOMAIN columns |-> columns[i].label]
    IN  IF p.engine = "clickhouse"
        THEN JudgeResultNames(p, labels, exempt)
        ELSE JudgeOrigins(p, labels, [i \in DOMAIN columns |-> columns[i].origin], exempt)

ReturnSql ==
    /\ IsSql /\ Sent /\ ask.kind = "query" /\ reply = Nothing
    /\ \E d \in Drivers :
           LET result == Result(policy, d, ask)
           IN  reply' = [driver |-> d, columns |-> result.columns, decides |-> result.decides,
                         net |-> NetOf(policy, result.columns, verdict.exempt)]
    /\ UNCHANGED <<policy, ask, verdict>>

(***************************************************************************)
(* MongoDB                                                                  *)
(***************************************************************************)
IsMongo == policy.engine = "mongodb"

AskMongo ==
    /\ IsMongo /\ ask = Nothing
    /\ ask' \in MongoCalls
    /\ UNCHANGED <<policy, verdict, reply>>

JudgeMongo ==
    /\ IsMongo /\ ask # Nothing /\ verdict = Nothing
    /\ verdict' = Check(policy, ask)
    /\ UNCHANGED <<policy, ask, reply>>

\* One more row than may be shown tells whether there are more.
Fetched == RowLimit + 1

\* What is left of n once every bound is applied.
Within1(n, bounds) == CHOOSE m \in {n} \cup bounds : \A k \in {n} \cup bounds : m <= k

\* `matching` documents match the call; the server may cut its batch short,
\* leaving the cursor open.
ReturnMongo ==
    /\ IsMongo /\ Sent /\ reply = Nothing
    /\ \E matching \in Matching :
           LET result == CallResult(ask)
               due    == Within1(Answering(ask, matching), Bounds(ask, <<Fetched>>))
           IN  \E sent \in {n \in {due - 1, due} : n >= 0} :
                   LET read == ReadReply(ask, sent, sent < due)
                   IN  reply' = [values |-> result.d, decides |-> result.decides, matching |-> matching,
                                 shown |-> Within1(read.rows, {RowLimit}),
                                 truncated |-> read.truncated \/ read.rows > RowLimit,
                                 net |-> ScanReply(policy, ask, {v.path : v \in result.d})]
    /\ UNCHANGED <<policy, ask, verdict>>

(***************************************************************************)
(* Redis                                                                    *)
(***************************************************************************)
IsRedis == policy.engine = "redis"

AskRedis ==
    /\ IsRedis /\ ask = Nothing
    /\ ask' \in RedisLines
    /\ UNCHANGED <<policy, verdict, reply>>

JudgeRedis ==
    /\ IsRedis /\ ask # Nothing /\ verdict = Nothing
    /\ verdict' = CheckLine(policy, ask)
    /\ UNCHANGED <<policy, ask, reply>>

\* What the server knows of a name, and what it runs for a line: it tells
\* subcommands by its own containers.
InfoOf(name) ==
    IF name \in DOMAIN Served THEN [error |-> None, known |-> TRUE, flags |-> Served[name]]
    ELSE Unknown

Runs(words) ==
    LET sub == SubSeq(words, 1, 2)
    IN  IF Len(words) > 1 /\ sub \in DOMAIN Served THEN sub ELSE <<words[1]>>

ReturnRedis ==
    /\ IsRedis /\ Sent /\ reply = Nothing
    /\ \E error \in {None, "noperm", "lost"}, n \in Matching, k \in {"map", "list", "value"} :
           LET info  == [InfoOf(Lookup(ask.words)) EXCEPT !.error = error]
               why   == Classify(policy, ask, info)
               table == Shape([k |-> k, n |-> n], Fetched)
           IN  reply' = [why |-> why, ran |-> IF why = {} THEN Runs(ask.words) ELSE << >>,
                         columns |-> table.columns, matching |-> IF k = "value" THEN 1 ELSE n,
                         shown |-> Within1(table.rows, {RowLimit}),
                         truncated |-> table.rows > RowLimit]
    /\ UNCHANGED <<policy, ask, verdict>>

Next ==
    \/ AskSql \/ JudgeSql \/ ReturnSql
    \/ AskMongo \/ JudgeMongo \/ ReturnMongo
    \/ AskRedis \/ JudgeRedis \/ ReturnRedis

Spec == Init /\ [][Next]_vars

(***************************************************************************)
(* Properties                                                               *)
(***************************************************************************)

\* An accepted statement makes the server do nothing but read: no write, no
\* lock, no change of settings, no second statement, no execution under
\* EXPLAIN, and no function call its connection denies, wherever in the
\* statement it stands (validator::validate).
SqlOnlyReads ==
    IsSql /\ Sent =>
        \A r \in ServerRuns(policy, ask) : r[1] = "call" /\ ~IsDenied(policy, r[2])

\* The connection protects each column under every name it has: a view over a
\* protected column is protected itself.
ViewsListed(p) ==
    \A v \in DOMAIN Views : \A i \in DOMAIN Views[v] :
        <<Views[v][i].t, Views[v][i].c>> \in p.rules => <<v, Views[v][i].label>> \in p.rules

\* The driver saw through what is not listed.
Seen(p, d, column) == ViewsListed(p) \/ (p.engine # "clickhouse" /\ d = "resolves"
                                         /\ column.origin # Expression)

\* A parenthesised join with a name of its own, under which its columns are known.
AliasedJoin(s) == \E f \in AllFactors(s) : f.k = "nested" /\ f.alias # None

\* Wherever a protected column is mentioned, it is refused: none decides which
\* rows come back or in which order - it would show through the shape of the
\* result (src/validator.rs:2168-2169: "A protected column is refused wherever it
\* is mentioned, not only where it is returned").
MentionIsRefused ==
    IsSql /\ reply # Nothing /\ ViewsListed(policy) => reply.decides \cap policy.rules = {}

\* Net A and net B together: a column of the result that is computed from a
\* protected one is masked or the result is refused, and no protected column
\* decides which rows come back or in which order. Where a view is not listed,
\* only a driver that resolves it can tell, and the alias of a parenthesised join
\* hides what it is over (validator::validate, check_origins,
\* check_result_names).
SqlProtectedStaysInside ==
    IsSql /\ reply # Nothing /\ ~AliasedJoin(ask) =>
        /\ MentionIsRefused
        /\ reply.net.why = {} =>
               \A i \in DOMAIN reply.columns \ reply.net.mask :
                   LET column == reply.columns[i]
                   IN  Seen(policy, reply.driver, column) => column.from \cap policy.rules = {}

\* Fewer rules never refuse more, and mode "mask" never refuses what "deny"
\* accepts, nor asks for a mask there: a policy is as strict as its rules.
SqlStricterIsNarrower ==
    IsSql /\ Sent /\ policy.mode = "deny" =>
        /\ \A fewer \in SUBSET policy.rules : Allowed([policy EXCEPT !.rules = fewer], ask)
        /\ Validate([policy EXCEPT !.mode = "mask"], ask) = verdict

\* An accepted call makes the server do nothing but read collections of its own
\* database that are not catalogs: no write and no JavaScript, at whatever depth
\* of a pipeline or filter, and no option of nyet's set by the agent
\* (mongo::check_with_pii).
MongoOnlyReads == IsMongo /\ Sent => CallRuns(ask) = {}

\* A stored field the connection protects, in a document of its collection, by
\* any segment of its path.
Protects(p, field) == \E r \in p.rules : r[1] = field[1] /\ PathHit({r[2]}, field[2])

\* A value of the reply that comes from a protected field is masked, or the
\* reply withheld, whatever stages it went through and whatever name it has;
\* and no protected field decides which documents come back
\* (mongo::check_with_pii, scan_reply).
MongoProtectedStaysInside ==
    IsMongo /\ reply # Nothing =>
        /\ \A field \in reply.decides : ~Protects(policy, field)
        /\ reply.net.why = {} =>
               \A v \in {x \in reply.values : x.path \notin reply.net.mask} :
                   \A field \in v.from : ~Protects(policy, field)

\* An answer that is not marked as cut is all the agent asked for, and none is
\* longer than the connection allows: a limit of the agent's is not a cut, an
\* open cursor is (Request::command, read_reply; shape).
CutIsFlagged ==
    (IsMongo \/ IsRedis) /\ reply # Nothing =>
        /\ reply.shown <= RowLimit
        /\ ~reply.truncated =>
               reply.shown = IF IsMongo /\ ask.method = "countDocuments" THEN 1
                             ELSE IF IsMongo THEN Within1(reply.matching, Bounds(ask, << >>))
                             ELSE reply.matching

\* A command runs only if the server itself says that it reads and does not
\* write, or the connection's owner vouches for it by name; and never one the
\* server calls a write or one denied - also where the server groups commands
\* under a name nyet does not know for a container, unless the owner vouched
\* for that very name (redis::check, Redis::classified).
RedisOnlyReads ==
    IsRedis /\ reply # Nothing /\ reply.ran # << >> /\
    (reply.ran = Lookup(ask.words) \/ <<ask.words[1]>> \notin policy.allow) =>
        /\ "write" \notin Served[reply.ran]
        /\ ~NamedIn(Denylist(policy), reply.ran)
        /\ \/ "readonly" \in Served[reply.ran] /\ Served[reply.ran] \cap {"admin", "blocking", "dangerous"} = {}
           \/ NamedIn(policy.allow, reply.ran)

=============================================================================
