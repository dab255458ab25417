---------------------------- MODULE VerdictProofs ----------------------------
(***************************************************************************)
(* Theorems about Verdicts for every policy, statement, call and line that     *)
(* satisfies its assumptions, and for every limit.                             *)
(***************************************************************************)
EXTENDS Verdicts, FiniteSetTheorems, SequenceTheorems, WellFoundedInduction, TLAPS

-----------------------------------------------------------------------------
(* The rules of every language.                                                *)

\* A set of natural numbers has a least one: what an induction starts from.
LEMMA LeastNatural ==
    ASSUME NEW T \in SUBSET Nat, T # {}
    PROVE  \E m \in T : \A k \in T : m <= k
<1> DEFINE Less == {pair \in Nat \X Nat : pair[1] < pair[2]}
<1>1. IsWellFoundedOn(Less, Nat)
    BY NatLessThanWellFounded DEF OpToRel
<1>2. \E m \in T : \A k \in T : <<k, m>> \notin Less
  <2> HIDE DEF Less
  <2> QED
    BY <1>1, WFMin
<1>3. PICK m \in T : \A k \in T : <<k, m>> \notin Less
    BY <1>2
<1>4. \A k \in T : ~(k < m)
    BY <1>3
<1> QED
    BY <1>4

\* A list of checks that refuses nothing has none that would.
LEMMA NoneRefuses ==
    ASSUME NEW checks, DOMAIN checks \subseteq Nat, FirstRefusal(checks) = {}
    PROVE  \A i \in DOMAIN checks : checks[i] = {}
<1> DEFINE raised == {i \in DOMAIN checks : checks[i] # {}}
<1> SUFFICES ASSUME raised # {} PROVE FALSE
    OBVIOUS
<1>1. \E i \in raised : \A j \in raised : i <= j
    BY LeastNatural
<1>2. (CHOOSE i \in raised : \A j \in raised : i <= j) \in raised
    BY <1>1
<1> QED
    BY <1>2 DEF FirstRefusal

\* And the other way round.
LEMMA NothingToRefuse ==
    ASSUME NEW checks, \A i \in DOMAIN checks : checks[i] = {}
    PROVE  FirstRefusal(checks) = {}
BY DEF FirstRefusal

LEMMA UnlessRefused ==
    ASSUME NEW condition, NEW reason, When(condition, reason) = {}
    PROVE  ~condition
BY DEF When

LEMMA NothingRaised ==
    ASSUME NEW condition, NEW reason, ~condition
    PROVE  When(condition, reason) = {}
BY DEF When

-----------------------------------------------------------------------------
(* What an exchange is at every moment.                                        *)

\* The reply follows from the statement that was let through.
SqlReply ==
    \E d \in Drivers :
        reply = [driver |-> d, columns |-> Result(policy, d, ask).columns,
                 decides |-> Result(policy, d, ask).decides,
                 net |-> NetOf(policy, Result(policy, d, ask).columns, verdict.exempt)]

MongoReply ==
    \E matching \in Matching :
        LET result == CallResult(ask)
            due    == Within1(Answering(ask, matching), Bounds(ask, <<Fetched>>))
        IN  \E sent \in {n \in {due - 1, due} : n >= 0} :
                LET read == ReadReply(ask, sent, sent < due)
                IN  reply = [values |-> result.d, decides |-> result.decides, matching |-> matching,
                             shown |-> Within1(read.rows, {RowLimit}),
                             truncated |-> read.truncated \/ read.rows > RowLimit,
                             net |-> ScanReply(policy, ask, {v.path : v \in result.d})]

Told(l, error) == [InfoOf(Lookup(l.words)) EXCEPT !.error = error]

RedisAnswer(p, l, error, n, k) ==
    LET why   == Classify(p, l, Told(l, error))
        table == Shape([k |-> k, n |-> n], Fetched)
    IN  [why |-> why, ran |-> IF why = {} THEN Runs(l.words) ELSE << >>,
         columns |-> table.columns, matching |-> IF k = "value" THEN 1 ELSE n,
         shown |-> Within1(table.rows, {RowLimit}),
         truncated |-> table.rows > RowLimit]

RedisReply ==
    \E error \in {None, "noperm", "lost"}, n \in Matching, k \in {"map", "list", "value"} :
        reply = RedisAnswer(policy, ask, error, n, k)

\* One language throughout; a verdict is the rules' own, and only what it lets
\* through is answered.
Exchange ==
    /\ policy \in SqlPolicies \cup MongoPolicies \cup RedisPolicies
    /\ ask # Nothing => /\ IsSql => ask \in Statements
                        /\ IsMongo => ask \in MongoCalls
                        /\ IsRedis => ask \in RedisLines
    /\ verdict # Nothing => /\ ask # Nothing
                            /\ IsSql => verdict = Validate(policy, ask)
                            /\ IsMongo => verdict = Check(policy, ask)
                            /\ IsRedis => verdict = CheckLine(policy, ask)
    /\ reply # Nothing => /\ Sent
                          /\ IsSql => SqlReply
                          /\ IsMongo => MongoReply
                          /\ IsRedis => RedisReply

LEMMA InitExchange == Init => Exchange
    BY DEF Init, Exchange

LEMMA NextExchange == Exchange /\ [Next]_vars => Exchange'
<1> SUFFICES ASSUME Exchange, [Next]_vars PROVE Exchange'
    OBVIOUS
<1> USE DEF IsSql, IsMongo, IsRedis, SqlEngines
<1>1. ASSUME AskSql \/ AskMongo \/ AskRedis PROVE Exchange'
    BY <1>1 DEF Exchange, AskSql, AskMongo, AskRedis, Sent
<1>2. ASSUME JudgeSql \/ JudgeMongo \/ JudgeRedis PROVE Exchange'
    BY <1>2 DEF Exchange, JudgeSql, JudgeMongo, JudgeRedis, Sent
<1>3. ASSUME ReturnSql PROVE Exchange'
  <2>1. SqlReply'
    BY <1>3 DEF ReturnSql, SqlReply
  <2> QED
    BY <1>3, <2>1 DEF Exchange, ReturnSql, Sent
<1>4. ASSUME ReturnMongo PROVE Exchange'
  <2>1. MongoReply'
    BY <1>4 DEF ReturnMongo, MongoReply
  <2> QED
    BY <1>4, <2>1 DEF Exchange, ReturnMongo, Sent
<1>5. ASSUME ReturnRedis PROVE Exchange'
  <2>1. PICK error \in {None, "noperm", "lost"}, n \in Matching, k \in {"map", "list", "value"} :
            reply' = RedisAnswer(policy, ask, error, n, k)
    BY <1>5 DEF ReturnRedis, RedisAnswer, Told
  <2>2. policy' = policy /\ ask' = ask
    BY <1>5 DEF ReturnRedis
  <2>3. RedisReply'
    BY <2>1, <2>2 DEF RedisReply
  <2> QED
    BY <1>5, <2>3 DEF Exchange, ReturnRedis, Sent
<1>6. ASSUME UNCHANGED vars PROVE Exchange'
  <2>1. policy' = policy /\ ask' = ask /\ verdict' = verdict /\ reply' = reply
    BY <1>6 DEF vars
  <2>2. (SqlReply => SqlReply') /\ (MongoReply => MongoReply')
    BY <2>1 DEF SqlReply, MongoReply
  <2>3. RedisReply => RedisReply'
    BY <2>1 DEF RedisReply
  <2> QED
    BY <2>1, <2>2, <2>3 DEF Exchange, Sent
<1> QED
    BY <1>1, <1>2, <1>3, <1>4, <1>5, <1>6 DEF Next

LEMMA ExchangeAlways == Spec => []Exchange
    BY InitExchange, NextExchange, PTL DEF Spec

-----------------------------------------------------------------------------
(* Redis.                                                                      *)

LEMMA NoneOfFour ==
    ASSUME NEW a, NEW b, NEW c, NEW d, FirstRefusal(<<a, b, c, d>>) = {}
    PROVE  a = {} /\ b = {} /\ c = {} /\ d = {}
<1> DEFINE checks == <<a, b, c, d>>
<1>1. DOMAIN checks = 1 .. 4 /\ checks[1] = a /\ checks[2] = b /\ checks[3] = c /\ checks[4] = d
    OBVIOUS
<1>2. \A i \in DOMAIN checks : checks[i] = {}
    BY <1>1, NoneRefuses
<1> QED
    BY <1>1, <1>2

LEMMA NoneOfThree ==
    ASSUME NEW a, NEW b, NEW c, FirstRefusal(<<a, b, c>>) = {}
    PROVE  a = {} /\ b = {} /\ c = {}
<1> DEFINE checks == <<a, b, c>>
<1>1. DOMAIN checks = 1 .. 3 /\ checks[1] = a /\ checks[2] = b /\ checks[3] = c
    OBVIOUS
<1>2. \A i \in DOMAIN checks : checks[i] = {}
    BY <1>1, NoneRefuses
<1> QED
    BY <1>1, <1>2

\* What an unrefused line was found to be.
LEMMA Classified ==
    ASSUME NEW p, NEW l, NEW error, Classify(p, l, Told(l, error)) = {}
    PROVE  LET name == Lookup(l.words)
           IN  /\ l.words # << >> /\ name \in DOMAIN Served
               /\ "write" \notin Served[name] /\ ~NamedIn(Denylist(p), name)
               /\ \/ NamedIn(p.allow, name)
                  \/ "readonly" \in Served[name] /\ Served[name] \cap {"admin", "blocking", "dangerous"} = {}
<1> DEFINE name == Lookup(l.words)
           info == Told(l, error)
<1>1. /\ name \in DOMAIN Served => info.known /\ info.flags = Served[name]
      /\ name \notin DOMAIN Served => ~info.known
    BY DEF Told, InfoOf, Unknown
<1>2. l.words # << >> /\ FirstRefusal(CommandObjections(p, name, info)) = {}
    BY DEF Classify, LineObjections, When
<1> HIDE DEF info, name
<1> DEFINE kinds  == When(info.flags \cap {"admin", "blocking"} # {}, "DENIED_COMMAND")
           reads  == When("readonly" \notin info.flags, "WRITE_OPERATION")
           danger == When("dangerous" \in info.flags, "DENIED_COMMAND")
           last   == IF NamedIn(p.allow, name) THEN {} ELSE FirstRefusal(<<kinds, reads, danger>>)
           denied == When(NamedIn(Denylist(p), name), "DENIED_COMMAND")
           writes == When("write" \in info.flags, "WRITE_OPERATION")
           absent == When(~info.known, "WRITE_OPERATION")
<1>3. denied = {} /\ writes = {} /\ absent = {} /\ last = {}
  <2>1. FirstRefusal(<<denied, writes, absent, last>>) = {}
    BY <1>2 DEF CommandObjections
  <2> HIDE DEF denied, writes, absent, last
  <2> QED
    BY <2>1, NoneOfFour
<1>4. ~NamedIn(Denylist(p), name) /\ "write" \notin info.flags /\ info.known
  <2> HIDE DEF last
  <2> QED
    BY <1>3, UnlessRefused
<1>5. info.flags = Served[name] /\ name \in DOMAIN Served
    BY <1>1, <1>4
<1>6. ASSUME ~NamedIn(p.allow, name)
      PROVE  "readonly" \in info.flags /\ info.flags \cap {"admin", "blocking", "dangerous"} = {}
  <2>1. FirstRefusal(<<kinds, reads, danger>>) = {}
    BY <1>3, <1>6
  <2>2. kinds = {} /\ reads = {} /\ danger = {}
    <3> HIDE DEF kinds, reads, danger
    <3> QED
        BY <2>1, NoneOfThree
  <2>3. info.flags \cap {"admin", "blocking"} = {} /\ "readonly" \in info.flags /\ "dangerous" \notin info.flags
    BY <2>2, UnlessRefused
  <2> QED
    BY <2>3
<1>7. l.words # << >> /\ name \in DOMAIN Served
    BY <1>2, <1>5
<1>8. "write" \notin Served[name] /\ ~NamedIn(Denylist(p), name)
    BY <1>4, <1>5
<1> HIDE DEF kinds, reads, danger, last, denied, writes, absent
<1>9. ASSUME ~NamedIn(p.allow, name)
      PROVE  "readonly" \in Served[name] /\ Served[name] \cap {"admin", "blocking", "dangerous"} = {}
    BY <1>5, <1>6, <1>9
<1> QED
    BY <1>7, <1>8, <1>9 DEF name

\* The server runs what was classified, or a container's subcommand under a
\* name that was vouched for.
LEMMA RunsWhatWasAsked ==
    ASSUME NEW p, NEW words \in Seq(STRING), words # << >>, Lookup(words) \in DOMAIN Served,
           \/ NamedIn(p.allow, Lookup(words))
           \/ "readonly" \in Served[Lookup(words)],
           <<words[1]>> \notin p.allow
    PROVE  Runs(words) = Lookup(words)
<1>1. Len(words) \in Nat \ {0} /\ words[1] \in STRING
    OBVIOUS
<1>2. CASE Len(words) = 1
    BY <1>2 DEF Runs, Lookup
<1>3. CASE Len(words) > 1
  <2>1. SubSeq(words, 1, 2) = <<words[1], words[2]>>
    <3>1. \A i \in 1 .. 2 : words[i] \in STRING
        BY <1>3
    <3>2. /\ SubSeq(words, 1, 2) \in Seq(STRING) /\ Len(SubSeq(words, 1, 2)) = 2
          /\ SubSeq(words, 1, 2)[1] = words[1] /\ SubSeq(words, 1, 2)[2] = words[2]
        BY <3>1, SubSeqProperties
    <3> DEFINE pair == <<words[1], words[2]>>
    <3>3. pair \in Seq(STRING) /\ Len(pair) = 2 /\ pair[1] = words[1] /\ pair[2] = words[2]
        BY <3>1
    <3>4. SubSeq(words, 1, 2) = pair
      <4> HIDE DEF pair
      <4>1. \A i \in 1 .. Len(SubSeq(words, 1, 2)) : SubSeq(words, 1, 2)[i] = pair[i]
        BY <3>2, <3>3
      <4> QED
        BY <3>2, <3>3, <4>1, SeqEqual
    <3> QED
        BY <3>4
  <2>2. CASE words[1] \in Containers
    BY <1>3, <2>1, <2>2 DEF Runs, Lookup
  <2>3. CASE words[1] \notin Containers
    <3>1. Lookup(words) = <<words[1]>>
        BY <2>3 DEF Lookup
    <3>2. ~NamedIn(p.allow, Lookup(words))
        BY <3>1 DEF NamedIn
    <3>3. "readonly" \in Served[<<words[1]>>]
        BY <3>1, <3>2
    <3>4. <<words[1], words[2]>> \notin DOMAIN Served
      <4> DEFINE sub == <<words[1], words[2]>>
      <4>1. Len(sub) = 2 /\ sub[1] = words[1]
        OBVIOUS
      <4> HIDE DEF sub
      <4>2. sub \notin DOMAIN Served
        BY <3>1, <3>3, <4>1, RedisAssumption
      <4> QED
        BY <4>2 DEF sub
    <3> QED
        BY <2>1, <3>1, <3>4 DEF Runs
  <2> QED
    BY <2>2, <2>3
<1> QED
    BY <1>1, <1>2, <1>3

\* Nothing runs but what the server says is a read or the owner vouches for, on
\* any server, under any lists and for any line (redis::check,
\* Redis::classified).
THEOREM RedisRunsReads == Spec => []RedisOnlyReads
<1>1. Exchange => RedisOnlyReads
  <2> SUFFICES ASSUME Exchange, IsRedis, reply # Nothing, reply.ran # << >>,
                      reply.ran = Lookup(ask.words) \/ <<ask.words[1]>> \notin policy.allow
               PROVE  /\ "write" \notin Served[reply.ran]
                      /\ ~NamedIn(Denylist(policy), reply.ran)
                      /\ \/ /\ "readonly" \in Served[reply.ran]
                            /\ Served[reply.ran] \cap {"admin", "blocking", "dangerous"} = {}
                         \/ NamedIn(policy.allow, reply.ran)
    BY DEF RedisOnlyReads
  <2>1. ask \in RedisLines
    BY DEF Exchange, Sent
  <2>2. PICK error \in {None, "noperm", "lost"}, n \in Matching, k \in {"map", "list", "value"} :
            reply = RedisAnswer(policy, ask, error, n, k)
    BY DEF Exchange, RedisReply
  <2>3. /\ Classify(policy, ask, Told(ask, error)) = {}
        /\ reply.ran = Runs(ask.words)
    BY <2>2 DEF RedisAnswer
  <2> DEFINE name == Lookup(ask.words)
  <2>4. /\ ask.words # << >> /\ name \in DOMAIN Served
        /\ "write" \notin Served[name] /\ ~NamedIn(Denylist(policy), name)
        /\ \/ NamedIn(policy.allow, name)
           \/ "readonly" \in Served[name] /\ Served[name] \cap {"admin", "blocking", "dangerous"} = {}
    BY <2>3, Classified
  <2> HIDE DEF name
  <2>5. reply.ran = name
    BY <2>1, <2>3, <2>4, RunsWhatWasAsked, RedisAssumption DEF name
  <2> QED
    BY <2>4, <2>5
<1> QED
    BY <1>1, ExchangeAlways, PTL

-----------------------------------------------------------------------------
(* SQL: nothing but reads.                                                     *)

LEMMA NoneOfSeven ==
    ASSUME NEW a, NEW b, NEW c, NEW d, NEW e, NEW f, NEW g,
           FirstRefusal(<<a, b, c, d, e, f, g>>) = {}
    PROVE  a = {} /\ b = {} /\ c = {} /\ d = {} /\ e = {} /\ f = {} /\ g = {}
<1> DEFINE checks == <<a, b, c, d, e, f, g>>
<1>1. /\ DOMAIN checks = 1 .. 7 /\ checks[1] = a /\ checks[2] = b /\ checks[3] = c /\ checks[4] = d
      /\ checks[5] = e /\ checks[6] = f /\ checks[7] = g
    OBVIOUS
<1>2. \A i \in DOMAIN checks : checks[i] = {}
    BY <1>1, NoneRefuses
<1> QED
    BY <1>1, <1>2

\* The stages of classify have no objection.
Passes(p, s) ==
    /\ ~(p.engine = "sqlite" /\ s.kind = "pragma")
    /\ ~(p.engine = "mysql" /\ ExecutableComment(s))
    /\ ~(s.parse # "ok" \/ s.count = 0)
    /\ ~(s.count > 1)
    /\ ~(StatementScope(p, s).renames \/ StatementScope(p, s).unresolved)
    /\ ~(WildcardConflict(p, s) \/ OrderingConflict(p, s))
    /\ WalkObjections(p, s) = {}

LEMMA AllowedPasses ==
    ASSUME NEW p, NEW s, Allowed(p, s)
    PROVE  Passes(p, s)
<1> DEFINE a == When(p.engine = "sqlite" /\ s.kind = "pragma", "WRITE_OPERATION")
           b == When(p.engine = "mysql" /\ ExecutableComment(s), "EXECUTABLE_COMMENT")
           c == When(s.parse # "ok" \/ s.count = 0, "PARSE_FAILED")
           d == When(s.count > 1, "MULTI_STATEMENT")
           e == When(StatementScope(p, s).renames \/ StatementScope(p, s).unresolved, "PII_COLUMN")
           f == When(WildcardConflict(p, s) \/ OrderingConflict(p, s), "PII_COLUMN")
           g == WalkObjections(p, s)
<1>1. FirstRefusal(<<a, b, c, d, e, f, g>>) = {}
  <2>1. FirstRefusal(Stages(p, s)) = {}
    BY DEF Allowed, Validate, Caught
  <2> QED
    BY <2>1 DEF Stages
<1>2. a = {} /\ b = {} /\ c = {} /\ d = {} /\ e = {} /\ f = {} /\ g = {}
  <2> HIDE DEF a, b, c, d, e, f, g
  <2> QED
    BY <1>1, NoneOfSeven
<1> QED
    BY <1>2, UnlessRefused DEF Passes

LEMMA PassesAllowed ==
    ASSUME NEW p, NEW s, Passes(p, s), Maskable(p, s) = {}
    PROVE  Validate(p, s) = [why |-> {}, exempt |-> {}, isQuery |-> s.kind = "query"]
<1> DEFINE checks == Stages(p, s)
<1>1. DOMAIN checks = 1 .. 7 /\ \A i \in 1 .. 7 : checks[i] = {}
    BY DEF Stages, Passes, When
<1>2. FirstRefusal(checks) = {}
  <2> HIDE DEF checks
  <2> QED
    BY <1>1, NothingToRefuse
<1>3. s.parse # "panic"
    BY DEF Passes
<1> QED
    BY <1>2, <1>3 DEF Validate, Caught

\* What the walk has looked at in a statement that it passes.
LEMMA WalkFinds ==
    ASSUME NEW p, NEW s, WalkObjections(p, s) = {}
    PROVE  /\ StatementObjections(s) = {} /\ QueryObjections(p, s) = {}
           /\ SelectObjections(p, s) = {} /\ ExprObjections(p, s) = {} /\ FactorObjections(p, s) = {}
           /\ \A e \in Calls(s) : ~IsDenied(p, e.f)
           /\ \A f \in SourceCalls(s) : ~IsDenied(p, f.name)
           /\ \A q \in ToSet(s.queries) : ~q.settings /\ ~q.locks /\ q.body # "write"
           /\ \A q \in Selects(s) : ~q.into
<1>1. /\ StatementObjections(s) = {} /\ QueryObjections(p, s) = {}
      /\ SelectObjections(p, s) = {} /\ ExprObjections(p, s) = {} /\ FactorObjections(p, s) = {}
    BY DEF WalkObjections
<1>2. \A e \in Calls(s) : ~IsDenied(p, e.f)
    BY <1>1 DEF ExprObjections, When
<1>3. \A f \in SourceCalls(s) : ~IsDenied(p, f.name)
    BY <1>1 DEF FactorObjections, When
<1>4. \A q \in ToSet(s.queries) : ~q.settings /\ ~q.locks
    BY <1>1 DEF QueryObjections, When
<1>5. \A q \in ToSet(s.queries) : q.body # "write"
    BY <1>1 DEF StatementObjections, When
<1>6. \A q \in Selects(s) : ~q.into
    BY <1>1 DEF SelectObjections, When
<1> QED
    BY <1>1, <1>2, <1>3, <1>4, <1>5, <1>6

\* The statement and what it explains are reads, and an EXPLAIN executes none.
LEMMA KindsAreReads ==
    ASSUME NEW s, ParsedSql(s), StatementObjections(s) = {}
    PROVE  /\ s.kind \in Reads /\ s.inner \in Reads
           /\ s.kind = "explain" /\ ExplainExecutes(s) => s.inner \in Metadata
BY DEF StatementObjections, When, ParsedSql, Reads, Control, Metadata

\* No accepted statement of SQL does anything but read and call what is not
\* denied, for every denylist, family of functions, policy and statement
\* (validator::validate).
THEOREM SqlRunsReads == Spec => []SqlOnlyReads
<1>1. Exchange => SqlOnlyReads
  <2> SUFFICES ASSUME Exchange, IsSql, Sent, NEW r \in ServerRuns(policy, ask)
               PROVE  r[1] = "call" /\ ~IsDenied(policy, r[2])
    BY DEF SqlOnlyReads
  <2>1. ask \in Statements /\ Allowed(policy, ask)
    BY DEF Exchange, Sent, Allowed
  <2>2. ParsedSql(ask)
    BY <2>1, SqlAssumption
  <2>3. Passes(policy, ask)
    BY <2>1, AllowedPasses
  <2>4. /\ ask.count <= 1 \/ ~(ask.count > 1)
        /\ policy.engine = "mysql" => ask.opener = {}
        /\ \A q \in ToSet(ask.queries) : ~q.settings /\ ~q.locks /\ q.body # "write" /\ ~q.into
    BY <2>2, <2>3, WalkFinds DEF Passes, ExecutableComment, ParsedSql, Query, Selects
  <2>5. /\ {ask.kind, ask.inner} \subseteq Reads
        /\ ~(ask.kind = "explain" /\ ExplainExecutes(ask) /\ ask.inner \notin Metadata)
    BY <2>2, <2>3, WalkFinds, KindsAreReads DEF Passes
  <2>6. \/ \E e \in Calls(ask) : r = <<"call", e.f>>
        \/ \E f \in SourceCalls(ask) : r = <<"call", f.name>>
    BY <2>3, <2>4, <2>5 DEF ServerRuns, Passes
  <2> QED
    BY <2>3, <2>6, WalkFinds DEF Passes
<1> QED
    BY <1>1, ExchangeAlways, PTL

-----------------------------------------------------------------------------
(* SQL: a policy is as strict as its rules.                                    *)

\* The same connection under the rules of another.
SamePolicyBut(p, fewer) ==
    /\ fewer.engine = p.engine /\ fewer.mode = p.mode /\ fewer.allow = p.allow /\ fewer.deny = p.deny
    /\ fewer.rules \subseteq p.rules

\* The same scope under fewer rules.
NarrowerScope(fewer, scope) ==
    /\ fewer.columns \subseteq scope.columns
    /\ fewer.handles \subseteq scope.handles
    /\ fewer.renames => scope.renames
    /\ fewer.unresolved => scope.unresolved
    /\ Active(fewer) => fewer.relations = scope.relations

LEMMA ScopeNarrows ==
    ASSUME NEW p, NEW p2, p2.rules \subseteq p.rules, NEW factors, NEW bodies
    PROVE  NarrowerScope(Scope(p2, factors, bodies), Scope(p, factors, bodies))
<1>1. CASE p2.rules = {}
  <2>1. Scope(p2, factors, bodies) = [columns |-> {}, handles |-> {}, relations |-> {},
                                      renames |-> FALSE, unresolved |-> FALSE]
    BY <1>1 DEF Scope
  <2> QED
    BY <2>1 DEF NarrowerScope, Active
<1>2. CASE p2.rules # {}
  <2>1. p.rules # {}
    BY <1>2
  <2>2. \A t : ProtectsTable(p2, t) => ProtectsTable(p, t)
    BY DEF ProtectsTable
  <2>3. \A t : ColumnsOf(p2, t) \subseteq ColumnsOf(p, t)
    BY DEF ColumnsOf
  <2>4. Scope(p2, factors, bodies).columns \subseteq Scope(p, factors, bodies).columns
    BY <1>2, <2>1, <2>2, <2>3 DEF Scope
  <2>5. Scope(p2, factors, bodies).handles \subseteq Scope(p, factors, bodies).handles
    BY <1>2, <2>1, <2>2 DEF Scope
  <2>6. Scope(p2, factors, bodies).renames => Scope(p, factors, bodies).renames
    BY <1>2, <2>1, <2>2 DEF Scope
  <2>7. Scope(p2, factors, bodies).unresolved = Scope(p, factors, bodies).unresolved
    BY <1>2, <2>1 DEF Scope
  <2>8. Scope(p2, factors, bodies).relations = Scope(p, factors, bodies).relations
    BY <1>2, <2>1 DEF Scope
  <2> QED
    BY <2>4, <2>5, <2>6, <2>7, <2>8 DEF NarrowerScope
<1> QED
    BY <1>1, <1>2

\* What a narrower scope keeps out, the wider one did.
LEMMA NarrowerKeepsLess ==
    ASSUME NEW fewer, NEW scope, NarrowerScope(fewer, scope)
    PROVE  /\ Active(fewer) => Active(scope)
           /\ \A q : QualifiedStarIsSafe(scope, q) => QualifiedStarIsSafe(fewer, q)
           /\ \A args : ArgsExpose(fewer, args) => ArgsExpose(scope, args)
           /\ \A e : PiiExpr(fewer, e) => PiiExpr(scope, e)
<1>1. Active(fewer) => Active(scope)
    BY DEF NarrowerScope, Active
<1>2. ASSUME NEW q, Active(fewer), PrefixIsSafe(scope, q) PROVE PrefixIsSafe(fewer, q)
    BY <1>2 DEF NarrowerScope, PrefixIsSafe
<1>3. \A q : QualifiedStarIsSafe(scope, q) => QualifiedStarIsSafe(fewer, q)
    BY <1>1, <1>2 DEF QualifiedStarIsSafe
<1>4. \A args : ArgsExpose(fewer, args) => ArgsExpose(scope, args)
    BY <1>1, <1>3 DEF ArgsExpose
<1>5. \A e : PiiExpr(fewer, e) => PiiExpr(scope, e)
    BY <1>1, <1>2 DEF PiiExpr, NarrowerScope
<1> QED
    BY <1>1, <1>3, <1>4, <1>5

\* In mode "deny" nothing is exempt.
LEMMA DenyMasksNothing ==
    ASSUME NEW p, NEW s, Candidates(p, s) = {}
    PROVE  Maskable(p, s) = {} /\ ~WildcardConflict(p, s) /\ ~OrderingConflict(p, s)
BY DEF Maskable, WildcardConflict, OrderingConflict

\* The first of one or two queries is there.
LEMMA RootThere ==
    ASSUME NEW s, ParsedSql(s)
    PROVE  /\ 1 \in DOMAIN s.queries /\ s.queries[1] \in ToSet(s.queries)
           /\ DOMAIN s.queries \subseteq {1, 2}
BY DEF ParsedSql, ToSet

\* Where nothing is exempt, every expression is judged.
LEMMA EveryExprJudged ==
    ASSUME NEW p, NEW s, ParsedSql(s), Maskable(p, s) = {}
    PROVE  JudgedExprs(p, s) = AllExprs(s)
<1>1. JudgedExprs(p, s) = Exprs(s.queries[1]) \cup UNION {Exprs(s.queries[i]) : i \in DOMAIN s.queries \ {1}}
  <2>1. DOMAIN s.queries[1].items \ Maskable(p, s) = DOMAIN s.queries[1].items
    OBVIOUS
  <2> QED
    BY <2>1 DEF JudgedExprs, Exprs
<1>2. AllExprs(s) = UNION {Exprs(s.queries[i]) : i \in DOMAIN s.queries}
    BY DEF AllExprs, ToSet
<1> QED
    BY <1>1, <1>2, RootThere

LEMMA FewerRulesPass ==
    ASSUME NEW p, NEW p2, SamePolicyBut(p, p2), p.mode = "deny", NEW s, ParsedSql(s), Passes(p, s)
    PROVE  Passes(p2, s) /\ Maskable(p2, s) = {}
<1> DEFINE wide   == StatementScope(p, s)
           narrow == StatementScope(p2, s)
<1>1. NarrowerScope(narrow, wide)
    BY ScopeNarrows DEF SamePolicyBut, StatementScope
<1>2. \A level : Active(LocalScope(p2, level)) => Active(LocalScope(p, level))
    BY ScopeNarrows, NarrowerKeepsLess DEF SamePolicyBut, LocalScope
<1>3. /\ Active(narrow) => Active(wide)
      /\ \A q : QualifiedStarIsSafe(wide, q) => QualifiedStarIsSafe(narrow, q)
      /\ \A args : ArgsExpose(narrow, args) => ArgsExpose(wide, args)
      /\ \A e : PiiExpr(narrow, e) => PiiExpr(wide, e)
      /\ narrow.columns \subseteq wide.columns
      /\ narrow.renames \/ narrow.unresolved => wide.renames \/ wide.unresolved
  <2> HIDE DEF wide, narrow
  <2> QED
    BY <1>1, NarrowerKeepsLess DEF NarrowerScope
<1>4. \A f : IsDenied(p2, f) = IsDenied(p, f)
    BY DEF SamePolicyBut, IsDenied, DeniedFunctions
<1>5. /\ Candidates(p, s) = {} /\ Candidates(p2, s) = {}
      /\ Maskable(p2, s) = {} /\ ~WildcardConflict(p2, s) /\ ~OrderingConflict(p2, s)
      /\ JudgedExprs(p, s) = AllExprs(s) /\ JudgedExprs(p2, s) = AllExprs(s)
    BY DenyMasksNothing, EveryExprJudged DEF SamePolicyBut, Candidates
<1>6. WalkObjections(p, s) = {}
    BY DEF Passes
<1>7. /\ StatementObjections(s) = {} /\ QueryObjections(p, s) = {}
      /\ SelectObjections(p, s) = {} /\ ExprObjections(p, s) = {} /\ FactorObjections(p, s) = {}
    BY <1>6, WalkFinds
<1>8. p2.rules \subseteq p.rules /\ p2.engine = p.engine
    BY DEF SamePolicyBut
<1>9. QueryObjections(p2, s) = {}
    BY <1>7, <1>8 DEF QueryObjections, When, ProtectsTable
<1>10. SelectObjections(p2, s) = {}
  <2>1. ASSUME NEW q, StarExposes(p2, narrow, q) PROVE StarExposes(p, wide, q)
    <3> HIDE DEF wide, narrow
    <3> QED
        BY <1>2, <1>3, <2>1 DEF StarExposes
  <2>2. ASSUME NEW level, JoinExposes(p2, narrow, level) PROVE JoinExposes(p, wide, level)
    <3> HIDE DEF wide, narrow
    <3> QED
        BY <1>2, <1>3, <2>2 DEF JoinExposes
  <2>3. ~(p.rules # {} /\ \E q \in Selects(s) : \/ StarExposes(p, wide, q)
                                               \/ \E level \in Levels(q) : JoinExposes(p, wide, level))
    BY <1>7 DEF SelectObjections, When
  <2>4. ~(p2.rules # {} /\ \E q \in Selects(s) : \/ StarExposes(p2, narrow, q)
                                                \/ \E level \in Levels(q) : JoinExposes(p2, narrow, level))
    <3> HIDE DEF wide, narrow
    <3> QED
        BY <1>8, <2>1, <2>2, <2>3
  <2>5. ~\E q \in Selects(s) : q.into
    BY <1>7 DEF SelectObjections, When
  <2> QED
    BY <2>4, <2>5 DEF SelectObjections, When
<1>11. ExprObjections(p2, s) = {}
  <2>1. /\ ~\E e \in AllExprs(s) : PiiExpr(wide, e)
        /\ ~\E e \in Calls(s) : ArgsExpose(wide, e.args)
    BY <1>5, <1>7 DEF ExprObjections, When
  <2>2. /\ ~\E e \in AllExprs(s) : PiiExpr(narrow, e)
        /\ ~\E e \in Calls(s) : ArgsExpose(narrow, e.args)
    <3> HIDE DEF wide, narrow
    <3> QED
        BY <1>3, <2>1
  <2>3. ~\E e \in Calls(s) : IsDenied(p2, e.f)
    BY <1>4, <1>6, WalkFinds
  <2>4. ~\E e \in JudgedExprs(p2, s) : PiiExpr(narrow, e)
    <3> HIDE DEF narrow
    <3> QED
        BY <1>5, <2>2
  <2>5. /\ ~\E e \in JudgedExprs(p2, s) : PiiExpr(StatementScope(p2, s), e)
        /\ ~\E e \in Calls(s) : ArgsExpose(StatementScope(p2, s), e.args)
    BY <2>2, <2>4
  <2> QED
    BY <2>3, <2>5, NothingRaised DEF ExprObjections
<1>12. FactorObjections(p2, s) = {}
  <2>1. ~(p.rules # {} /\ \E f \in AllFactors(s) : f.k = "table" /\ RelationName(f) \in Sampling[p.engine])
    BY <1>7 DEF FactorObjections, When
  <2>2. ~\E f \in SourceCalls(s) : ArgsExpose(wide, f.args)
    BY <1>7 DEF FactorObjections, When
  <2>3. ~\E f \in SourceCalls(s) : ArgsExpose(narrow, f.args)
    <3> HIDE DEF wide, narrow
    <3> QED
        BY <1>3, <2>2
  <2>4. ~\E f \in SourceCalls(s) : IsDenied(p2, f.name)
    BY <1>4, <1>6, WalkFinds
  <2>5. ~(p2.rules # {} /\ \E f \in AllFactors(s) : f.k = "table" /\ RelationName(f) \in Sampling[p2.engine])
    BY <1>8, <2>1
  <2> QED
    BY <2>3, <2>4, <2>5 DEF FactorObjections, When
<1>13. WalkObjections(p2, s) = {}
    BY <1>7, <1>9, <1>10, <1>11, <1>12 DEF WalkObjections
<1>14. ~(narrow.renames \/ narrow.unresolved)
  <2>1. ~(wide.renames \/ wide.unresolved)
    BY DEF Passes
  <2> HIDE DEF wide, narrow
  <2> QED
    BY <1>3, <2>1
<1> QED
    BY <1>5, <1>8, <1>13, <1>14 DEF Passes

\* Where "deny" has no objection, there is nothing for "mask" to let through.
LEMMA MaskingPasses ==
    ASSUME NEW p, NEW p2, p2.engine = p.engine, p2.rules = p.rules, p2.allow = p.allow, p2.deny = p.deny,
           p.mode = "deny", NEW s, ParsedSql(s), Passes(p, s)
    PROVE  Passes(p2, s) /\ Maskable(p2, s) = {}
<1>1. \A factors, bodies : Scope(p2, factors, bodies) = Scope(p, factors, bodies)
    BY DEF Scope, ProtectsTable, ColumnsOf
<1>2. /\ StatementScope(p2, s) = StatementScope(p, s)
      /\ \A level : LocalScope(p2, level) = LocalScope(p, level)
    BY <1>1 DEF StatementScope, LocalScope
<1>3. /\ Candidates(p, s) = {} /\ JudgedExprs(p, s) = AllExprs(s) /\ WalkObjections(p, s) = {}
    BY DenyMasksNothing, EveryExprJudged DEF Candidates, Passes
<1>4. /\ StatementObjections(s) = {} /\ QueryObjections(p, s) = {}
      /\ SelectObjections(p, s) = {} /\ ExprObjections(p, s) = {} /\ FactorObjections(p, s) = {}
    BY <1>3, WalkFinds
<1>5. \A e \in AllExprs(s) : ~PiiExpr(StatementScope(p, s), e)
    BY <1>3, <1>4 DEF ExprObjections, When
<1>6. Candidates(p2, s) = {}
  <2> SUFFICES ASSUME NEW i \in DOMAIN s.queries[1].items, RootIsSelect(s),
                      s.queries[1].items[i].k = "item",
                      NamesProtected(StatementScope(p, s), s.queries[1].items[i].e)
               PROVE  FALSE
    BY <1>2 DEF Candidates
  <2> DEFINE root  == s.queries[1]
             e     == root.items[i].e
             scope == StatementScope(p, s)
  <2>1. root \in ToSet(s.queries)
    BY RootThere
  <2>2. e \in AllExprs(s)
    <3>1. e \in {root.items[j].e : j \in {x \in DOMAIN root.items : root.items[x].k = "item"}}
        OBVIOUS
    <3>2. e \in Within(e)
        BY DEF Within
    <3>3. e \in Exprs(root)
      <4> HIDE DEF e
      <4> QED
        BY <3>1, <3>2 DEF Exprs, ExprsOver
    <3> QED
        BY <2>1, <3>3 DEF AllExprs
  <2>3. Active(scope)
    <3>1. scope.columns # {}
        BY DEF NamesProtected
    <3>2. scope.handles # {}
        BY <3>1 DEF StatementScope, Scope
    <3> QED
        BY <3>2 DEF Active
  <2>4. PiiExpr(scope, e)
    <3> HIDE DEF scope, e
    <3>1. NamesProtected(scope, e)
        BY DEF scope, e
    <3> QED
        BY <2>3, <3>1 DEF NamesProtected, PiiExpr
  <2> QED
    BY <1>5, <2>2, <2>4
<1>7. /\ Maskable(p2, s) = {} /\ ~WildcardConflict(p2, s) /\ ~OrderingConflict(p2, s)
      /\ JudgedExprs(p2, s) = AllExprs(s)
    BY <1>6, DenyMasksNothing, EveryExprJudged
<1>8. \A f : IsDenied(p2, f) = IsDenied(p, f)
    BY DEF IsDenied, DeniedFunctions
<1>9. QueryObjections(p2, s) = {}
    BY <1>4 DEF QueryObjections, When, ProtectsTable
<1>10. SelectObjections(p2, s) = {}
  <2>1. \A q : StarExposes(p2, StatementScope(p2, s), q) = StarExposes(p, StatementScope(p, s), q)
    BY <1>2 DEF StarExposes
  <2>2. \A level : JoinExposes(p2, StatementScope(p2, s), level) = JoinExposes(p, StatementScope(p, s), level)
    BY <1>2 DEF JoinExposes
  <2>3. SelectObjections(p2, s) = SelectObjections(p, s)
    BY <2>1, <2>2 DEF SelectObjections
  <2> QED
    BY <1>4, <2>3
<1>11. ExprObjections(p2, s) = {}
    BY <1>2, <1>3, <1>4, <1>7, <1>8 DEF ExprObjections, When
<1>12. FactorObjections(p2, s) = {}
    BY <1>2, <1>4, <1>8 DEF FactorObjections, When
<1>13. WalkObjections(p2, s) = {}
    BY <1>4, <1>9, <1>10, <1>11, <1>12 DEF WalkObjections
<1> QED
    BY <1>2, <1>7, <1>13 DEF Passes

Fewer(p, rules) == [p EXCEPT !.rules = rules]
Masking(p) == [p EXCEPT !.mode = "mask"]

LEMMA SqlPolicyFields ==
    ASSUME NEW p \in SqlPolicies, NEW rules
    PROVE  /\ Fewer(p, rules).engine = p.engine /\ Fewer(p, rules).mode = p.mode
           /\ Fewer(p, rules).allow = p.allow /\ Fewer(p, rules).deny = p.deny
           /\ Fewer(p, rules).rules = rules
           /\ Masking(p).engine = p.engine /\ Masking(p).rules = p.rules
           /\ Masking(p).allow = p.allow /\ Masking(p).deny = p.deny
<1>1. p \in [engine : SqlEngines, mode : {"deny", "mask"},
             rules : SUBSET (STRING \X STRING), allow : SUBSET STRING, deny : SUBSET STRING]
    BY SqlAssumption
<1>2. PICK engine, mode, old, allow, deny :
        p = [engine |-> engine, mode |-> mode, rules |-> old, allow |-> allow, deny |-> deny]
    BY <1>1
<1> QED
    BY <1>2 DEF Fewer, Masking

\* Fewer rules never refuse more, and "mask" takes what "deny" does as it is,
\* for every policy and statement.
THEOREM SqlStricter == Spec => []SqlStricterIsNarrower
<1>1. Exchange => SqlStricterIsNarrower
  <2> SUFFICES ASSUME Exchange, IsSql, Sent, policy.mode = "deny"
               PROVE  /\ \A fewer \in SUBSET policy.rules : Allowed(Fewer(policy, fewer), ask)
                      /\ Validate(Masking(policy), ask) = verdict
    BY DEF SqlStricterIsNarrower, Fewer, Masking
  <2>1. ask \in Statements /\ verdict = Validate(policy, ask) /\ Allowed(policy, ask)
    BY DEF Exchange, Sent, Allowed
  <2>2. ParsedSql(ask) /\ Passes(policy, ask)
    BY <2>1, SqlAssumption, AllowedPasses
  <2>3. policy \in SqlPolicies
    BY MongoAssumption, RedisAssumption DEF Exchange, IsSql, SqlEngines
  <2>4. ASSUME NEW fewer \in SUBSET policy.rules PROVE Allowed(Fewer(policy, fewer), ask)
    <3>1. SamePolicyBut(policy, Fewer(policy, fewer))
        BY <2>3, SqlPolicyFields DEF SamePolicyBut
    <3>2. Passes(Fewer(policy, fewer), ask) /\ Maskable(Fewer(policy, fewer), ask) = {}
        BY <2>2, <3>1, FewerRulesPass
    <3> QED
        BY <3>2, PassesAllowed DEF Allowed
  <2>5. Validate(Masking(policy), ask) = verdict
    <3>1. Passes(Masking(policy), ask) /\ Maskable(Masking(policy), ask) = {}
        BY <2>2, <2>3, SqlPolicyFields, MaskingPasses
    <3>2. Maskable(policy, ask) = {}
        BY DenyMasksNothing DEF Candidates
    <3> QED
        BY <2>1, <2>2, <3>1, <3>2, PassesAllowed
  <2> QED
    BY <2>4, <2>5
<1> QED
    BY <1>1, ExchangeAlways, PTL

-----------------------------------------------------------------------------
(* MongoDB: what parse has looked at.                                          *)

\* A list of n checks, none of which refuses.
IsList(s, n) == DOMAIN s = 1 .. n /\ s = [i \in 1 .. n |-> s[i]]
Empty(s) == \A i \in DOMAIN s : s[i] = {}

LEMMA EmptyBoth ==
    ASSUME NEW s, NEW t, NEW m \in Nat, NEW n \in Nat, IsList(s, m), IsList(t, n)
    PROVE  IsList(s \o t, m + n) /\ (Empty(s \o t) => Empty(s) /\ Empty(t))
<1> DEFINE S == {s[i] : i \in 1 .. m} \cup {t[i] : i \in 1 .. n}
           both == s \o t
<1>1. s \in Seq(S) /\ t \in Seq(S) /\ Len(s) = m /\ Len(t) = n
  <2>1. s \in [1 .. m -> S] /\ t \in [1 .. n -> S]
    BY DEF IsList
  <2> HIDE DEF S
  <2>2. s \in Seq(S) /\ t \in Seq(S)
    BY <2>1, SeqDef
  <2> QED
    BY <2>1, <2>2, LenProperties
<1> HIDE DEF S
<1>2. /\ both \in Seq(S) /\ Len(both) = m + n
      /\ \A i \in 1 .. (m + n) : both[i] = IF i <= m THEN s[i] ELSE t[i - m]
    BY <1>1, ConcatProperties
<1> HIDE DEF both
<1>3. DOMAIN both = 1 .. (m + n) /\ both = [i \in 1 .. (m + n) |-> both[i]]
    BY <1>2
<1>4. ASSUME Empty(both) PROVE Empty(s) /\ Empty(t)
  <2>1. ASSUME NEW i \in 1 .. m PROVE s[i] = {}
    <3>1. i \in 1 .. (m + n) /\ i <= m
        OBVIOUS
    <3>2. both[i] = s[i] /\ i \in DOMAIN both
        BY <1>2, <1>3, <3>1
    <3> QED
        BY <1>4, <3>2 DEF Empty
  <2>2. ASSUME NEW i \in 1 .. n PROVE t[i] = {}
    <3>1. m + i \in 1 .. (m + n) /\ ~(m + i <= m) /\ (m + i) - m = i
        OBVIOUS
    <3>2. both[m + i] = t[i] /\ m + i \in DOMAIN both
        BY <1>2, <1>3, <3>1
    <3> QED
        BY <1>4, <3>2 DEF Empty
  <2> QED
    BY <2>1, <2>2 DEF IsList, Empty
<1> QED
    BY <1>3, <1>4 DEF both, IsList

\* Nothing in the values, the arguments or the chain of a call that parse lets
\* through is objected to.
LEMMA ParseFinds ==
    ASSUME NEW c, WrittenCall(c), FirstRefusal(Parse(c)) = {}
    PROVE  /\ c.collection \notin Catalogs
           /\ MethodObjections(c.method) = {}
           /\ \A n \in DOMAIN c.tree : ValueObjections(c.tree, n) = {}
           /\ ArgumentObjections(c) = {}
           /\ \A i \in DOMAIN c.chain : ChainObjections(c, i) = {}
<1> DEFINE text  == TextObjections(c)
           place == When(c.collection = None \/ c.collection \in Catalogs, "DENIED_COMMAND")
           how   == MethodObjections(c.method)
           first == <<text, place, how>>
           values == [n \in DOMAIN c.tree |-> ValueObjections(c.tree, n)]
           given == ArgumentObjections(c)
           args  == <<given>>
           chain == [i \in DOMAIN c.chain |-> ChainObjections(c, i)]
           m     == Len(c.tree)
           k     == Len(c.chain)
<1>1. m \in Nat /\ k \in Nat /\ DOMAIN c.tree = 1 .. m /\ DOMAIN c.chain = 1 .. k
    BY DEF WrittenCall
<1>2. /\ IsList(first, 3) /\ first[1] = text /\ first[2] = place /\ first[3] = how
      /\ IsList(args, 1) /\ args[1] = given
  <2> HIDE DEF text, place, how, given
  <2> QED
    BY DEF IsList
<1>3. IsList(values, m) /\ IsList(chain, k)
    BY <1>1 DEF IsList
<1>4. FirstRefusal(first \o values \o args \o chain) = {}
    BY DEF Parse
<1> HIDE DEF first, values, args, chain, m, k
<1> DEFINE two   == first \o values
           three == two \o args
           all   == three \o chain
<1>5. 3 \in Nat /\ 1 \in Nat /\ 3 + m \in Nat /\ 3 + m + 1 \in Nat /\ 3 + m + 1 + k \in Nat
    BY <1>1
<1>6. IsList(two, 3 + m) /\ (Empty(two) => Empty(first) /\ Empty(values))
    BY <1>1, <1>2, <1>3, <1>5, EmptyBoth
<1> HIDE DEF two
<1>7. IsList(three, 3 + m + 1) /\ (Empty(three) => Empty(two) /\ Empty(args))
    BY <1>2, <1>5, <1>6, EmptyBoth
<1> HIDE DEF three
<1>8. IsList(all, 3 + m + 1 + k) /\ (Empty(all) => Empty(three) /\ Empty(chain))
    BY <1>1, <1>3, <1>5, <1>7, EmptyBoth
<1>9. Empty(all)
  <2>1. FirstRefusal(all) = {}
    BY <1>4 DEF all, three, two
  <2>2. DOMAIN all \subseteq Nat
    BY <1>5, <1>8 DEF IsList
  <2> HIDE DEF all
  <2> QED
    BY <2>1, <2>2, NoneRefuses DEF Empty
<1>10. Empty(first) /\ Empty(values) /\ Empty(args) /\ Empty(chain)
    BY <1>6, <1>7, <1>8, <1>9
<1>11. \A i \in 1 .. 3 : first[i] = {} /\ args[1] = {}
    BY <1>2, <1>10 DEF IsList, Empty
<1>12. text = {} /\ place = {} /\ how = {} /\ given = {}
    BY <1>2, <1>11
<1>13. ASSUME NEW n \in DOMAIN c.tree PROVE ValueObjections(c.tree, n) = {}
    BY <1>10 DEF values, Empty
<1>14. ASSUME NEW i \in DOMAIN c.chain PROVE ChainObjections(c, i) = {}
    BY <1>10 DEF chain, Empty
<1> QED
    BY <1>12, <1>13, <1>14 DEF When

LEMMA MethodIsRead ==
    ASSUME NEW method, MethodObjections(method) = {}
    PROVE  method \in {"find", "findOne", "aggregate", "countDocuments", "distinct"}
BY ListsAssumption DEF MethodObjections, When

\* A limit is a natural number.
LEMMA LimitIsNatural ==
    ASSUME NEW c, WrittenCall(c), NEW i \in DOMAIN c.chain, c.chain[i].name = "limit",
           ChainObjections(c, i) = {}
    PROVE  c.chain[i].n \in Nat
<1> DEFINE S == [name : STRING, arg : STRING, n : Int]
<1>1. c.chain \in Seq(S)
    BY DEF WrittenCall
<1>2. c.chain[i] \in S
  <2> HIDE DEF S
  <2>1. i \in 1 .. Len(c.chain)
    BY <1>1, LenProperties
  <2> QED
    BY <1>1, <2>1, ElementOfSeq
<1>3. ~(c.chain[i].n < 1)
    BY DEF ChainObjections, When
<1> QED
    BY <1>2, <1>3

-----------------------------------------------------------------------------
(* A cut is flagged.                                                           *)

LEMMA WithinIsLeast ==
    ASSUME NEW n \in Nat, NEW bounds \in SUBSET Nat
    PROVE  /\ Within1(n, bounds) \in Nat /\ Within1(n, bounds) \in {n} \cup bounds
           /\ \A k \in {n} \cup bounds : Within1(n, bounds) <= k
<1> DEFINE T == {n} \cup bounds
<1>1. \E m \in T : \A k \in T : m <= k
    BY LeastNatural
<1> QED
    BY <1>1 DEF Within1

LEMMA WithinOne ==
    ASSUME NEW n \in Nat, NEW limit \in Nat
    PROVE  Within1(n, {limit}) = IF n <= limit THEN n ELSE limit
BY WithinIsLeast

LEMMA RedisCut ==
    ASSUME NEW p, NEW l, NEW error, NEW n \in Nat, NEW k \in {"map", "list", "value"}
    PROVE  LET answer == RedisAnswer(p, l, error, n, k)
           IN  /\ answer.shown <= RowLimit
               /\ ~answer.truncated => answer.shown = answer.matching
<1> DEFINE items == IF k \in {"map", "list"} THEN n ELSE 1
           rows  == IF items < RowLimit + 1 THEN items ELSE RowLimit + 1
           answer == RedisAnswer(p, l, error, n, k)
<1>1. /\ answer.shown = Within1(rows, {RowLimit}) /\ answer.truncated = (rows > RowLimit)
      /\ answer.matching = items
    BY DEF RedisAnswer, Shape, Fetched
<1>2. RowLimit \in Nat /\ items \in Nat /\ rows \in Nat
    BY ReplyAssumption
<1>3. Within1(rows, {RowLimit}) = IF rows <= RowLimit THEN rows ELSE RowLimit
    BY <1>2, WithinOne
<1> HIDE DEF answer
<1>4. answer.shown <= RowLimit /\ (~answer.truncated => answer.shown = answer.matching)
  <2>1. CASE rows <= RowLimit
    BY <1>1, <1>2, <1>3, <2>1
  <2>2. CASE ~(rows <= RowLimit)
    <3>1. rows > RowLimit
        BY <1>2, <2>2
    <3>2. answer.truncated
        BY <1>1, <3>1
    <3>3. answer.shown = RowLimit
        BY <1>1, <1>3, <2>2
    <3> QED
        BY <1>2, <3>2, <3>3
  <2> QED
    BY <2>1, <2>2
<1> QED
    BY <1>4 DEF answer

\* What bounds a command: what nyet fetches, next to what the agent asks for.
LEMMA BoundsOfCommand ==
    ASSUME NEW c, WrittenCall(c), FirstRefusal(Parse(c)) = {}
    PROVE  /\ Bounds(c, << >>) \subseteq Nat
           /\ c.method = "countDocuments" => Bounds(c, <<Fetched>>) = {}
           /\ c.method # "countDocuments" => Bounds(c, <<Fetched>>) = {Fetched} \cup Bounds(c, << >>)
<1>1. RowLimit \in Nat /\ Fetched \in Nat /\ ~(Fetched < 1)
    BY ReplyAssumption DEF Fetched
<1>2. ToSet(<<Fetched>>) = {Fetched} /\ ToSet(<< >>) = {}
    BY DEF ToSet
<1>3. /\ {IF n < 1 THEN 1 ELSE n : n \in ToSet(<<Fetched>>)} = {Fetched}
      /\ {IF n < 1 THEN 1 ELSE n : n \in ToSet(<< >>)} = {}
    BY <1>1, <1>2
<1>4. ASSUME NEW call \in ToSet(c.chain), call.name = "limit" PROVE call.n \in Nat
  <2>1. PICK i \in DOMAIN c.chain : c.chain[i] = call
    BY DEF ToSet
  <2> QED
    BY <1>4, <2>1, ParseFinds, LimitIsNatural
<1>5. c.method \in {"find", "findOne", "aggregate", "countDocuments", "distinct"}
    BY ParseFinds, MethodIsRead
<1>6. CASE c.method \in {"find", "findOne"}
  <2> DEFINE agents == {call.n : call \in {x \in ToSet(c.chain) : x.name = "limit"}}
                       \cup (IF c.method = "findOne" THEN {1} ELSE {})
  <2>1. agents \subseteq Nat
    BY <1>4
  <2>2. Bounds(c, <<Fetched>>) = {Fetched} \cup agents /\ Bounds(c, << >>) = {} \cup agents
    <3> HIDE DEF agents
    <3>1. /\ Bounds(c, <<Fetched>>) = {IF n < 1 THEN 1 ELSE n : n \in ToSet(<<Fetched>>)} \cup agents
          /\ Bounds(c, << >>) = {IF n < 1 THEN 1 ELSE n : n \in ToSet(<< >>)} \cup agents
        BY <1>6 DEF Bounds, agents
    <3> QED
        BY <1>3, <3>1
  <2> HIDE DEF agents
  <2> QED
    BY <1>6, <2>1, <2>2
<1>7. CASE c.method \in {"aggregate", "distinct"}
    BY <1>3, <1>7 DEF Bounds
<1>8. CASE c.method = "countDocuments"
    BY <1>8 DEF Bounds
<1> QED
    BY <1>5, <1>6, <1>7, <1>8

LEMMA MongoCut ==
    ASSUME NEW c, WrittenCall(c), FirstRefusal(Parse(c)) = {}, NEW matching \in Nat,
           NEW due, due = Within1(Answering(c, matching), Bounds(c, <<Fetched>>)),
           NEW sent, sent \in {n \in {due - 1, due} : n >= 0}
    PROVE  LET read  == ReadReply(c, sent, sent < due)
               shown == Within1(read.rows, {RowLimit})
           IN  /\ shown <= RowLimit
               /\ ~(read.truncated \/ read.rows > RowLimit) =>
                    shown = IF c.method = "countDocuments" THEN 1 ELSE Within1(matching, Bounds(c, << >>))
<1> DEFINE read  == ReadReply(c, sent, sent < due)
           rows  == IF c.method = "countDocuments" /\ sent = 0 THEN 1 ELSE sent
           shown == Within1(rows, {RowLimit})
           few   == Bounds(c, << >>)
<1>1. read.rows = rows /\ read.truncated = (sent < due)
    BY DEF ReadReply
<1>2. RowLimit \in Nat /\ Fetched = RowLimit + 1 /\ Answering(c, matching) \in Nat
    BY ReplyAssumption DEF Fetched, Answering
<1>3. few \subseteq Nat /\ Bounds(c, <<Fetched>>) \subseteq Nat
    BY <1>2, BoundsOfCommand, ParseFinds, MethodIsRead
<1> HIDE DEF few
<1>4. due \in Nat /\ sent \in Nat /\ rows \in Nat
    BY <1>2, <1>3, WithinIsLeast
<1>5. shown = IF rows <= RowLimit THEN rows ELSE RowLimit
    BY <1>2, <1>4, WithinOne
<1>6. shown <= RowLimit
    BY <1>2, <1>4, <1>5
<1>7. ASSUME ~(sent < due), ~(rows > RowLimit)
      PROVE  rows = IF c.method = "countDocuments" THEN 1 ELSE Within1(matching, few)
  <2>1. sent = due
    BY <1>4, <1>7
  <2>2. CASE c.method = "countDocuments"
    <3>1. due = Within1(Answering(c, matching), {})
        BY <2>2, BoundsOfCommand
    <3>2. due = Answering(c, matching)
        BY <1>2, <3>1, WithinIsLeast
    <3>3. due \in {0, 1}
        BY <2>2, <3>2 DEF Answering
    <3> QED
        BY <2>1, <2>2, <3>3
  <2>3. CASE c.method # "countDocuments"
    <3>1. Answering(c, matching) = matching /\ rows = due
        BY <2>1, <2>3 DEF Answering
    <3>2. Bounds(c, <<Fetched>>) = {Fetched} \cup few
        BY <2>3, BoundsOfCommand DEF few
    <3>3. /\ due \in {matching, Fetched} \cup few
          /\ \A k \in {matching, Fetched} \cup few : due <= k
        BY <1>3, <3>1, <3>2, WithinIsLeast
    <3>4. due # Fetched
        BY <1>2, <1>4, <1>7, <3>1
    <3>5. /\ Within1(matching, few) \in {matching} \cup few
          /\ \A k \in {matching} \cup few : Within1(matching, few) <= k
        BY <1>3, WithinIsLeast
    <3>6. due <= Within1(matching, few) /\ Within1(matching, few) <= due
        BY <3>3, <3>4, <3>5
    <3>7. Within1(matching, few) \in Nat
        BY <1>3, WithinIsLeast
    <3> QED
        BY <1>4, <2>3, <3>1, <3>6, <3>7
  <2> QED
    BY <2>2, <2>3
<1>8. ~(sent < due) /\ ~(rows > RowLimit) => shown = rows
    BY <1>2, <1>4, <1>5
<1> QED
    BY <1>1, <1>6, <1>7, <1>8 DEF few

\* An answer that does not say it is cut is all that was asked for, whatever
\* the connection's limit, the agent's limits and the number of documents or
\* items on the server (Request::command, read_reply; shape).
THEOREM CutsAreFlagged == Spec => []CutIsFlagged
<1>1. Exchange => CutIsFlagged
  <2>1. ASSUME Exchange, IsRedis, reply # Nothing PROVE CutIsFlagged
    <3>1. PICK error \in {None, "noperm", "lost"}, n \in Matching, k \in {"map", "list", "value"} :
                reply = RedisAnswer(policy, ask, error, n, k)
        BY <2>1 DEF Exchange, RedisReply
    <3>2. n \in Nat
        BY ReplyAssumption
    <3>3. reply.shown <= RowLimit /\ (~reply.truncated => reply.shown = reply.matching)
        BY <3>1, <3>2, RedisCut
    <3> QED
        BY <2>1, <3>3 DEF CutIsFlagged, IsRedis, IsMongo
  <2>2. ASSUME Exchange, IsMongo, reply # Nothing PROVE CutIsFlagged
    <3>1. ask \in MongoCalls /\ verdict = Check(policy, ask) /\ verdict.why = {}
        BY <2>2 DEF Exchange, Sent
    <3>2. WrittenCall(ask) /\ FirstRefusal(Parse(ask)) = {}
        BY <3>1, MongoAssumption DEF Check, Caught
    <3>3. PICK matching \in Matching :
            LET result == CallResult(ask)
                due    == Within1(Answering(ask, matching), Bounds(ask, <<Fetched>>))
            IN  \E sent \in {n \in {due - 1, due} : n >= 0} :
                    LET read == ReadReply(ask, sent, sent < due)
                    IN  reply = [values |-> result.d, decides |-> result.decides, matching |-> matching,
                                 shown |-> Within1(read.rows, {RowLimit}),
                                 truncated |-> read.truncated \/ read.rows > RowLimit,
                                 net |-> ScanReply(policy, ask, {v.path : v \in result.d})]
        BY <2>2 DEF Exchange, MongoReply
    <3> DEFINE due == Within1(Answering(ask, matching), Bounds(ask, <<Fetched>>))
    <3>4. PICK sent \in {n \in {due - 1, due} : n >= 0} :
                /\ reply.matching = matching
                /\ reply.shown = Within1(ReadReply(ask, sent, sent < due).rows, {RowLimit})
                /\ reply.truncated = (\/ ReadReply(ask, sent, sent < due).truncated
                                      \/ ReadReply(ask, sent, sent < due).rows > RowLimit)
      <4>1. PICK sent \in {n \in {due - 1, due} : n >= 0} :
                reply = [values |-> CallResult(ask).d, decides |-> CallResult(ask).decides,
                         matching |-> matching,
                         shown |-> Within1(ReadReply(ask, sent, sent < due).rows, {RowLimit}),
                         truncated |-> \/ ReadReply(ask, sent, sent < due).truncated
                                       \/ ReadReply(ask, sent, sent < due).rows > RowLimit,
                         net |-> ScanReply(policy, ask, {v.path : v \in CallResult(ask).d})]
        BY <3>3
      <4> HIDE DEF due
      <4> QED
        BY <4>1
    <3>5. matching \in Nat
        BY ReplyAssumption
    <3>7. due = Within1(Answering(ask, matching), Bounds(ask, <<Fetched>>))
        OBVIOUS
    <3> HIDE DEF due
    <3>6. LET rows == ReadReply(ask, sent, sent < due).rows
          IN  /\ Within1(rows, {RowLimit}) <= RowLimit
              /\ ~(ReadReply(ask, sent, sent < due).truncated \/ rows > RowLimit) =>
                    Within1(rows, {RowLimit}) =
                        IF ask.method = "countDocuments" THEN 1 ELSE Within1(matching, Bounds(ask, << >>))
        BY <3>2, <3>5, <3>7, MongoCut
    <3>8. /\ reply.shown <= RowLimit
          /\ ~reply.truncated =>
                reply.shown = IF ask.method = "countDocuments" THEN 1 ELSE Within1(matching, Bounds(ask, << >>))
        BY <3>4, <3>6
    <3> QED
        BY <2>2, <3>4, <3>8 DEF CutIsFlagged, IsMongo
  <2> QED
    BY <2>1, <2>2 DEF CutIsFlagged
<1> QED
    BY <1>1, ExchangeAlways, PTL

-----------------------------------------------------------------------------
(* MongoDB: how the walk comes to a value.                                     *)

WalkModes == {"pipeline", "stage", "facets", "projection", "strict"}

\* The nodes of a tree follow what is above them; 0 is above the roots.
IsTree(up, N) == N \in Nat /\ up \in [1 .. N -> Nat] /\ \A n \in 1 .. N : up[n] < n
Stepping(base, step, N, M) == base \in [1 .. N -> M] /\ step \in [1 .. N -> [M -> M]]

\* A function over the nodes of a tree, from its value above each, exists.
LEMMA FunctionOnTree ==
    ASSUME NEW N, NEW up, NEW M, NEW base, NEW step, IsTree(up, N), Stepping(base, step, N, M)
    PROVE  \E f \in [1 .. N -> M] :
               \A n \in 1 .. N : f[n] = IF up[n] = 0 THEN base[n] ELSE step[n][f[up[n]]]
<1> USE DEF IsTree, Stepping
<1> DEFINE Fits(f, k) == \A n \in 1 .. k : f[n] = IF up[n] = 0 THEN base[n] ELSE step[n][f[up[n]]]
           bad == {k \in 0 .. N : ~\E f \in [1 .. k -> M] : Fits(f, k)}
<1> SUFFICES ASSUME N \in bad PROVE FALSE
    OBVIOUS
<1>1. PICK m \in bad : \A k \in bad : m <= k
  <2> HIDE DEF Fits
  <2>1. bad \subseteq Nat /\ bad # {}
    OBVIOUS
  <2> HIDE DEF bad
  <2> QED
    BY <2>1, LeastNatural
<1>2. m # 0
  <2>1. Fits([i \in 1 .. 0 |-> base[i]], 0) /\ [i \in 1 .. 0 |-> base[i]] \in [1 .. 0 -> M]
    OBVIOUS
  <2>2. \E f \in [1 .. 0 -> M] : Fits(f, 0)
    <3> HIDE DEF Fits
    <3> QED
        BY <2>1
  <2> HIDE DEF Fits
  <2> QED
    BY <2>2
<1>3. m \in Nat /\ m - 1 \in 0 .. N /\ m - 1 \notin bad /\ m \in 1 .. N
  <2>1. m \in 0 .. N /\ m \in Nat
    OBVIOUS
  <2> HIDE DEF bad
  <2>2. m - 1 \notin bad
    BY <1>1, <2>1
  <2> QED
    BY <1>2, <2>1, <2>2
<1>4. PICK f \in [1 .. (m - 1) -> M] : Fits(f, m - 1)
    BY <1>3
<1> DEFINE last == IF up[m] = 0 THEN base[m] ELSE step[m][f[up[m]]]
           more == [i \in 1 .. m |-> IF i = m THEN last ELSE f[i]]
<1>5. up[m] # 0 => up[m] \in 1 .. (m - 1)
    BY <1>3
<1>6. last \in M
    BY <1>3, <1>5
<1>7. more \in [1 .. m -> M]
  <2> HIDE DEF last
  <2> QED
    BY <1>3, <1>6
<1>8. ASSUME NEW n \in 1 .. m
      PROVE  more[n] = IF up[n] = 0 THEN base[n] ELSE step[n][more[up[n]]]
  <2>1. up[n] # 0 => up[n] \in 1 .. (m - 1) /\ more[up[n]] = f[up[n]]
    <3>1. up[n] \in Nat /\ up[n] < n
        BY <1>3
    <3> HIDE DEF last
    <3> QED
        BY <1>3, <3>1
  <2>2. CASE n = m
    BY <1>3, <2>1, <2>2
  <2>3. CASE n # m
    <3>1. n \in 1 .. (m - 1)
        BY <1>3, <2>3
    <3>2. more[n] = f[n]
        BY <2>3
    <3> HIDE DEF last, more
    <3> QED
        BY <1>4, <2>1, <3>1, <3>2
  <2> QED
    BY <2>2, <2>3
<1>9. Fits(more, m)
  <2> HIDE DEF more
  <2> QED
    BY <1>8
<1> HIDE DEF Fits, more
<1> QED
    BY <1>1, <1>7, <1>9

\* And has its values where the steps keep them.
LEMMA RangeOnTree ==
    ASSUME NEW N, NEW up, IsTree(up, N), NEW M, NEW f,
           \A n \in 1 .. N : up[n] = 0 => f[n] \in M,
           \A n \in 1 .. N : up[n] # 0 /\ f[up[n]] \in M => f[n] \in M
    PROVE  \A n \in 1 .. N : f[n] \in M
<1> USE DEF IsTree
<1> DEFINE bad == {n \in 1 .. N : f[n] \notin M}
<1> SUFFICES ASSUME bad # {} PROVE FALSE
    OBVIOUS
<1>1. PICK m \in bad : \A k \in bad : m <= k
  <2>1. bad \subseteq Nat
    OBVIOUS
  <2> HIDE DEF bad
  <2> QED
    BY <2>1, LeastNatural
<1>2. up[m] \in Nat /\ up[m] < m /\ m \in 1 .. N
    BY <1>1
<1>3. up[m] # 0 => up[m] \in 1 .. N /\ f[up[m]] \in M
    BY <1>1, <1>2
<1> QED
    BY <1>1, <1>2, <1>3

LEMMA ModesStay ==
    ASSUME NEW c, NEW n, NEW around \in WalkModes
    PROVE  /\ ArgumentMode(c, n) \in WalkModes
           /\ ModeUnder(c.tree, n, around) \in WalkModes
<1>1. ArgumentMode(c, n) \in WalkModes
    BY DEF ArgumentMode, WalkModes
<1>2. ASSUME NEW node, NEW value \in WalkModes PROVE FieldMode(node, value) \in WalkModes
    BY DEF FieldMode, WalkModes
<1>3. ModeUnder(c.tree, n, around) \in WalkModes
  <2>1. CASE around \in {"pipeline", "facets"}
    BY <2>1 DEF ModeUnder, WalkModes
  <2>2. CASE around = "stage"
    BY <1>2, <2>2 DEF ModeUnder, WalkModes
  <2>3. CASE around \in {"projection", "strict"}
    BY <1>2, <2>3 DEF ModeUnder, WalkModes
  <2> QED
    BY <2>1, <2>2, <2>3 DEF WalkModes
<1> QED
    BY <1>1, <1>3

\* What WrittenCall says of one value.
LEMMA WrittenNode ==
    ASSUME NEW c, WrittenCall(c), NEW n \in DOMAIN c.tree
    PROVE  LET u == c.tree[n].up
           IN  /\ DOMAIN c.tree = 1 .. Len(c.tree) /\ Len(c.tree) \in Nat
               /\ u \in Nat /\ u < n
               /\ u # 0 => /\ u \in DOMAIN c.tree
                           /\ c.tree[u].kind \in {"doc", "array"}
                           /\ c.tree[u].kind = "array" => c.tree[n].key = << >>
               /\ u = 0 => \/ c.tree[n].key = <<"first">>
                           \/ c.tree[n].key = <<"second">> /\ c.args > 1
                           \/ c.tree[n].key = <<"sort">> /\ c.chain # << >>
<1> DEFINE S == [up : Nat, key : Seq(STRING), kind : STRING, text : Seq(STRING)]
<1>1. c.tree \in Seq(S)
    BY DEF WrittenCall
<1>2. c.tree[n] \in S /\ DOMAIN c.tree = 1 .. Len(c.tree) /\ Len(c.tree) \in Nat
  <2> HIDE DEF S
  <2>1. DOMAIN c.tree = 1 .. Len(c.tree) /\ Len(c.tree) \in Nat
    BY <1>1, LenProperties
  <2> QED
    BY <1>1, <2>1, ElementOfSeq
<1>3. c.tree[n].up \in Nat
    BY <1>2
<1>4. c.tree[n].up < n /\ (c.tree[n].up # 0 => c.tree[n].up \in DOMAIN c.tree)
  <2>1. c.tree[n].up < n
    BY DEF WrittenCall
  <2> QED
    BY <1>2, <1>3, <2>1
<1> QED
    BY <1>2, <1>3, <1>4 DEF WrittenCall

\* The walk's recursion, unfolded once.
LEMMA ModesUnfold ==
    ASSUME NEW c, WrittenCall(c)
    PROVE  /\ \A n \in DOMAIN c.tree :
                  Modes(c)[n] = IF c.tree[n].up = 0 THEN ArgumentMode(c, n)
                                ELSE ModeUnder(c.tree, n, Modes(c)[c.tree[n].up])
           /\ \A n \in DOMAIN c.tree : Modes(c)[n] \in WalkModes
<1> DEFINE N    == Len(c.tree)
           up   == [n \in 1 .. N |-> c.tree[n].up]
           base == [n \in 1 .. N |-> ArgumentMode(c, n)]
           step == [n \in 1 .. N |-> [around \in WalkModes |-> ModeUnder(c.tree, n, around)]]
           Unfolds(mode) == mode = [n \in DOMAIN c.tree |->
                                        LET u == c.tree[n].up
                                        IN  IF u = 0 THEN ArgumentMode(c, n)
                                            ELSE ModeUnder(c.tree, n, mode[u])]
<1>1. N \in Nat /\ DOMAIN c.tree = 1 .. N
  <2>1. c.tree \in Seq([up : Nat, key : Seq(STRING), kind : STRING, text : Seq(STRING)])
    BY DEF WrittenCall
  <2> QED
    BY <2>1, LenProperties
<1>2. ASSUME NEW n \in 1 .. N
      PROVE  c.tree[n].up \in Nat /\ c.tree[n].up < n /\ (c.tree[n].up # 0 => c.tree[n].up \in 1 .. N)
    BY <1>1, WrittenNode
<1>3. IsTree(up, N)
    BY <1>1, <1>2 DEF IsTree
<1>4. Stepping(base, step, N, WalkModes)
  <2>1. "strict" \in WalkModes
    BY DEF WalkModes
  <2> QED
    BY <2>1, ModesStay DEF Stepping
<1>5. PICK f \in [1 .. N -> WalkModes] :
            \A n \in 1 .. N : f[n] = IF up[n] = 0 THEN base[n] ELSE step[n][f[up[n]]]
  <2> HIDE DEF N, up, base, step
  <2> QED
    BY <1>3, <1>4, FunctionOnTree
<1>6. ASSUME NEW n \in 1 .. N
      PROVE  f[n] = IF c.tree[n].up = 0 THEN ArgumentMode(c, n)
                    ELSE ModeUnder(c.tree, n, f[c.tree[n].up])
    BY <1>2, <1>5
<1>7. Unfolds(f)
  <2> HIDE DEF N
  <2> QED
    BY <1>1, <1>5, <1>6
<1>8. Modes(c) = CHOOSE mode : Unfolds(mode)
    BY DEF Modes
<1>9. Unfolds(Modes(c))
  <2> HIDE DEF Unfolds
  <2> QED
    BY <1>7, <1>8
<1>10. ASSUME NEW n \in DOMAIN c.tree
       PROVE  Modes(c)[n] = IF c.tree[n].up = 0 THEN ArgumentMode(c, n)
                            ELSE ModeUnder(c.tree, n, Modes(c)[c.tree[n].up])
    BY <1>9
<1>11. \A n \in 1 .. N : Modes(c)[n] \in WalkModes
  <2>1. "strict" \in WalkModes
    BY DEF WalkModes
  <2>2. \A n \in 1 .. N : up[n] = 0 => Modes(c)[n] \in WalkModes
    BY <1>1, <1>10, <2>1, ModesStay
  <2>3. ASSUME NEW n \in 1 .. N, up[n] # 0, Modes(c)[up[n]] \in WalkModes PROVE Modes(c)[n] \in WalkModes
    <3>1. Modes(c)[n] = ModeUnder(c.tree, n, Modes(c)[up[n]])
        BY <1>1, <1>10, <2>3
    <3> HIDE DEF up
    <3> QED
        BY <2>3, <3>1, ModesStay
  <2> DEFINE g == Modes(c)
  <2> HIDE DEF N, up, g
  <2>4. \A n \in 1 .. N : g[n] \in WalkModes
    BY <1>1, <1>3, <2>2, <2>3, RangeOnTree DEF g
  <2> QED
    BY <2>4 DEF g
<1> QED
    BY <1>1, <1>10, <1>11

-----------------------------------------------------------------------------
(* MongoDB: nothing but reads.                                                 *)

LEMMA NoneOfSix ==
    ASSUME NEW a, NEW b, NEW c, NEW d, NEW e, NEW f, FirstRefusal(<<a, b, c, d, e, f>>) = {}
    PROVE  a = {} /\ b = {} /\ c = {} /\ d = {} /\ e = {} /\ f = {}
<1> DEFINE checks == <<a, b, c, d, e, f>>
<1>1. /\ DOMAIN checks = 1 .. 6 /\ checks[1] = a /\ checks[2] = b /\ checks[3] = c /\ checks[4] = d
      /\ checks[5] = e /\ checks[6] = f
    OBVIOUS
<1>2. \A i \in DOMAIN checks : checks[i] = {}
    BY <1>1, NoneRefuses
<1> QED
    BY <1>1, <1>2

\* How a value that the walk comes to is judged.
NodeJudged(p, names, c, n) ==
    LET node   == c.tree[n]
        around == Modes(c)[node.up]
        field  == node.up # 0 /\ c.tree[node.up].kind = "doc"
    IN  /\ Modes(c)[n] = "stage" =>
             node.kind = "doc" /\ ~Spelled(c.tree, n) /\ Cardinality(Under(c.tree, n)) = 1
        /\ field /\ around \in {"stage", "strict", "projection", "facets"} =>
             KeyObjections(names, node.key, around = "stage") = {}
        /\ field /\ around \in {"stage", "strict", "projection"} => SourceObjections(c.tree, n) = {}
        /\ field /\ around = "facets" => node.kind = "array"
        /\ field /\ around \in {"stage", "strict"} /\ names # {} =>
             FieldObjections(p, names, node, FALSE) = {}
        /\ field /\ around = "stage" /\ names # {} => StageObjections(p, names, c.tree, n) = {}
        /\ node.kind = "string" /\ Modes(c)[n] \in {"strict", "projection"} /\ names # {} =>
             RefObjections(names, node.text) = {}

LEMMA NodeFinds ==
    ASSUME NEW p, NEW names, NEW c, NEW n, FirstRefusal(NodeObjections(p, names, c, Walked(c), n)) = {}
    PROVE  NodeJudged(p, names, c, n)
<1> DEFINE walked == Walked(c)
           tree == c.tree
           node == tree[n]
           u    == node.up
           in   == IF u = 0 THEN "argument" ELSE IF tree[u].kind = "array" THEN "array" ELSE walked.mode[u]
           protected(objections) == IF names = {} THEN {} ELSE objections
           a == When(walked.mode[n] = "stage" /\ (node.kind # "doc" \/ Spelled(tree, n)
                                                  \/ Cardinality(Under(tree, n)) # 1), "PARSE_FAILED")
           b == IF in \in {"stage", "strict", "projection", "facets"}
                THEN KeyObjections(names, node.key, in = "stage") ELSE {}
           d == CASE in = "stage" ->
                         protected(FieldObjections(p, names, node, FALSE)
                                   \cup StageObjections(p, names, tree, n))
                  [] in \in {"strict", "projection"} ->
                         protected(FieldObjections(p, names, node, in = "projection"))
                  [] in = "facets" ->
                         protected(When(PathHit(names, node.key), "PII_COLUMN"))
                         \cup When(node.kind # "array", "PARSE_FAILED")
                  [] OTHER -> {}
           e == IF in \in {"stage", "strict", "projection"} THEN SourceObjections(tree, n) ELSE {}
           f == When(walked.depth[n] > MaxDepth, "PARSE_FAILED")
           g == IF node.kind = "string" /\ walked.mode[n] \in {"strict", "projection"}
                THEN protected(RefObjections(names, node.text)) ELSE {}
<1>1. FirstRefusal(<<a, b, d, e, f, g>>) = {}
    BY DEF NodeObjections
<1>2. a = {} /\ b = {} /\ d = {} /\ e = {} /\ g = {}
  <2> HIDE DEF a, b, d, e, f, g
  <2> QED
    BY <1>1, NoneOfSix
<1>3. walked.mode = Modes(c)
    BY DEF Walked
<1>4. u # 0 /\ tree[u].kind = "doc" => in = Modes(c)[u]
    BY <1>3
<1>5. /\ in = "facets" => node.kind = "array"
      /\ in = "strict" /\ names # {} => FieldObjections(p, names, node, FALSE) = {}
      /\ in = "stage" /\ names # {} =>
            FieldObjections(p, names, node, FALSE) = {} /\ StageObjections(p, names, tree, n) = {}
  <2> HIDE DEF in
  <2>1. CASE in = "facets"
    BY <1>2, <2>1 DEF When
  <2>2. CASE in = "strict"
    BY <1>2, <2>2
  <2>3. CASE in = "stage"
    BY <1>2, <2>3
  <2> QED
    BY <2>1, <2>2, <2>3
<1>6. Modes(c)[n] = "stage" => node.kind = "doc" /\ ~Spelled(tree, n) /\ Cardinality(Under(tree, n)) = 1
    BY <1>2, <1>3 DEF When
<1>7. node.kind = "string" /\ Modes(c)[n] \in {"strict", "projection"} /\ names # {} =>
            RefObjections(names, node.text) = {}
    BY <1>2, <1>3
<1> HIDE DEF in, a, d, f, g, walked
<1> QED
    BY <1>2, <1>4, <1>5, <1>6, <1>7 DEF NodeJudged

\* The walk comes to every value that is not spelled.
LEMMA WalkVisits ==
    ASSUME NEW p, NEW c, WrittenCall(c), Walk(p, c) = {}, NEW n \in DOMAIN c.tree, n \in Live(c.tree)
    PROVE  NodeJudged(p, ProtectedNames(p, c), c, n)
<1> DEFINE judged(m) == FirstRefusal(NodeObjections(p, ProtectedNames(p, c), c, Walked(c), m))
           checks == [m \in DOMAIN c.tree |-> IF m \in Live(c.tree) THEN judged(m) ELSE {}]
<1>1. FirstRefusal(checks) = {}
    BY DEF Walk
<1>2. DOMAIN checks \subseteq Nat /\ n \in DOMAIN checks /\ checks[n] = judged(n)
  <2>1. DOMAIN c.tree \subseteq Nat
    BY WrittenNode
  <2> HIDE DEF judged
  <2> QED
    BY <2>1
<1> HIDE DEF judged, checks
<1>3. judged(n) = {}
    BY <1>1, <1>2, NoneRefuses
<1> QED
    BY <1>3, NodeFinds DEF judged

\* The value that spells another has but its type to say.
LEMMA SpelledAreTyped ==
    ASSUME NEW c, WrittenCall(c), FirstRefusal(Parse(c)) = {}, NEW n \in DOMAIN c.tree,
           c.tree[n].up # 0, Spelled(c.tree, c.tree[n].up)
    PROVE  c.tree[n].kind = "typed"
<1> DEFINE tree == c.tree
           u    == tree[n].up
<1>1. ValueObjections(tree, u) = {} /\ n \in Under(tree, u)
    BY WrittenNode, ParseFinds DEF Under
<1>2. /\ ~(Spelled(tree, u) /\ \E m \in Under(tree, u) : tree[m].key[2] \in {"code", "codeWithScope"})
      /\ ~(Spelled(tree, u) /\ \E m \in Under(tree, u) : tree[m].key[2] \in {"binary"})
      /\ ~(/\ Spelled(tree, u)
           /\ \E m \in Under(tree, u) :
                 tree[m].key[2] \in ExtendedTypes \ {"code", "codeWithScope", "binary"}
           /\ \E m \in Under(tree, u) : tree[m].kind # "typed")
    BY <1>1 DEF ValueObjections, When
<1>3. tree[n].key[2] \in ExtendedTypes
    BY <1>1 DEF Spelled, OperatorIn
<1> QED
    BY <1>1, <1>2, <1>3

LEMMA FacetsAreDocuments ==
    ASSUME NEW c, WrittenCall(c), NEW n \in DOMAIN c.tree, Modes(c)[n] = "facets"
    PROVE  c.tree[n].kind = "doc"
<1> DEFINE tree == c.tree
<1>1. CASE tree[n].up = 0
    BY <1>1, ModesUnfold DEF ArgumentMode
<1>2. CASE tree[n].up # 0
  <2> DEFINE above == Modes(c)[tree[n].up]
  <2>1. tree[n].up \in DOMAIN tree
    BY <1>2, WrittenNode
  <2>2. Modes(c)[n] = ModeUnder(tree, n, above) /\ above \in WalkModes
    BY <1>2, <2>1, ModesUnfold
  <2>3. \A value : FieldMode(tree[n], value) = "facets" => value = "facets" \/ tree[n].kind = "doc"
    BY DEF FieldMode
  <2> HIDE DEF above
  <2>4. CASE above \in {"pipeline", "facets"}
    BY <2>2, <2>4 DEF ModeUnder
  <2>5. CASE above \in {"projection", "strict", "stage"}
    BY <2>2, <2>3, <2>5 DEF ModeUnder
  <2> QED
    BY <2>2, <2>4, <2>5 DEF WalkModes
<1> QED
    BY <1>1, <1>2

\* Nothing but an array of a call that is let through is walked as a pipeline.
LEMMA PipelinesAreArrays ==
    ASSUME NEW p, NEW c, WrittenCall(c), FirstRefusal(Parse(c)) = {}, Walk(p, c) = {},
           NEW n \in DOMAIN c.tree, c.tree[n].kind \notin {"array", "typed"}
    PROVE  Modes(c)[n] # "pipeline"
<1> DEFINE tree == c.tree
           u    == tree[n].up
           names == ProtectedNames(p, c)
<1>1. /\ u # 0 => u \in DOMAIN tree /\ tree[u].kind \in {"doc", "array"}
      /\ u = 0 => \/ tree[n].key = <<"first">>
                  \/ tree[n].key = <<"second">> /\ c.args > 1
                  \/ tree[n].key = <<"sort">> /\ c.chain # << >>
    BY WrittenNode
<1>2. CASE u = 0
  <2> SUFFICES ASSUME c.method = "aggregate" PROVE FALSE
    BY <1>2, ModesUnfold DEF ArgumentMode
  <2>1. ArgumentObjections(c) = {} /\ \A i \in DOMAIN c.chain : ChainObjections(c, i) = {}
    BY ParseFinds
  <2>2. ~(c.args > 1) /\ RootIs(c, "first", "array")
    BY <2>1 DEF ArgumentObjections, When
  <2>3. tree[n].key # <<"first">>
    BY <1>2, <2>2 DEF RootIs, Root
  <2>4. c.chain = << >>
    <3>1. DOMAIN c.chain = {}
        BY <2>1 DEF ChainObjections
    <3>2. c.chain \in Seq([name : STRING, arg : STRING, n : Int])
        BY DEF WrittenCall
    <3> DEFINE S == [name : STRING, arg : STRING, n : Int]
    <3> HIDE DEF S
    <3>3. c.chain \in Seq(S)
        BY <3>2 DEF S
    <3>4. Len(c.chain) = 0
      <4>1. Len(c.chain) \in Nat /\ 1 .. Len(c.chain) = {}
        BY <3>1, <3>3, LenProperties
      <4>2. 1 \notin 1 .. Len(c.chain)
        BY <4>1
      <4> QED
        BY <4>1, <4>2
    <3> QED
        BY <3>3, <3>4, EmptySeq
  <2> QED
    BY <1>1, <1>2, <2>2, <2>3, <2>4
<1>3. CASE u # 0
  <2> DEFINE around == Modes(c)[u]
  <2>1. Modes(c)[n] = ModeUnder(tree, n, around) /\ around \in WalkModes
    BY <1>1, <1>3, ModesUnfold
  <2>2. around # "facets" => ModeUnder(tree, n, around) # "pipeline"
    <3>1. \A value : FieldMode(tree[n], value) = "pipeline" => value = "pipeline"
        BY DEF FieldMode
    <3> HIDE DEF around
    <3>2. CASE around \in {"pipeline", "stage"}
        BY <3>1, <3>2 DEF ModeUnder
    <3>3. CASE around \in {"projection", "strict"}
        BY <3>1, <3>3 DEF ModeUnder
    <3> QED
        BY <2>1, <3>2, <3>3 DEF WalkModes
  <2>3. around # "facets"
    <3> SUFFICES ASSUME around = "facets" PROVE FALSE
        OBVIOUS
    <3>1. tree[u].kind = "doc"
        BY <1>1, <1>3, FacetsAreDocuments
    <3>2. CASE Spelled(tree, u)
        BY <1>3, <3>2, SpelledAreTyped
    <3>3. CASE ~Spelled(tree, u)
      <4>1. n \in Live(tree)
        BY <3>3 DEF Live
      <4>2. NodeJudged(p, names, c, n)
        BY <4>1, WalkVisits
      <4>3. tree[n].kind = "array"
        BY <1>3, <3>1, <4>2 DEF NodeJudged
      <4> QED
        BY <4>3
    <3> QED
        BY <3>2, <3>3
  <2> QED
    BY <2>1, <2>2, <2>3
<1> QED
    BY <1>2, <1>3

\* An operator of an accepted call, wherever it stands: its key, and what a
\* stage of its name may read.
LEMMA OperatorsJudged ==
    ASSUME NEW p, NEW c, WrittenCall(c), FirstRefusal(Parse(c)) = {}, Walk(p, c) = {},
           NEW n \in DOMAIN c.tree, IsOperator(c.tree[n].key)
    PROVE  LET u == c.tree[n].up
           IN  /\ u # 0 /\ u \in DOMAIN c.tree /\ c.tree[u].kind = "doc" /\ n \in Under(c.tree, u)
               /\ Spelled(c.tree, u) => c.tree[n].key[2] \in ExtendedTypes \ {"code", "codeWithScope"}
               /\ ~Spelled(c.tree, u) =>
                    /\ \E stage \in BOOLEAN : KeyObjections(ProtectedNames(p, c), c.tree[n].key, stage) = {}
                    /\ SourceObjections(c.tree, n) = {} \/ c.tree[n].kind = "array"
<1> DEFINE tree == c.tree
           u    == tree[n].up
           names == ProtectedNames(p, c)
<1>1. Len(tree[n].key) = 2
    BY DEF IsOperator
<1>2. /\ Len(<<"first">>) = 1 /\ Len(<<"second">>) = 1 /\ Len(<<"sort">>) = 1 /\ Len(<< >>) = 0
    OBVIOUS
<1>3. u # 0 /\ u \in DOMAIN tree /\ tree[u].kind = "doc"
  <2> DEFINE key == tree[n].key
  <2>1. key # <<"first">> /\ key # <<"second">> /\ key # <<"sort">> /\ key # << >>
    <3>1. Len(key) = 2
        BY <1>1
    <3> HIDE DEF key
    <3>2. \A name \in {<<"first">>, <<"second">>, <<"sort">>, << >>} : Len(name) # 2
        BY <1>2
    <3>3. key \notin {<<"first">>, <<"second">>, <<"sort">>, << >>}
        BY <3>1, <3>2
    <3> QED
        BY <3>3
  <2>2. /\ u # 0 => /\ u \in DOMAIN tree /\ tree[u].kind \in {"doc", "array"}
                    /\ tree[u].kind = "array" => key = << >>
        /\ u = 0 => key = <<"first">> \/ key = <<"second">> \/ key = <<"sort">>
    BY WrittenNode
  <2> HIDE DEF key
  <2> QED
    BY <2>1, <2>2
<1>4. n \in Under(tree, u)
    BY DEF Under
<1>5. ASSUME Spelled(tree, u) PROVE tree[n].key[2] \in ExtendedTypes \ {"code", "codeWithScope"}
  <2>1. ValueObjections(tree, u) = {}
    BY <1>3, ParseFinds
  <2>2. ~(Spelled(tree, u) /\ \E m \in Under(tree, u) : tree[m].key[2] \in {"code", "codeWithScope"})
    BY <2>1 DEF ValueObjections, When
  <2>3. tree[n].key[2] \in ExtendedTypes
    BY <1>4, <1>5 DEF Spelled, OperatorIn
  <2> QED
    BY <1>4, <1>5, <2>2, <2>3
<1>6. ASSUME ~Spelled(tree, u)
      PROVE  /\ \E stage \in BOOLEAN : KeyObjections(names, tree[n].key, stage) = {}
             /\ SourceObjections(tree, n) = {} \/ tree[n].kind = "array"
  <2> DEFINE around == Modes(c)[u]
  <2>1. around \in {"stage", "strict", "projection", "facets"}
    BY <1>3, PipelinesAreArrays, ModesUnfold DEF WalkModes
  <2>2. NodeJudged(p, names, c, n)
    BY <1>6, WalkVisits DEF Live
  <2>3. /\ KeyObjections(names, tree[n].key, around = "stage") = {}
        /\ around \in {"stage", "strict", "projection"} => SourceObjections(tree, n) = {}
        /\ around = "facets" => tree[n].kind = "array"
    BY <1>3, <2>1, <2>2 DEF NodeJudged
  <2> HIDE DEF around
  <2>4. (around = "stage") \in BOOLEAN
    OBVIOUS
  <2>5. \E stage \in BOOLEAN : KeyObjections(names, tree[n].key, stage) = {}
    BY <2>3, <2>4
  <2>6. SourceObjections(tree, n) = {} \/ tree[n].kind = "array"
    BY <2>1, <2>3
  <2> QED
    BY <2>5, <2>6
<1> QED
    BY <1>3, <1>4, <1>5, <1>6

LEMMA KeysAreReads ==
    ASSUME NEW names, NEW key, IsOperator(key), NEW stage \in BOOLEAN, KeyObjections(names, key, stage) = {}
    PROVE  key[2] \notin WriteKeys \cup JavascriptKeys \cup OwnedKeys \cup {"code", "codeWithScope"}
<1>1. key[2] \notin WriteKeys /\ key[2] \notin JavascriptKeys /\ key[2] \notin OwnedKeys
    BY DEF KeyObjections
<1>2. ~(key[2] \notin (IF stage THEN StageOps ELSE Operators \cup StageOps))
    BY <1>1 DEF KeyObjections, When
<1> QED
    BY <1>1, <1>2, ListsAssumption

\* No key of an accepted call is that of a write, of JavaScript or of an option.
LEMMA NoKeyRuns ==
    ASSUME NEW p, NEW c, WrittenCall(c), FirstRefusal(Parse(c)) = {}, Walk(p, c) = {},
           NEW n \in DOMAIN c.tree
    PROVE  ~OperatorIn(c.tree[n].key, WriteKeys \cup JavascriptKeys \cup OwnedKeys \cup {"code", "codeWithScope"})
<1> SUFFICES ASSUME IsOperator(c.tree[n].key)
             PROVE  c.tree[n].key[2] \notin
                        WriteKeys \cup JavascriptKeys \cup OwnedKeys \cup {"code", "codeWithScope"}
    BY DEF OperatorIn
<1>1. CASE Spelled(c.tree, c.tree[n].up)
  <2>1. c.tree[n].key[2] \in ExtendedTypes \ {"code", "codeWithScope"}
    BY <1>1, OperatorsJudged
  <2> QED
    BY <2>1 DEF ExtendedTypes, WriteKeys, JavascriptKeys, OwnedKeys
<1>2. CASE ~Spelled(c.tree, c.tree[n].up)
    BY <1>2, OperatorsJudged, KeysAreReads
<1> QED
    BY <1>1, <1>2

\* The collection a stage names is one of this database and not a catalog.
LEMMA SourcesJudged ==
    ASSUME NEW p, NEW c, WrittenCall(c), FirstRefusal(Parse(c)) = {}, Walk(p, c) = {},
           NEW n \in DOMAIN c.tree, OperatorIn(c.tree[n].key, NamespaceStages)
    PROVE  \A m \in NamedSources(c.tree, n) :
               /\ ~(c.tree[m].kind = "string" /\ c.tree[m].text # << >> /\ c.tree[m].text[1] \in Catalogs)
               /\ ~(c.tree[m].kind = "doc" /\ ~Spelled(c.tree, m))
<1>1. IsOperator(c.tree[n].key) /\ c.tree[n].key[2] \in NamespaceStages
    BY DEF OperatorIn
<1>2. ~Spelled(c.tree, c.tree[n].up)
  <2>1. c.tree[n].key[2] \notin ExtendedTypes
    BY <1>1 DEF NamespaceStages, ExtendedTypes
  <2> QED
    BY <1>1, <2>1, OperatorsJudged
<1>3. SourceObjections(c.tree, n) = {} \/ c.tree[n].kind = "array"
    BY <1>1, <1>2, OperatorsJudged
<1>4. CASE c.tree[n].kind = "array"
  <2>1. NamedSources(c.tree, n) = {}
    BY <1>4 DEF NamedSources
  <2> QED
    BY <2>1
<1>5. CASE SourceObjections(c.tree, n) = {}
    BY <1>5 DEF SourceObjections, When
<1> QED
    BY <1>3, <1>4, <1>5

\* A call that is accepted makes no server do anything but read collections of
\* its own database that are no catalogs - for every call as deep as it may be
\* written, every allowlist, policy and catalog (mongo::check_with_pii).
THEOREM MongoRunsReads == Spec => []MongoOnlyReads
<1>1. ASSUME NEW p, NEW c, WrittenCall(c), FirstRefusal(Parse(c)) = {}, Walk(p, c) = {}
      PROVE  CallRuns(c) = {}
  <2> DEFINE tree == c.tree
  <2>1. \A n \in DOMAIN tree :
            ~OperatorIn(tree[n].key, WriteKeys \cup JavascriptKeys \cup OwnedKeys \cup {"code", "codeWithScope"})
    BY <1>1, NoKeyRuns
  <2>2. \A n \in DOMAIN tree : /\ ~OperatorIn(tree[n].key, WriteKeys)
                               /\ ~OperatorIn(tree[n].key, JavascriptKeys \cup {"code", "codeWithScope"})
                               /\ ~OperatorIn(tree[n].key, OwnedKeys)
    BY <2>1 DEF OperatorIn
  <2>3. \A n \in DOMAIN tree : tree[n].kind # "named"
    <3>1. \A n \in DOMAIN tree : ValueObjections(tree, n) = {}
        BY <1>1, ParseFinds
    <3> QED
        BY <3>1 DEF ValueObjections, ConstructorObjections, When
  <2>4. c.method \in {"find", "findOne", "aggregate", "countDocuments", "distinct"}
    BY <1>1, ParseFinds, MethodIsRead
  <2>5. ASSUME NEW x \in DOMAIN tree, tree[x].key \in {<<"from">>, <<"coll">>}, tree[x].kind = "doc",
               ~Spelled(tree, x), tree[x].up # 0, OperatorIn(tree[tree[x].up].key, NamespaceStages)
        PROVE  FALSE
    <3> DEFINE n == tree[x].up
    <3>1. /\ n \in DOMAIN tree /\ tree[n].kind \in {"doc", "array"}
          /\ tree[n].kind = "array" => tree[x].key = << >>
        BY <1>1, <2>5, WrittenNode
    <3>2. /\ tree[x].key # << >> /\ Len(tree[x].key) = 1 /\ tree[x].key[1] \in SourceFields
      <4> DEFINE key == tree[x].key
      <4>1. key = <<"from">> \/ key = <<"coll">>
        BY <2>5
      <4> HIDE DEF key
      <4>2. key # << >> /\ Len(key) = 1 /\ key[1] \in SourceFields
        BY <4>1 DEF SourceFields
      <4> QED
        BY <4>2 DEF key
    <3>3. x \in Under(tree, n) /\ ~Spelled(tree, n)
        BY <3>2 DEF Under, Spelled, OperatorIn, IsOperator
    <3>4. x \in NamedSources(tree, n)
        BY <2>5, <3>1, <3>2, <3>3 DEF NamedSources
    <3> QED
        BY <1>1, <2>5, <3>1, <3>4, SourcesJudged
  <2>6. ASSUME NEW k \in Catalogs, k \in Collections(c) PROVE FALSE
    <3>1. c.collection \notin Catalogs
        BY <1>1, ParseFinds
    <3>2. PICK m \in UNION {NamedSources(tree, n) : n \in Live(tree)} :
                tree[m].kind = "string" /\ tree[m].text # << >> /\ k = tree[m].text[1]
        BY <2>6, <3>1 DEF Collections
    <3>3. PICK n \in Live(tree) : m \in NamedSources(tree, n)
        BY <3>2
    <3>4. n \in DOMAIN tree /\ OperatorIn(tree[n].key, NamespaceStages)
        BY <3>3 DEF Live, NamedSources
    <3> QED
        BY <1>1, <2>6, <3>2, <3>3, <3>4, SourcesJudged
  <2>7. Catalogs \cap Collections(c) = {}
    BY <2>6
  <2> DEFINE keys == {tree[n].key : n \in DOMAIN tree}
             elsewhere == {x \in DOMAIN tree :
                /\ tree[x].key \in {<<"from">>, <<"coll">>} /\ tree[x].kind = "doc" /\ ~Spelled(tree, x)
                /\ tree[x].up # 0 /\ OperatorIn(tree[tree[x].up].key, NamespaceStages)}
  <2>8. elsewhere = {}
    BY <2>5
  <2>9. /\ {k \in keys : OperatorIn(k, WriteKeys)} = {}
        /\ {k \in keys : OperatorIn(k, JavascriptKeys \cup {"code", "codeWithScope"})} = {}
        /\ {k \in keys : OperatorIn(k, OwnedKeys)} = {}
    BY <2>2
  <2>10. {n \in DOMAIN tree : tree[n].kind = "named"} = {}
    BY <2>3
  <2>11. {c.method} \ {"find", "findOne", "aggregate", "countDocuments", "distinct"} = {}
    BY <2>4
  <2>12. CallRuns(c) =
            {<<"write", k[2]>> : k \in {x \in keys : OperatorIn(x, WriteKeys)}}
            \cup {<<"javascript", k[2]>> : k \in {x \in keys :
                    OperatorIn(x, JavascriptKeys \cup {"code", "codeWithScope"})}}
            \cup {<<"javascript", n>> : n \in {x \in DOMAIN tree : tree[x].kind = "named"}}
            \cup {<<"method", m>> : m \in {c.method} \ {"find", "findOne", "aggregate", "countDocuments", "distinct"}}
            \cup {<<"option", k[2]>> : k \in {x \in keys : OperatorIn(x, OwnedKeys)}}
            \cup {<<"elsewhere", n>> : n \in elsewhere}
            \cup {<<"catalog", k>> : k \in Catalogs \cap Collections(c)}
    BY DEF CallRuns
  <2> HIDE DEF keys, elsewhere
  <2> QED
    BY <2>7, <2>8, <2>9, <2>10, <2>11, <2>12
<1>2. Exchange => MongoOnlyReads
  <2> SUFFICES ASSUME Exchange, IsMongo, Sent PROVE CallRuns(ask) = {}
    BY DEF MongoOnlyReads
  <2>1. ask \in MongoCalls /\ verdict = Check(policy, ask) /\ verdict.why = {}
    BY DEF Exchange, Sent
  <2>2. WrittenCall(ask) /\ FirstRefusal(Parse(ask)) = {} /\ Walk(policy, ask) = {}
    BY <2>1, MongoAssumption DEF Check, Caught
  <2> QED
    BY <1>1, <2>2
<1> QED
    BY <1>2, ExchangeAlways, PTL

-----------------------------------------------------------------------------
(* SQL: sequences, one after another.                                          *)

Lists(seqs) == ListOf(seqs) /\ \A i \in DOMAIN seqs : ListOf(seqs[i])
Members(seqs) == UNION {ToSet(seqs[i]) : i \in DOMAIN seqs}

LEMMA ListShape ==
    ASSUME NEW s, ListOf(s)
    PROVE  /\ Len(s) \in Nat /\ DOMAIN s = 1 .. Len(s) /\ s = [i \in 1 .. Len(s) |-> s[i]]
           /\ s = << >> <=> Len(s) = 0
<1>1. s \in Seq(ToSet(s))
    BY DEF ListOf
<1> QED
    BY <1>1

LEMMA Listed ==
    ASSUME NEW s, NEW n \in Nat, s = [i \in 1 .. n |-> s[i]]
    PROVE  ListOf(s) /\ Len(s) = n /\ DOMAIN s = 1 .. n
<1>1. s \in [1 .. n -> ToSet(s)]
    BY DEF ToSet
<1>2. s \in Seq(ToSet(s))
    BY <1>1
<1> QED
    BY <1>2 DEF ListOf

LEMMA ListWithin ==
    ASSUME NEW S, NEW s \in Seq(S)
    PROVE  ListOf(s) /\ ToSet(s) \subseteq S
<1>1. s = [i \in 1 .. Len(s) |-> s[i]] /\ Len(s) \in Nat
    OBVIOUS
<1>2. ListOf(s)
    BY <1>1, Listed
<1> QED
    BY <1>2 DEF ToSet

\* FlattenSeq takes its argument piece by piece.
LEMMA FlattenUnfolds ==
    ASSUME NEW seqs, Lists(seqs), Len(seqs) # 0
    PROVE  \E h : /\ FlattenSeq(seqs) = h[Len(seqs)]
                  /\ \A i \in 1 .. Len(seqs) : h[i] = IF i = 1 THEN seqs[i] ELSE h[i - 1] \o seqs[i]
<1> DEFINE N    == Len(seqs)
           M    == Seq(Members(seqs))
           up   == [i \in 1 .. N |-> i - 1]
           base == [i \in 1 .. N |-> seqs[i]]
           step == [i \in 1 .. N |-> [before \in M |-> before \o seqs[i]]]
           Unfolds(h) == h = [i \in 1 .. Len(seqs) |-> IF i = 1 THEN seqs[i] ELSE h[i - 1] \o seqs[i]]
<1>1. N \in Nat /\ DOMAIN seqs = 1 .. N
    BY ListShape DEF Lists
<1>2. ASSUME NEW i \in 1 .. N PROVE seqs[i] \in M
  <2>1. seqs[i] \in Seq(ToSet(seqs[i]))
    BY <1>1 DEF Lists, ListOf
  <2>2. ToSet(seqs[i]) \subseteq Members(seqs)
    BY <1>1 DEF Members
  <2> QED
    BY <2>1, <2>2, SeqMonotonic
<1>3. IsTree(up, N)
    BY <1>1 DEF IsTree
<1>4. Stepping(base, step, N, M)
  <2>1. base \in [1 .. N -> M]
    BY <1>2
  <2>2. ASSUME NEW i \in 1 .. N PROVE [before \in M |-> before \o seqs[i]] \in [M -> M]
    <3>1. seqs[i] \in M
        BY <1>2
    <3> QED
        BY <3>1
  <2>3. step \in [1 .. N -> [M -> M]]
    BY <2>2
  <2> QED
    BY <2>1, <2>3 DEF Stepping
<1>5. PICK f \in [1 .. N -> M] :
            \A i \in 1 .. N : f[i] = IF up[i] = 0 THEN base[i] ELSE step[i][f[up[i]]]
  <2> HIDE DEF N, up, base, step, M
  <2> QED
    BY <1>3, <1>4, FunctionOnTree
<1>6. ASSUME NEW i \in 1 .. N PROVE f[i] = IF i = 1 THEN seqs[i] ELSE f[i - 1] \o seqs[i]
  <2>1. CASE i = 1
    <3>1. up[i] = 0 /\ base[i] = seqs[i]
        BY <1>1, <2>1
    <3> HIDE DEF up, base, step, M
    <3> QED
        BY <1>5, <2>1, <3>1
  <2>2. CASE i # 1
    <3>1. i - 1 \in 1 .. N /\ up[i] = i - 1 /\ up[i] # 0
        BY <1>1, <2>2
    <3>2. f[i - 1] \in M
        BY <3>1
    <3>3. f[i] = step[i][f[i - 1]]
        BY <1>5, <3>1
    <3> HIDE DEF M
    <3> QED
        BY <2>2, <3>2, <3>3
  <2> QED
    BY <2>1, <2>2
<1>7. Unfolds(f)
  <2> HIDE DEF M
  <2>1. f = [i \in 1 .. N |-> f[i]]
    BY <1>5
  <2> QED
    BY <1>6, <2>1
<1> DEFINE h == CHOOSE g : Unfolds(g)
<1>8. Unfolds(h)
  <2> HIDE DEF Unfolds
  <2> QED
    BY <1>7
<1>9. FlattenSeq(seqs) = h[N]
    BY DEF FlattenSeq
<1>10. \A i \in 1 .. N : h[i] = IF i = 1 THEN seqs[i] ELSE h[i - 1] \o seqs[i]
  <2> HIDE DEF h
  <2> QED
    BY <1>8
<1> HIDE DEF h
<1> QED
    BY <1>9, <1>10

\* And has their members.
LEMMA FlattenHolds ==
    ASSUME NEW seqs, Lists(seqs)
    PROVE  FlattenSeq(seqs) \in Seq(Members(seqs))
<1>1. CASE Len(seqs) = 0
  <2>1. seqs = << >>
    BY <1>1, ListShape DEF Lists
  <2>2. FlattenSeq(seqs) = << >>
    BY <2>1 DEF FlattenSeq
  <2> QED
    BY <2>2
<1>2. CASE Len(seqs) # 0
  <2> DEFINE N == Len(seqs)
             M == Seq(Members(seqs))
  <2>1. PICK h : /\ FlattenSeq(seqs) = h[N]
                 /\ \A i \in 1 .. N : h[i] = IF i = 1 THEN seqs[i] ELSE h[i - 1] \o seqs[i]
    BY <1>2, FlattenUnfolds
  <2>2. N \in Nat /\ N # 0 /\ DOMAIN seqs = 1 .. N
    BY <1>2, ListShape DEF Lists
  <2>3. ASSUME NEW i \in 1 .. N PROVE seqs[i] \in M
    <3>1. seqs[i] \in Seq(ToSet(seqs[i]))
        BY <2>2 DEF Lists, ListOf
    <3>2. ToSet(seqs[i]) \subseteq Members(seqs)
        BY <2>2 DEF Members
    <3> QED
        BY <3>1, <3>2, SeqMonotonic
  <2> DEFINE up == [i \in 1 .. N |-> i - 1]
  <2>4. IsTree(up, N)
    BY <2>2 DEF IsTree
  <2>5. \A i \in 1 .. N : up[i] = 0 => h[i] \in M
    BY <2>1, <2>2, <2>3
  <2>6. ASSUME NEW i \in 1 .. N, up[i] # 0, h[up[i]] \in M PROVE h[i] \in M
    <3>1. up[i] = i - 1 /\ i # 1
        BY <2>2, <2>6
    <3>2. h[i] = h[i - 1] \o seqs[i]
        BY <2>1, <3>1
    <3>3. seqs[i] \in M
        BY <2>3
    <3> QED
        BY <2>6, <3>1, <3>2, <3>3, ConcatProperties
  <2>7. h[N] \in M
    <3> HIDE DEF up, M
    <3>1. \A i \in 1 .. N : h[i] \in M
        BY <2>4, <2>5, <2>6, RangeOnTree
    <3> QED
        BY <2>2, <3>1
  <2> QED
    BY <2>1, <2>7
<1> QED
    BY <1>1, <1>2

\* Lists of one member each.
LEMMA FlattenSingles ==
    ASSUME NEW seqs, ListOf(seqs), NEW x, \A i \in DOMAIN seqs : seqs[i] = <<x[i]>>
    PROVE  FlattenSeq(seqs) = [i \in DOMAIN seqs |-> x[i]]
<1> DEFINE N == Len(seqs)
           Upto(k) == [i \in 1 .. k |-> x[i]]
<1>1. N \in Nat /\ DOMAIN seqs = 1 .. N
    BY ListShape
<1>2. Lists(seqs)
  <2>1. \A v : ListOf(<<v>>)
    BY DEF ListOf, ToSet
  <2> QED
    BY <2>1 DEF Lists
<1>3. CASE N = 0
  <2>1. seqs = << >>
    BY <1>3, ListShape
  <2> QED
    BY <2>1 DEF FlattenSeq
<1>4. CASE N # 0
  <2>1. PICK h : /\ FlattenSeq(seqs) = h[N]
                 /\ \A i \in 1 .. N : h[i] = IF i = 1 THEN seqs[i] ELSE h[i - 1] \o seqs[i]
    BY <1>2, <1>4, FlattenUnfolds
  <2> DEFINE up   == [i \in 1 .. N |-> i - 1]
             told == [i \in 1 .. N |-> h[i] = Upto(i)]
  <2>2. IsTree(up, N)
    BY <1>1 DEF IsTree
  <2>3. ASSUME NEW i \in 1 .. N, up[i] = 0 PROVE told[i] \in {TRUE}
    <3>1. i = 1
        BY <1>1, <2>3
    <3>2. h[1] = <<x[1]>>
        BY <1>1, <2>1, <3>1
    <3>3. Upto(1) = <<x[1]>>
        OBVIOUS
    <3> QED
        BY <3>1, <3>2, <3>3
  <2>4. ASSUME NEW i \in 1 .. N, up[i] # 0, told[up[i]] \in {TRUE} PROVE told[i] \in {TRUE}
    <3>1. i - 1 \in 1 .. N /\ up[i] = i - 1 /\ i # 1
        BY <1>1, <2>4
    <3>2. h[i] = Upto(i - 1) \o <<x[i]>>
        BY <1>1, <2>1, <2>4, <3>1
    <3>3. Upto(i - 1) \o <<x[i]>> = Upto(i)
        BY <1>1, <3>1
    <3> QED
        BY <3>2, <3>3
  <2>5. N \in 1 .. N
    BY <1>1, <1>4
  <2>6. told[N] \in {TRUE}
    <3> HIDE DEF N, up, told
    <3>1. \A i \in 1 .. N : told[i] \in {TRUE}
        BY <2>2, <2>3, <2>4, RangeOnTree
    <3> QED
        BY <2>5, <3>1
  <2>7. h[N] = Upto(N)
    <3>1. told[N] = (h[N] = Upto(N))
        BY <2>5
    <3> HIDE DEF N, told, Upto
    <3> QED
        BY <2>6, <3>1
  <2> QED
    BY <1>1, <2>1, <2>7
<1> QED
    BY <1>3, <1>4

-----------------------------------------------------------------------------
(* SQL: what a column may be computed from.                                    *)

Clean(p, from) == from \cap p.rules = {}

\* Net B would see where the column is from.
Hit(p, x) == x.origin.k = "table" /\ <<x.origin.t, x.origin.c>> \in p.rules

\* A column that may go out as far as net A can know: it holds nothing protected
\* or, where a view is not listed, a driver that resolves it tells net B.
Fine(p, d, x) ==
    \/ Clean(p, x.from)
    \/ ~ViewsListed(p) /\ (d = "resolves" => x.origin = Expression \/ Hit(p, x))

\* A column that net A knows by the name of its source and its own.
Guarded(p, n, x) ==
    /\ n.factor.k = "table" /\ RelationName(n.factor) # None
    /\ x.label \in ColumnsOf(p, RelationName(n.factor))
    /\ n.name # None /\ n.name \in {RelationName(n.factor), n.factor.alias}

SourceFine(p, d, n) ==
    /\ ListOf(n.columns)
    /\ \A x \in ToSet(n.columns) : Fine(p, d, x) \/ Guarded(p, n, x)

InScope(p, d, s, scope) ==
    /\ ListOf(scope)
    /\ \A n \in ToSet(scope) : n.factor \in AllFactors(s) /\ SourceFine(p, d, n)

InScopes(p, d, s, scopes) ==
    /\ ListOf(scopes)
    /\ \A i \in DOMAIN scopes : InScope(p, d, s, scopes[i])

LEMMA FineIsClean ==
    ASSUME NEW p, NEW d, ViewsListed(p), NEW X, \A x \in X : Fine(p, d, x)
    PROVE  Clean(p, UNION {x.from : x \in X})
BY DEF Fine, Clean

LEMMA CleanUnion ==
    ASSUME NEW p, NEW X, \A from \in X : Clean(p, from)
    PROVE  Clean(p, UNION X)
BY DEF Clean

\* A guarded column makes the scope of its factors active, and knows its names.
LEMMA GuardedInScope ==
    ASSUME NEW p, p.rules # {}, NEW factors, NEW bodies, NEW n, NEW x, n.factor \in factors, Guarded(p, n, x)
    PROVE  LET scope == Scope(p, factors, bodies)
           IN  Active(scope) /\ x.label \in scope.columns /\ n.name \in scope.handles
<1> DEFINE f == n.factor
           t == RelationName(n.factor)
           named   == {g \in factors : g.k = "table" /\ RelationName(g) # None}
           guarded == {g \in named : ProtectsTable(p, RelationName(g))}
           tables  == {RelationName(g) : g \in guarded} \cup {b \in bodies : ProtectsTable(p, b)}
           scope   == Scope(p, factors, bodies)
<1>1. ProtectsTable(p, t)
    BY DEF Guarded, ColumnsOf, ProtectsTable
<1>2. f \in guarded
    BY <1>1 DEF Guarded
<1>3. t \in tables
    BY <1>2
<1>4. /\ scope.columns = UNION {ColumnsOf(p, b) : b \in tables}
      /\ scope.handles = tables \cup ({g.alias : g \in guarded} \ {None})
    BY DEF Scope
<1>5. x.label \in scope.columns
  <2>1. x.label \in ColumnsOf(p, t)
    BY DEF Guarded
  <2> HIDE DEF tables, scope, t
  <2> QED
    BY <1>3, <1>4, <2>1
<1>6. n.name \in scope.handles
  <2>1. n.name # None /\ n.name \in {t, f.alias}
    BY DEF Guarded
  <2>2. f.alias \in {g.alias : g \in guarded}
    BY <1>2
  <2> HIDE DEF tables, scope, t, f, guarded
  <2> QED
    BY <1>3, <1>4, <2>1, <2>2
<1> HIDE DEF scope
<1> QED
    BY <1>5, <1>6 DEF Active, scope

LEMMA GuardedInStatement ==
    ASSUME NEW p, p.rules # {}, NEW d, NEW s, NEW scope, InScope(p, d, s, scope), NEW n \in ToSet(scope),
           NEW x \in ToSet(n.columns)
    PROVE  \/ Fine(p, d, x)
           \/ /\ Active(StatementScope(p, s)) /\ x.label \in StatementScope(p, s).columns
              /\ n.name \in StatementScope(p, s).handles
<1>1. n.factor \in AllFactors(s) /\ (Fine(p, d, x) \/ Guarded(p, n, x))
    BY DEF InScope, SourceFine
<1> QED
    BY <1>1, GuardedInScope DEF StatementScope

\* A row of columns, by a name that stands for no protected relation.
LEMMA RowFine ==
    ASSUME NEW p, p.rules # {}, NEW d, NEW s, NEW scopes, InScopes(p, d, s, scopes), NEW q
    PROVE  /\ ListOf(Row(scopes, q))
           /\ q \notin StatementScope(p, s).handles => \A x \in ToSet(Row(scopes, q)) : Fine(p, d, x)
<1> DEFINE sources == FlattenSeq(scopes)
           pieces  == [i \in DOMAIN sources |-> IF sources[i].name = q THEN sources[i].columns ELSE << >>]
<1>1. Lists(scopes)
    BY DEF Lists, InScopes, InScope
<1>2. sources \in Seq(Members(scopes))
    BY <1>1, FlattenHolds
<1>3. ListOf(sources) /\ ToSet(sources) \subseteq Members(scopes)
    BY <1>2, ListWithin
<1>4. ASSUME NEW i \in DOMAIN sources
      PROVE  \E scope : InScope(p, d, s, scope) /\ sources[i] \in ToSet(scope)
  <2>1. sources[i] \in Members(scopes)
    BY <1>3 DEF ToSet
  <2> HIDE DEF sources
  <2> QED
    BY <2>1 DEF Members, InScopes
<1>5. Lists(pieces)
  <2>1. DOMAIN sources = 1 .. Len(sources) /\ Len(sources) \in Nat
    BY <1>3, ListShape
  <2>2. ListOf(pieces) /\ DOMAIN pieces = DOMAIN sources
    <3> HIDE DEF sources
    <3> QED
        BY <2>1, Listed
  <2>3. ASSUME NEW i \in DOMAIN sources PROVE ListOf(pieces[i])
    <3>1. ListOf(sources[i].columns)
        BY <1>4 DEF InScope, SourceFine
    <3>2. ListOf(<< >>)
        BY DEF ListOf, ToSet
    <3> HIDE DEF sources
    <3> QED
        BY <3>1, <3>2
  <2> HIDE DEF pieces, sources
  <2> QED
    BY <2>2, <2>3 DEF Lists
<1>6. Row(scopes, q) = FlattenSeq(pieces)
    BY DEF Row
<1>7. ListOf(Row(scopes, q)) /\ ToSet(Row(scopes, q)) \subseteq Members(pieces)
  <2> HIDE DEF pieces
  <2> QED
    BY <1>5, <1>6, FlattenHolds, ListWithin
<1>8. ASSUME q \notin StatementScope(p, s).handles, NEW x \in ToSet(Row(scopes, q)) PROVE Fine(p, d, x)
  <2>1. x \in Members(pieces)
    BY <1>7
  <2>2. PICK i \in DOMAIN sources : x \in ToSet(pieces[i])
    <3>1. DOMAIN pieces = DOMAIN sources
        OBVIOUS
    <3> HIDE DEF pieces, sources
    <3> QED
        BY <2>1, <3>1 DEF Members
  <2>3. sources[i].name = q /\ x \in ToSet(sources[i].columns)
    <3>1. ToSet(<< >>) = {}
        BY DEF ToSet
    <3> HIDE DEF sources
    <3> QED
        BY <2>2, <3>1
  <2>4. PICK scope : InScope(p, d, s, scope) /\ sources[i] \in ToSet(scope)
    BY <1>4
  <2> HIDE DEF sources, pieces
  <2> QED
    BY <1>8, <2>3, <2>4, GuardedInStatement
<1> QED
    BY <1>7, <1>8

\* What a name means, where it is not that of a protected column.
LEMMA MeantFine ==
    ASSUME NEW p, p.rules # {}, NEW d, NEW s, NEW scopes, InScopes(p, d, s, scopes), NEW q, NEW c,
           \/ ~Active(StatementScope(p, s))
           \/ c \notin StatementScope(p, s).columns
           \/ q # None /\ q \notin StatementScope(p, s).handles,
           NEW x \in Meant(scopes, q, c)
    PROVE  Fine(p, d, x)
<1>1. PICK i \in DOMAIN scopes : x \in Hits(scopes[i], q, c)
    BY DEF Meant
<1>2. PICK n \in ToSet(scopes[i]) : x \in ToSet(n.columns) /\ q \in {None, n.name} /\ x.label = c
    BY <1>1 DEF Hits
<1>3. InScope(p, d, s, scopes[i])
    BY DEF InScopes
<1>4. \/ Fine(p, d, x)
      \/ /\ Active(StatementScope(p, s)) /\ x.label \in StatementScope(p, s).columns
         /\ n.name \in StatementScope(p, s).handles
    BY <1>2, <1>3, GuardedInStatement
<1> QED
    BY <1>2, <1>4

\* An expression net A passes, as a value.
LEMMA ColumnFine ==
    ASSUME NEW p, p.rules # {}, NEW d, NEW s, NEW scopes, InScopes(p, d, s, scopes),
           NEW e, e.k = "col", ~PiiExpr(StatementScope(p, s), e)
    PROVE  /\ \A x \in Meant(scopes, e.q, e.c) : Fine(p, d, x)
           /\ e.q = None => \A x \in ToSet(Row(scopes, e.c)) : Fine(p, d, x)
           /\ ViewsListed(p) => Clean(p, ColumnFrom(scopes, e))
<1> DEFINE scope == StatementScope(p, s)
           meant == Meant(scopes, e.q, e.c)
           X     == IF meant = {} /\ e.q = None THEN ToSet(Row(scopes, e.c)) ELSE meant
<1>1. \/ ~Active(scope)
      \/ e.q # None /\ e.q \notin scope.handles
      \/ e.c \notin scope.columns /\ e.c \notin scope.handles
    BY DEF PiiExpr, PrefixIsSafe
<1>2. \A x \in meant : Fine(p, d, x)
  <2> HIDE DEF scope, meant
  <2> QED
    BY <1>1, MeantFine DEF scope, meant
<1>3. ASSUME e.q = None PROVE \A x \in ToSet(Row(scopes, e.c)) : Fine(p, d, x)
  <2>1. e.c \notin scope.handles
    BY <1>1, <1>3 DEF Active
  <2> QED
    BY <2>1, RowFine
<1>4. \A x \in X : Fine(p, d, x)
    BY <1>2, <1>3
<1>5. ColumnFrom(scopes, e) = UNION {x.from : x \in X}
    BY DEF ColumnFrom
<1>6. ASSUME ViewsListed(p) PROVE Clean(p, ColumnFrom(scopes, e))
  <2> HIDE DEF X
  <2> QED
    BY <1>4, <1>5, <1>6, FineIsClean
<1> QED
    BY <1>2, <1>3, <1>6

\* A statement that layer 1 passes on a connection with rules, joins in
\* parentheses having no names.
Accepted(p, s) == p.rules # {} /\ ParsedSql(s) /\ Passes(p, s) /\ ~AliasedJoin(s)

LEMMA AcceptedFinds ==
    ASSUME NEW p, NEW s, Accepted(p, s)
    PROVE  LET scope == StatementScope(p, s)
           IN  /\ ~scope.renames /\ ~WildcardConflict(p, s) /\ ~OrderingConflict(p, s)
               /\ \A t \in TableBodies(s) : t \notin Sampling[p.engine] /\ ~ProtectsTable(p, t)
               /\ \A q \in Selects(s) : /\ ~StarExposes(p, scope, q)
                                        /\ \A level \in Levels(q) : ~JoinExposes(p, scope, level)
               /\ \A e \in JudgedExprs(p, s) : ~PiiExpr(scope, e)
               /\ \A e \in Calls(s) : ~ArgsExpose(scope, e.args)
               /\ \A f \in AllFactors(s) : f.k = "table" => RelationName(f) \notin Sampling[p.engine]
               /\ \A f \in SourceCalls(s) : ~ArgsExpose(scope, f.args)
               /\ \A q \in ToSet(s.queries) : q.body \in {"select", "table"}
<1> DEFINE scope == StatementScope(p, s)
<1>1. p.rules # {} /\ ParsedSql(s) /\ Passes(p, s)
    BY DEF Accepted
<1>2. /\ StatementObjections(s) = {} /\ QueryObjections(p, s) = {}
      /\ SelectObjections(p, s) = {} /\ ExprObjections(p, s) = {} /\ FactorObjections(p, s) = {}
      /\ \A q \in ToSet(s.queries) : q.body # "write"
    BY <1>1, WalkFinds DEF Passes
<1>3. ~scope.renames /\ ~WildcardConflict(p, s) /\ ~OrderingConflict(p, s)
    BY <1>1 DEF Passes
<1>4. \A t \in TableBodies(s) : t \notin Sampling[p.engine] /\ ~ProtectsTable(p, t)
    BY <1>1, <1>2 DEF QueryObjections, When
<1>5. \A q \in Selects(s) : /\ ~StarExposes(p, scope, q)
                            /\ \A level \in Levels(q) : ~JoinExposes(p, scope, level)
    BY <1>1, <1>2 DEF SelectObjections, When
<1>6. /\ \A e \in JudgedExprs(p, s) : ~PiiExpr(scope, e)
      /\ \A e \in Calls(s) : ~ArgsExpose(scope, e.args)
    BY <1>2 DEF ExprObjections, When
<1>7. /\ \A f \in AllFactors(s) : f.k = "table" => RelationName(f) \notin Sampling[p.engine]
      /\ \A f \in SourceCalls(s) : ~ArgsExpose(scope, f.args)
    BY <1>1, <1>2 DEF FactorObjections, When
<1>8. \A q \in ToSet(s.queries) : q.body \in {"select", "table"}
    BY <1>1, <1>2 DEF ParsedSql, Query
<1> HIDE DEF scope
<1> QED
    BY <1>3, <1>4, <1>5, <1>6, <1>7, <1>8 DEF scope

\* An expression that was judged, with all that is in it.
Judged(p, s, e) ==
    /\ Written(e)
    /\ \A x \in Within(e) : ~PiiExpr(StatementScope(p, s), x)
    /\ e.k = "call" => ~ArgsExpose(StatementScope(p, s), e.args)

ArgsJudged(p, s, args) ==
    /\ Given(args)
    /\ \A e \in Inner(args) : ~PiiExpr(StatementScope(p, s), e)
    /\ ~ArgsExpose(StatementScope(p, s), args)

LEMMA ArgsClean ==
    ASSUME NEW p, p.rules # {}, NEW d, NEW s, NEW scopes, InScopes(p, d, s, scopes), ViewsListed(p),
           NEW args, ArgsJudged(p, s, args)
    PROVE  Clean(p, UNION {ArgFrom(scopes, a) : a \in ToSet(args)})
<1> DEFINE scope == StatementScope(p, s)
<1>1. ASSUME NEW a \in ToSet(args) PROVE Clean(p, ArgFrom(scopes, a))
  <2>1. CASE a.k = "star"
    BY <2>1 DEF ArgFrom, Clean
  <2>2. CASE a.k = "qstar"
    <3>1. a.q \notin scope.handles
        BY <2>2 DEF ArgsJudged, ArgsExpose, QualifiedStarIsSafe, PrefixIsSafe, Active
    <3>2. \A x \in ToSet(Row(scopes, a.q)) : Fine(p, d, x)
        BY <3>1, RowFine
    <3>3. Clean(p, UNION {x.from : x \in ToSet(Row(scopes, a.q))})
        BY <3>2, FineIsClean
    <3>4. ArgFrom(scopes, a) = Froms(Row(scopes, a.q))
        BY <2>2 DEF ArgFrom
    <3> QED
        BY <3>3, <3>4 DEF Froms
  <2>3. CASE a.k = "arg" /\ a.e.k = "col"
    <3>1. a.e \in Inner(args)
        BY <2>3 DEF Inner
    <3>2. Clean(p, ColumnFrom(scopes, a.e))
        BY <2>3, <3>1, ColumnFine DEF ArgsJudged
    <3> QED
        BY <2>3, <3>2 DEF ArgFrom
  <2>4. CASE a.k = "arg" /\ a.e.k # "col"
    BY <2>4 DEF ArgFrom, Clean
  <2> QED
    BY <2>1, <2>2, <2>3, <2>4 DEF ArgsJudged, Given
<1>2. \A from \in {ArgFrom(scopes, a) : a \in ToSet(args)} : Clean(p, from)
    BY <1>1
<1> QED
    BY <1>2, CleanUnion

LEMMA FromClean ==
    ASSUME NEW p, p.rules # {}, NEW d, NEW s, NEW scopes, InScopes(p, d, s, scopes), ViewsListed(p),
           NEW sub, Clean(p, sub), NEW e, Judged(p, s, e)
    PROVE  Clean(p, From(scopes, sub, e))
<1>1. CASE e.k = "col"
  <2>1. ~PiiExpr(StatementScope(p, s), e)
    BY DEF Judged, Within
  <2> QED
    BY <1>1, <2>1, ColumnFine DEF From
<1>2. CASE e.k = "call"
  <2>1. ArgsJudged(p, s, e.args)
    BY <1>2 DEF Judged, ArgsJudged, Written, Within
  <2>2. Clean(p, UNION {ArgFrom(scopes, a) : a \in ToSet(e.args)})
    BY <2>1, ArgsClean
  <2> QED
    BY <1>2, <2>2 DEF From
<1>3. CASE e.k = "sub"
    BY <1>3 DEF From
<1>4. CASE e.k = "ordinal"
    BY <1>4 DEF From, Clean
<1> QED
    BY <1>1, <1>2, <1>3, <1>4 DEF Judged, Written

\* What is judged of a statement: everything but the items that are masked.
LEMMA ExprIsJudged ==
    ASSUME NEW p, NEW s, Accepted(p, s), NEW i \in DOMAIN s.queries, NEW e, Written(e),
           \/ e \in s.queries[i].where
           \/ e \in ToSet(s.queries[i].group)
           \/ e \in ToSet(s.queries[i].order)
           \/ \E f \in Factors(s.queries[i]) : e \in f.on \cup Inner(f.args)
           \/ \E j \in DOMAIN s.queries[i].items :
                  /\ s.queries[i].items[j].k = "item" /\ e = s.queries[i].items[j].e
                  /\ i = 1 => j \notin Maskable(p, s)
    PROVE  Judged(p, s, e)
<1> DEFINE q == s.queries[i]
           kept == IF i = 1 THEN DOMAIN q.items \ Maskable(p, s) ELSE DOMAIN q.items
           tops(indexes) == {q.items[j].e : j \in {x \in indexes : q.items[x].k = "item"}}
                            \cup q.where \cup ToSet(q.group) \cup ToSet(q.order)
                            \cup UNION {f.on \cup Inner(f.args) : f \in Factors(q)}
<1>1. e \in tops(kept)
    OBVIOUS
<1>2. tops(kept) \subseteq tops(DOMAIN q.items)
    OBVIOUS
<1>3. \A indexes : ExprsOver(q, indexes) = UNION {Within(x) : x \in tops(indexes)}
    BY DEF ExprsOver
<1>4. Within(e) \subseteq ExprsOver(q, kept) /\ Within(e) \subseteq Exprs(q)
  <2> HIDE DEF tops, kept, q
  <2> QED
    BY <1>1, <1>2, <1>3 DEF Exprs
<1>5. ExprsOver(q, kept) \subseteq JudgedExprs(p, s)
    BY DEF JudgedExprs, Exprs
<1>6. Exprs(q) \subseteq AllExprs(s)
    BY DEF AllExprs, ToSet
<1>7. \A x \in Within(e) : ~PiiExpr(StatementScope(p, s), x)
  <2> HIDE DEF q, kept
  <2> QED
    BY <1>4, <1>5, AcceptedFinds
<1>8. ASSUME e.k = "call" PROVE ~ArgsExpose(StatementScope(p, s), e.args)
  <2>1. e \in Calls(s)
    <3> HIDE DEF q, kept
    <3> QED
        BY <1>4, <1>6, <1>8 DEF Within, Calls
  <2> QED
    BY <2>1, AcceptedFinds
<1> QED
    BY <1>7, <1>8 DEF Judged

-----------------------------------------------------------------------------
(* SQL: the sources of a query.                                                *)

\* Columns of which none is a secret, by whatever name they are known.
AllFine(p, d, columns) == ListOf(columns) /\ \A x \in ToSet(columns) : Fine(p, d, x)

LEMMA NothingFine ==
    ASSUME NEW p, NEW d
    PROVE  AllFine(p, d, << >>)
BY DEF AllFine, ListOf, ToSet

LEMMA ViewFine ==
    ASSUME NEW p, NEW d \in Drivers, NEW v \in DOMAIN Views, NEW i \in DOMAIN Views[v]
    PROVE  LET x == ViewColumn(d, v, Views[v][i])
           IN  Fine(p, d, x) \/ x.label \in ColumnsOf(p, v)
<1> DEFINE y == Views[v][i]
           x == ViewColumn(d, v, y)
<1>1. x.label = y.label /\ x.from = {<<v, y.label>>, <<y.t, y.c>>}
    BY DEF ViewColumn
<1>2. d = "resolves" => x.origin = [k |-> "table", t |-> y.t, c |-> y.c]
    BY DEF ViewColumn
<1>3. CASE <<v, y.label>> \in p.rules
  <2>1. y.label \in ColumnsOf(p, v)
    BY <1>3 DEF ColumnsOf
  <2> QED
    BY <1>1, <2>1
<1>4. CASE <<v, y.label>> \notin p.rules /\ <<y.t, y.c>> \in p.rules
  <2>1. ~ViewsListed(p)
    BY <1>4 DEF ViewsListed
  <2>2. d = "resolves" => Hit(p, x)
    BY <1>2, <1>4 DEF Hit
  <2> QED
    BY <2>1, <2>2 DEF Fine
<1>5. CASE <<v, y.label>> \notin p.rules /\ <<y.t, y.c>> \notin p.rules
  <2>1. Clean(p, x.from)
    BY <1>1, <1>5 DEF Clean
  <2> QED
    BY <2>1 DEF Fine
<1> QED
    BY <1>3, <1>4, <1>5

\* A relation gives what it has under names the policy may list.
LEMMA RelationFine ==
    ASSUME NEW p, NEW d \in Drivers, NEW t, t \notin Sampling[p.engine]
    PROVE  /\ ListOf(Relation(p, d, t))
           /\ \A x \in ToSet(Relation(p, d, t)) : Fine(p, d, x) \/ x.label \in ColumnsOf(p, t)
<1> DEFINE columns == Relation(p, d, t)
<1>1. CASE t \in DOMAIN Views
  <2>1. columns = [i \in DOMAIN Views[t] |-> ViewColumn(d, t, Views[t][i])]
    BY <1>1 DEF Relation
  <2>2. ListOf(Views[t])
    BY <1>1, SqlAssumption
  <2>3. DOMAIN Views[t] = 1 .. Len(Views[t]) /\ Len(Views[t]) \in Nat
    BY <2>2, ListShape
  <2>4. ListOf(columns)
    BY <2>1, <2>3, Listed
  <2>5. \A x \in ToSet(columns) : Fine(p, d, x) \/ x.label \in ColumnsOf(p, t)
    BY <1>1, <2>1, ViewFine DEF ToSet
  <2> QED
    BY <2>4, <2>5
<1>2. CASE t \notin DOMAIN Views /\ t \in DOMAIN Tables
  <2>1. columns = [i \in DOMAIN Tables[t] |-> BaseColumn(t, Tables[t][i])]
    BY <1>2 DEF Relation
  <2>2. ListOf(Tables[t])
    BY <1>2, SqlAssumption
  <2>3. DOMAIN Tables[t] = 1 .. Len(Tables[t]) /\ Len(Tables[t]) \in Nat
    BY <2>2, ListShape
  <2>4. ListOf(columns)
    BY <2>1, <2>3, Listed
  <2>5. ASSUME NEW i \in DOMAIN Tables[t]
        PROVE  LET x == BaseColumn(t, Tables[t][i]) IN Fine(p, d, x) \/ x.label \in ColumnsOf(p, t)
    <3> DEFINE c == Tables[t][i]
               x == BaseColumn(t, c)
    <3>1. x.label = c /\ x.from = {<<t, c>>}
        BY DEF BaseColumn
    <3>2. CASE <<t, c>> \in p.rules
      <4>1. c \in ColumnsOf(p, t)
        BY <3>2 DEF ColumnsOf
      <4> QED
        BY <3>1, <4>1
    <3>3. CASE <<t, c>> \notin p.rules
        BY <3>1, <3>3 DEF Fine, Clean
    <3> QED
        BY <3>2, <3>3
  <2>6. \A x \in ToSet(columns) : Fine(p, d, x) \/ x.label \in ColumnsOf(p, t)
    BY <2>1, <2>5 DEF ToSet
  <2> QED
    BY <2>4, <2>6
<1>3. CASE t \notin DOMAIN Views /\ t \notin DOMAIN Tables
  <2>1. columns = << >>
    BY <1>3 DEF Relation
  <2> HIDE DEF columns
  <2> QED
    BY <2>1, NothingFine DEF AllFine, ToSet, columns
<1> QED
    BY <1>1, <1>2, <1>3

LEMMA KnownFine ==
    ASSUME NEW p, NEW d \in Drivers, NEW s, NEW inner, AllFine(p, d, inner), NEW t, t \notin Sampling[p.engine]
    PROVE  /\ ListOf(Known(p, d, s, inner, t))
           /\ \A x \in ToSet(Known(p, d, s, inner, t)) : Fine(p, d, x) \/ x.label \in ColumnsOf(p, t)
BY RelationFine DEF Known, AllFine

\* A column that is computed of what may be seen may be seen.
LEMMA ComputedFine ==
    ASSUME NEW p, NEW d, NEW label, NEW from, ViewsListed(p) => Clean(p, from)
    PROVE  Fine(p, d, Computed(label, from)) /\ AllFine(p, d, <<Computed(label, from)>>)
<1> DEFINE x == Computed(label, from)
<1>1. x.from = from /\ x.origin = Expression
    BY DEF Computed
<1>2. Fine(p, d, x)
    BY <1>1 DEF Fine
<1>3. ListOf(<<x>>) /\ ToSet(<<x>>) = {x}
  <2> HIDE DEF x
  <2> QED
    BY DEF ListOf, ToSet
<1> HIDE DEF x
<1>4. AllFine(p, d, <<x>>)
    BY <1>2, <1>3 DEF AllFine
<1> QED
    BY <1>2, <1>4 DEF x

LEMMA CalledFine ==
    ASSUME NEW p, NEW d, NEW x, Fine(p, d, x), NEW label
    PROVE  Fine(p, d, Called(x, label))
BY DEF Fine, Called, Hit

\* The factors of a query are those of a select, as the parser hands them over.
LEMMA FactorsOfSelects ==
    ASSUME NEW s, ParsedSql(s), NEW i \in DOMAIN s.queries, NEW level \in Levels(s.queries[i]), NEW f \in ToSet(level)
    PROVE  /\ s.queries[i] \in Selects(s) /\ f \in AllFactors(s) /\ f \in Factors(s.queries[i])
           /\ Level(level) /\ Given(f.args) /\ \A e \in f.on : Written(e)
           /\ f.k \in {"table", "function", "derived", "nested"}
<1> DEFINE q == s.queries[i]
<1>1. q \in ToSet(s.queries) /\ Query(q)
    BY DEF ParsedSql, ToSet
<1>2. q.body = "select"
  <2> SUFFICES ASSUME q.body # "select" PROVE FALSE
    OBVIOUS
  <2>1. q.from = << >>
    BY <1>1 DEF Query
  <2>2. ToSet(q.from) = {}
    BY <2>1 DEF ToSet
  <2> QED
    BY <2>1, <2>2 DEF Levels
<1>3. Level(level) /\ f.k \in {"table", "function", "derived", "nested"}
  <2>1. CASE level = q.from
    BY <1>1, <2>1 DEF Query
  <2>2. CASE \E g \in ToSet(q.from) : g.k = "nested" /\ level = g.inner
    BY <1>1, <2>2 DEF Query
  <2> QED
    BY <2>1, <2>2 DEF Levels
<1>4. f \in Factors(q)
    BY DEF Factors
<1>5. q \in Selects(s)
    BY <1>1, <1>2 DEF Selects
<1>6. f \in AllFactors(s)
    BY <1>4, <1>5 DEF AllFactors
<1> QED
    BY <1>3, <1>4, <1>5, <1>6 DEF Level

LEMMA InnerIsWritten ==
    ASSUME NEW args, Given(args), NEW e \in Inner(args)
    PROVE  Written(e)
<1>1. PICK a \in ToSet(args) : a.k = "arg" /\ e = a.e
    BY DEF Inner
<1>2. \/ e.k \in {"col", "ordinal"}
      \/ e.k = "call" /\ e.args = << >>
    BY <1>1 DEF Given
<1>3. Given(<< >>)
    BY DEF Given, ToSet
<1> QED
    BY <1>2, <1>3 DEF Written

\* What stands in a FROM and is not a function is a relation net A has a name for.
LEMMA TableIsNamed ==
    ASSUME NEW p, NEW s, Accepted(p, s), NEW f \in AllFactors(s), f.k = "table", ~f.call
    PROVE  RelationName(f) # None
<1>1. ~StatementScope(p, s).unresolved
    BY DEF Accepted, Passes
<1>2. p.rules # {}
    BY DEF Accepted
<1>3. StatementScope(p, s).unresolved =
          \E g \in AllFactors(s) \ {h \in AllFactors(s) : h.k = "table" /\ RelationName(h) # None} :
              g.k = "table" /\ ~g.call
    BY <1>2 DEF StatementScope, Scope
<1> QED
    BY <1>1, <1>3

\* A relation with protected columns keeps their names.
LEMMA GuardedKeepsNames ==
    ASSUME NEW p, NEW s, Accepted(p, s), NEW f \in AllFactors(s), f.k = "table", RelationName(f) # None,
           ProtectsTable(p, RelationName(f))
    PROVE  ~f.renames
<1>1. ~StatementScope(p, s).renames
    BY AcceptedFinds
<1>2. p.rules # {}
    BY DEF Accepted
<1> DEFINE named == {g \in AllFactors(s) : g.k = "table" /\ RelationName(g) # None}
<1>3. StatementScope(p, s).renames = \E g \in {h \in named : ProtectsTable(p, RelationName(h))} : g.renames
    BY <1>2 DEF StatementScope, Scope
<1> QED
    BY <1>1, <1>3

LEMMA SourceIsFine ==
    ASSUME NEW p, NEW s, Accepted(p, s), NEW d \in Drivers, NEW i \in DOMAIN s.queries,
           NEW level \in Levels(s.queries[i]), NEW f \in ToSet(level), f.k # "nested",
           NEW inner, AllFine(p, d, inner), NEW scopes, InScopes(p, d, s, scopes),
           NEW place, place.factor = f, place.around = None
    PROVE  LET n == Source(p, d, s, inner, scopes, place)
           IN  n.factor = f /\ SourceFine(p, d, n)
<1> DEFINE n       == Source(p, d, s, inner, scopes, place)
           columns == SourceColumns(p, d, s, inner, scopes, f)
           t       == RelationName(f)
           scope   == StatementScope(p, s)
           secret(x) == f.k = "table" /\ t # None /\ x.label \in ColumnsOf(p, t)
<1>1. n.factor = f /\ n.name = NameOf(f) /\ n.columns = Labelled(f, columns)
    BY DEF Source
<1>2. p.rules # {} /\ ParsedSql(s)
    BY DEF Accepted
<1>3. /\ s.queries[i] \in Selects(s) /\ f \in AllFactors(s) /\ f \in Factors(s.queries[i])
      /\ Level(level) /\ Given(f.args)
      /\ f.k \in {"table", "function", "derived", "nested"}
    BY <1>2, FactorsOfSelects
<1>4. ListOf(columns) /\ \A x \in ToSet(columns) : Fine(p, d, x) \/ secret(x)
  <2>1. CASE f.k = "derived"
    <3>1. columns = inner
        BY <2>1 DEF SourceColumns
    <3> HIDE DEF columns
    <3> QED
        BY <3>1 DEF AllFine
  <2>2. CASE f.k # "derived" /\ IsCall(f)
    <3>1. f \in SourceCalls(s)
        BY <1>3, <2>2, TableIsNamed DEF SourceCalls, IsCall
    <3>2. ~ArgsExpose(scope, f.args)
        BY <3>1, AcceptedFinds
    <3>3. ASSUME NEW e \in Inner(f.args) PROVE ~PiiExpr(scope, e)
      <4>1. Written(e)
        BY <1>3, InnerIsWritten
      <4>2. Judged(p, s, e)
        BY <1>3, <4>1, ExprIsJudged
      <4> QED
        BY <4>2 DEF Judged, Within
    <3>4. ArgsJudged(p, s, f.args)
        BY <1>3, <3>2, <3>3 DEF ArgsJudged
    <3> DEFINE from == UNION {ArgFrom(scopes, a) : a \in ToSet(f.args)}
    <3>5. ViewsListed(p) => Clean(p, from)
        BY <1>2, <3>4, ArgsClean
    <3>6. columns = <<Computed(f.name, from)>>
        BY <2>2 DEF SourceColumns
    <3> HIDE DEF columns, from
    <3> QED
        BY <3>5, <3>6, ComputedFine DEF AllFine
  <2>3. CASE f.k # "derived" /\ ~IsCall(f) /\ f.op = "array" /\ ~f.call
    <3>1. f.k = "table"
        BY <1>3, <2>3 DEF IsCall
    <3>2. PICK j \in DOMAIN level : level[j] = f
        BY DEF ToSet
    <3>3. j \in 2 .. Len(level)
      <4>1. ListOf(level) /\ (level # << >> => level[1].op \notin {"using", "natural", "array"})
        BY <1>3 DEF Level
      <4>2. DOMAIN level = 1 .. Len(level) /\ Len(level) \in Nat /\ level # << >>
        BY <3>2, <4>1, ListShape
      <4>3. j # 1
        BY <2>3, <3>2, <4>1, <4>2
      <4> QED
        BY <4>2, <4>3
    <3>4. ~JoinExposes(p, scope, level)
        BY <1>3, AcceptedFinds
    <3>5. f.name \notin scope.columns
        BY <2>3, <3>1, <3>2, <3>3, <3>4 DEF JoinExposes
    <3> DEFINE meant == Meant(scopes, None, f.name)
               from  == UNION {x.from : x \in meant}
    <3>6. \A x \in meant : Fine(p, d, x)
        BY <1>2, <3>5, MeantFine
    <3>7. ViewsListed(p) => Clean(p, from)
        BY <3>6, FineIsClean
    <3>8. columns = <<Computed(f.name, from)>>
        BY <2>3 DEF SourceColumns
    <3> HIDE DEF columns, from
    <3> QED
        BY <3>7, <3>8, ComputedFine DEF AllFine
  <2>4. CASE f.k # "derived" /\ ~IsCall(f) /\ ~(f.op = "array" /\ ~f.call)
    <3>1. f.k = "table" /\ t # None
        BY <1>3, <2>4 DEF IsCall
    <3>2. t \notin Sampling[p.engine]
        BY <1>3, <3>1, AcceptedFinds
    <3>3. columns = Known(p, d, s, inner, t)
        BY <2>4 DEF SourceColumns
    <3> HIDE DEF columns, t
    <3> QED
        BY <3>1, <3>2, <3>3, KnownFine
  <2> QED
    BY <2>1, <2>2, <2>3, <2>4
<1>5. f.renames => \A x \in ToSet(columns) : Fine(p, d, x)
  <2> SUFFICES ASSUME f.renames, NEW x \in ToSet(columns), secret(x) PROVE FALSE
    BY <1>4
  <2>1. ProtectsTable(p, t)
    BY DEF ColumnsOf, ProtectsTable
  <2> QED
    BY <1>3, <2>1, GuardedKeepsNames
<1>6. SourceFine(p, d, n)
  <2>1. CASE f.renames
    <3>1. n.columns = [k \in DOMAIN columns |-> Called(columns[k], "renamed")]
        BY <1>1, <2>1 DEF Labelled
    <3>2. DOMAIN columns = 1 .. Len(columns) /\ Len(columns) \in Nat
        BY <1>4, ListShape
    <3>3. ListOf(n.columns)
      <4> HIDE DEF n, columns
      <4> QED
        BY <3>1, <3>2, Listed
    <3>4. \A x \in ToSet(n.columns) : Fine(p, d, x)
      <4> HIDE DEF n, columns
      <4> QED
        BY <1>5, <2>1, <3>1, CalledFine DEF ToSet
    <3> HIDE DEF n
    <3> QED
        BY <3>3, <3>4 DEF SourceFine
  <2>2. CASE ~f.renames
    <3>1. n.columns = columns
        BY <1>1, <2>2 DEF Labelled
    <3>2. t # None => NameOf(f) # None /\ NameOf(f) \in {t, f.alias}
        BY DEF NameOf
    <3>3. ASSUME NEW x \in ToSet(n.columns) PROVE Fine(p, d, x) \/ Guarded(p, n, x)
      <4>1. Fine(p, d, x) \/ secret(x)
        BY <1>4, <3>1, <3>3
      <4> HIDE DEF n
      <4> QED
        BY <1>1, <3>2, <4>1 DEF Guarded
    <3> HIDE DEF n, columns
    <3> QED
        BY <1>4, <3>1, <3>3 DEF SourceFine
  <2> QED
    BY <2>1, <2>2
<1> HIDE DEF n
<1> QED
    BY <1>1, <1>6 DEF n

\* The places of a FROM, where no parenthesised join has a name.
Placed(s, i, place) ==
    /\ place.around = None /\ place.factor.k # "nested"
    /\ place.factor \in Inside(s.queries[i].from)
    /\ \E level \in Levels(s.queries[i]) : place.factor \in ToSet(level)

LEMMA LaidFine ==
    ASSUME NEW p, NEW s, Accepted(p, s), NEW i \in DOMAIN s.queries
    PROVE  LET places == Laid(s.queries[i].from)
           IN  ListOf(places) /\ \A place \in ToSet(places) : Placed(s, i, place)
<1> DEFINE q == s.queries[i]
           level == q.from
           inside(g) == [j \in DOMAIN g.inner |-> [factor |-> g.inner[j], around |-> g.alias]]
           alone(g) == <<[factor |-> g, around |-> None]>>
           pieces == [k \in DOMAIN level |-> IF level[k].k = "nested" THEN inside(level[k]) ELSE alone(level[k])]
<1>1. ParsedSql(s) /\ ~AliasedJoin(s)
    BY DEF Accepted
<1>2. q \in ToSet(s.queries) /\ Query(q)
    BY <1>1 DEF ParsedSql, ToSet
<1>3. ListOf(level) /\ DOMAIN level = 1 .. Len(level) /\ Len(level) \in Nat
    BY <1>2, ListShape DEF Query, Level
<1>4. ASSUME NEW k \in DOMAIN level
      PROVE  ListOf(pieces[k]) /\ \A place \in ToSet(pieces[k]) : Placed(s, i, place)
  <2> DEFINE g == level[k]
  <2>1. g \in ToSet(level)
    BY DEF ToSet
  <2>2. level \in Levels(q)
    BY DEF Levels
  <2>3. g \in Inside(level)
    BY <2>1 DEF Inside
  <2>4. CASE g.k = "nested"
    <3>1. g \in AllFactors(s)
        BY <1>1, <2>1, <2>2, FactorsOfSelects
    <3>2. g.alias = None
        BY <1>1, <2>4, <3>1 DEF AliasedJoin
    <3>3. Level(g.inner) /\ \A x \in ToSet(g.inner) : x.k \in {"table", "function", "derived"}
        BY <1>2, <2>1, <2>4 DEF Query
    <3>4. g.inner \in Levels(q)
        BY <2>1, <2>4 DEF Levels
    <3>5. DOMAIN g.inner = 1 .. Len(g.inner) /\ Len(g.inner) \in Nat
        BY <3>3, ListShape DEF Level
    <3>6. pieces[k] = inside(g)
        BY <2>4
    <3>7. ListOf(inside(g))
      <4> HIDE DEF g
      <4> QED
        BY <3>5, Listed
    <3>8. ASSUME NEW place \in ToSet(inside(g)) PROVE Placed(s, i, place)
      <4>1. PICK j \in DOMAIN g.inner : place = [factor |-> g.inner[j], around |-> g.alias]
        BY DEF ToSet
      <4>2. g.inner[j] \in ToSet(g.inner)
        BY DEF ToSet
      <4>3. g.inner[j] \in Inside(level)
        BY <2>1, <4>2 DEF Inside
      <4>4. g.inner[j].k # "nested"
        BY <3>3, <4>2
      <4>5. place.factor = g.inner[j] /\ place.around = None
        BY <3>2, <4>1
      <4> QED
        BY <3>4, <4>2, <4>3, <4>4, <4>5 DEF Placed
    <3> HIDE DEF pieces, inside
    <3> QED
        BY <3>6, <3>7, <3>8
  <2>5. CASE g.k # "nested"
    <3> DEFINE place == [factor |-> g, around |-> None]
    <3>1. pieces[k] = <<place>>
        BY <2>5
    <3>2. Placed(s, i, place)
        BY <2>1, <2>2, <2>3, <2>5 DEF Placed
    <3> HIDE DEF pieces, place
    <3>3. ListOf(<<place>>) /\ ToSet(<<place>>) = {place}
        BY DEF ListOf, ToSet
    <3> QED
        BY <3>1, <3>2, <3>3
  <2> QED
    BY <2>4, <2>5
<1>5. Lists(pieces) /\ DOMAIN pieces = DOMAIN level
  <2>1. DOMAIN pieces = DOMAIN level
    OBVIOUS
  <2>2. pieces = [k \in 1 .. Len(level) |-> pieces[k]]
    BY <1>3
  <2>3. ListOf(pieces)
    <3> HIDE DEF pieces
    <3> QED
        BY <1>3, <2>2, Listed
  <2> HIDE DEF pieces
  <2> QED
    BY <1>4, <2>1, <2>3 DEF Lists
<1>6. Laid(level) = FlattenSeq(pieces)
    BY DEF Laid
<1>7. ListOf(Laid(level)) /\ ToSet(Laid(level)) \subseteq Members(pieces)
  <2> HIDE DEF pieces
  <2> QED
    BY <1>5, <1>6, FlattenHolds, ListWithin
<1>8. \A place \in Members(pieces) : Placed(s, i, place)
  <2> HIDE DEF pieces
  <2> QED
    BY <1>4, <1>5 DEF Members
<1> QED
    BY <1>7, <1>8

\* An inner scope before the outer ones.
LEMMA InnerScope ==
    ASSUME NEW p, NEW d, NEW s, NEW scope, InScope(p, d, s, scope), NEW outer, InScopes(p, d, s, outer)
    PROVE  LET scopes == <<scope>> \o outer
           IN  InScopes(p, d, s, scopes) /\ 1 \in DOMAIN scopes /\ scopes[1] = scope /\ Head(scopes) = scope
<1> DEFINE scopes == <<scope>> \o outer
           S == {scope} \cup ToSet(outer)
<1>1. outer \in Seq(ToSet(outer))
    BY DEF InScopes, ListOf
<1>2. outer \in Seq(S) /\ <<scope>> \in Seq(S)
    BY <1>1
<1>3. scopes \in Seq(S) /\ Len(scopes) = Len(outer) + 1 /\ scopes[1] = scope /\ Head(scopes) = scope
    BY <1>2
<1>4. ListOf(scopes) /\ DOMAIN scopes = 1 .. Len(scopes) /\ Len(outer) \in Nat
    BY <1>2, <1>3, ListWithin, ListShape
<1>5. \A x \in S : InScope(p, d, s, x)
    BY DEF InScopes, ToSet
<1>6. \A k \in DOMAIN scopes : scopes[k] \in S
    BY <1>3
<1> HIDE DEF scopes, S
<1> QED
    BY <1>3, <1>4, <1>5, <1>6 DEF InScopes, scopes

\* The sources of a FROM, as those to their right see them.
Brought(p, d, s, i, scope) ==
    /\ InScope(p, d, s, scope)
    /\ \A n \in ToSet(scope) : n.factor \in Inside(s.queries[i].from)

LEMMA BroughtGrows ==
    ASSUME NEW p, NEW s, Accepted(p, s), NEW d \in Drivers, NEW i \in DOMAIN s.queries,
           NEW inner, AllFine(p, d, inner), NEW outer, InScopes(p, d, s, outer),
           NEW scope, Brought(p, d, s, i, scope), NEW place, Placed(s, i, place)
    PROVE  Brought(p, d, s, i, Append(scope, Source(p, d, s, inner, <<scope>> \o outer, place)))
<1> DEFINE scopes == <<scope>> \o outer
           n      == Source(p, d, s, inner, scopes, place)
           more   == Append(scope, n)
<1>1. InScopes(p, d, s, scopes)
    BY InnerScope DEF Brought
<1>2. PICK level \in Levels(s.queries[i]) : place.factor \in ToSet(level)
    BY DEF Placed
<1>3. n.factor = place.factor /\ SourceFine(p, d, n)
  <2> HIDE DEF scopes
  <2> QED
    BY <1>1, <1>2, SourceIsFine DEF Placed
<1>4. n.factor \in AllFactors(s) /\ n.factor \in Inside(s.queries[i].from)
  <2> HIDE DEF n
  <2> QED
    BY <1>2, <1>3, FactorsOfSelects DEF Placed, Accepted
<1> HIDE DEF n
<1>5. scope \in Seq(ToSet(scope))
    BY DEF Brought, InScope, ListOf
<1>6. more \in Seq(ToSet(scope) \cup {n})
    BY <1>5
<1>7. ListOf(more) /\ ToSet(more) \subseteq ToSet(scope) \cup {n}
  <2> HIDE DEF more
  <2> QED
    BY <1>6, ListWithin
<1> HIDE DEF more
<1>8. Brought(p, d, s, i, more)
    BY <1>3, <1>4, <1>7 DEF Brought, InScope
<1> QED
    BY <1>8 DEF more, n

LEMMA SourcesBrought ==
    ASSUME NEW p, NEW s, Accepted(p, s), NEW d \in Drivers, NEW i \in DOMAIN s.queries,
           NEW inner, AllFine(p, d, inner), NEW outer, InScopes(p, d, s, outer)
    PROVE  Brought(p, d, s, i, Sources(p, d, s, s.queries[i].from, inner, outer))
<1> DEFINE places == Laid(s.queries[i].from)
           N == Len(places)
           grown(scope, n) == Append(scope, Source(p, d, s, inner, <<scope>> \o outer, places[n]))
           Upto(m, g) == g = [n \in 0 .. m |-> IF n = 0 THEN << >> ELSE grown(g[n - 1], n)]
           seen == CHOOSE g : Upto(N, g)
<1>1. ListOf(places) /\ \A place \in ToSet(places) : Placed(s, i, place)
    BY LaidFine
<1>2. N \in Nat /\ DOMAIN places = 1 .. N
  <2> HIDE DEF places
  <2> QED
    BY <1>1, ListShape
<1>3. Sources(p, d, s, s.queries[i].from, inner, outer) = seen[N]
    BY DEF Sources
<1>4. \E g : Upto(0, g)
  <2>1. Upto(0, [n \in 0 .. 0 |-> << >>])
    <3>1. [n \in 0 .. 0 |-> << >>] = [n \in 0 .. 0 |-> IF n = 0 THEN << >> ELSE grown([k \in 0 .. 0 |-> << >>][n - 1], n)]
        OBVIOUS
    <3> QED
        BY <3>1
  <2> QED
    BY <2>1
<1>5. ASSUME NEW m \in Nat, m # 0, NEW h, Upto(m - 1, h) PROVE \E g : Upto(m, g)
  <2> DEFINE g == [n \in 0 .. m |-> IF n = m THEN grown(h[m - 1], m) ELSE h[n]]
  <2>1. \A n \in 0 .. (m - 1) : h[n] = IF n = 0 THEN << >> ELSE grown(h[n - 1], n)
    <3>1. \A a : h = a => \A n \in 0 .. (m - 1) : h[n] = a[n]
        OBVIOUS
    <3> HIDE DEF grown
    <3> QED
        BY <1>5, <3>1
  <2> HIDE DEF grown
  <2>2. ASSUME NEW n \in 0 .. m PROVE g[n] = IF n = 0 THEN << >> ELSE grown(g[n - 1], n)
    <3>1. CASE n = 0
        BY <1>5, <2>1, <3>1
    <3>2. CASE n # 0 /\ n # m
      <4>1. n \in 0 .. (m - 1) /\ n - 1 \in 0 .. (m - 1) /\ n - 1 # m /\ n - 1 \in 0 .. m
        BY <3>2
      <4>2. g[n] = h[n] /\ g[n - 1] = h[n - 1]
        BY <3>2, <4>1
      <4> QED
        BY <2>1, <3>2, <4>1, <4>2
    <3>3. CASE n # 0 /\ n = m
      <4>1. n - 1 \in 0 .. m /\ n - 1 # m
        BY <3>3
      <4>2. g[n] = grown(h[m - 1], m) /\ g[n - 1] = h[m - 1]
        BY <3>3, <4>1
      <4> QED
        BY <3>3, <4>2
    <3> QED
        BY <3>1, <3>2, <3>3
  <2>3. g = [n \in 0 .. m |-> g[n]]
    OBVIOUS
  <2>4. Upto(m, g)
    <3> HIDE DEF g
    <3> QED
        BY <2>2, <2>3
  <2> QED
    BY <2>4
<1>6. \E g : Upto(N, g)
  <2> DEFINE T == {m \in Nat : ~\E g : Upto(m, g)}
  <2> HIDE DEF Upto
  <2> SUFFICES ASSUME T # {} PROVE FALSE
    BY <1>2
  <2>1. PICK m \in T : \A k \in T : m <= k
    BY LeastNatural
  <2>2. m \in Nat /\ m # 0
    BY <1>4, <2>1
  <2>3. m - 1 \in Nat /\ m - 1 \notin T
    BY <2>1, <2>2
  <2>4. \E h : Upto(m - 1, h)
    BY <2>3
  <2>5. \E g : Upto(m, g)
    BY <1>5, <2>2, <2>4
  <2> QED
    BY <2>1, <2>5
<1>7. Upto(N, seen)
  <2> HIDE DEF Upto
  <2> QED
    BY <1>6
<1>8. \A n \in 0 .. N : seen[n] = IF n = 0 THEN << >> ELSE grown(seen[n - 1], n)
  <2>1. \A a : seen = a => \A n \in 0 .. N : seen[n] = a[n]
    OBVIOUS
  <2> HIDE DEF seen, grown, N
  <2> QED
    BY <1>7, <2>1
<1> HIDE DEF seen, N
<1>9. Brought(p, d, s, i, << >>)
    BY DEF Brought, InScope, ListOf, ToSet
<1>10. ASSUME NEW n \in 1 .. N, Brought(p, d, s, i, seen[n - 1]) PROVE Brought(p, d, s, i, seen[n])
  <2>1. Placed(s, i, places[n])
    <3> HIDE DEF places
    <3> QED
        BY <1>1, <1>2 DEF ToSet
  <2>2. seen[n] = grown(seen[n - 1], n)
    <3> HIDE DEF grown
    <3> QED
        BY <1>2, <1>8
  <2> HIDE DEF places
  <2> QED
    BY <1>10, <2>1, <2>2, BroughtGrows
<1>11. Brought(p, d, s, i, seen[N])
  <2> DEFINE T == {m \in 0 .. N : ~Brought(p, d, s, i, seen[m])}
  <2> SUFFICES ASSUME T # {} PROVE FALSE
    BY <1>2
  <2>1. T \in SUBSET Nat
    BY <1>2
  <2>2. PICK m \in T : \A k \in T : m <= k
    <3> HIDE DEF T
    <3> QED
        BY <2>1, LeastNatural
  <2>3. m # 0
    BY <1>2, <1>8, <1>9
  <2>4. m \in 1 .. N /\ m - 1 \in 0 .. N /\ m - 1 \notin T
    BY <1>2, <2>2, <2>3
  <2>5. Brought(p, d, s, i, seen[m - 1])
    BY <2>4
  <2>6. Brought(p, d, s, i, seen[m])
    BY <1>10, <2>4, <2>5
  <2> QED
    BY <2>6
<1> QED
    BY <1>3, <1>11

-----------------------------------------------------------------------------
(* SQL: the columns of a query.                                                *)

\* What the expressions of query i see.
Facing(p, d, s, i, scopes) ==
    /\ InScopes(p, d, s, scopes) /\ 1 \in DOMAIN scopes
    /\ Brought(p, d, s, i, scopes[1]) /\ Head(scopes) = scopes[1]

\* Where no relation of a FROM has protected columns.
LEMMA LocalFine ==
    ASSUME NEW p, p.rules # {}, NEW d, NEW level, ~Active(LocalScope(p, level)),
           NEW n, n.factor \in Inside(level), SourceFine(p, d, n), NEW x \in ToSet(n.columns)
    PROVE  Fine(p, d, x)
<1>1. Fine(p, d, x) \/ Guarded(p, n, x)
    BY DEF SourceFine
<1>2. ~Guarded(p, n, x)
    BY GuardedInScope DEF LocalScope
<1> QED
    BY <1>1, <1>2

LEMMA StarFine ==
    ASSUME NEW p, p.rules # {}, NEW d, NEW s, NEW i, NEW scopes, Facing(p, d, s, i, scopes),
           ~Active(LocalScope(p, s.queries[i].from))
    PROVE  AllFine(p, d, FlattenSeq([k \in DOMAIN scopes[1] |-> scopes[1][k].columns]))
<1> DEFINE scope  == scopes[1]
           pieces == [k \in DOMAIN scope |-> scope[k].columns]
<1>1. /\ ListOf(scope) /\ DOMAIN scope = 1 .. Len(scope) /\ Len(scope) \in Nat
      /\ \A n \in ToSet(scope) : SourceFine(p, d, n) /\ n.factor \in Inside(s.queries[i].from)
  <2>1. Brought(p, d, s, i, scope)
    BY DEF Facing
  <2> HIDE DEF scope
  <2> QED
    BY <2>1, ListShape DEF Brought, InScope
<1>2. ASSUME NEW k \in DOMAIN scope PROVE AllFine(p, d, pieces[k])
  <2>1. scope[k] \in ToSet(scope)
    BY DEF ToSet
  <2>2. pieces[k] = scope[k].columns
    OBVIOUS
  <2>3. ListOf(scope[k].columns) /\ \A x \in ToSet(scope[k].columns) : Fine(p, d, x)
    <3> HIDE DEF scope
    <3> QED
        BY <1>1, <2>1, LocalFine DEF SourceFine
  <2> QED
    BY <2>2, <2>3 DEF AllFine
<1>3. Lists(pieces) /\ DOMAIN pieces = DOMAIN scope
  <2>1. DOMAIN pieces = DOMAIN scope /\ pieces = [k \in 1 .. Len(scope) |-> pieces[k]]
    BY <1>1
  <2>2. ListOf(pieces)
    <3> HIDE DEF pieces, scope
    <3> QED
        BY <1>1, <2>1, Listed
  <2> HIDE DEF pieces, scope
  <2> QED
    BY <1>2, <2>1, <2>2 DEF Lists, AllFine
<1> HIDE DEF pieces, scope
<1>4. FlattenSeq(pieces) \in Seq(Members(pieces))
    BY <1>3, FlattenHolds
<1>5. \A x \in Members(pieces) : Fine(p, d, x)
    BY <1>2, <1>3 DEF Members, AllFine
<1>6. AllFine(p, d, FlattenSeq(pieces))
    BY <1>4, <1>5, ListWithin DEF AllFine
<1> QED
    BY <1>6 DEF pieces, scope

\* Items that are not masked.
Shown(p, s, i, j) == i = 1 => j \notin Maskable(p, s)

LEMMA ValueFine ==
    ASSUME NEW p, NEW s, Accepted(p, s), NEW d, NEW i \in DOMAIN s.queries,
           NEW scopes, InScopes(p, d, s, scopes), NEW sub, ViewsListed(p) => Clean(p, sub),
           NEW j \in DOMAIN s.queries[i].items, s.queries[i].items[j].k = "item", Shown(p, s, i, j)
    PROVE  Fine(p, d, Value(scopes, sub, s.queries[i].items[j]))
<1> DEFINE item  == s.queries[i].items[j]
           e     == item.e
           meant == IF item.e.k = "col" THEN Meant(scopes, item.e.q, item.e.c) ELSE {}
           m     == CHOOSE x \in meant : TRUE
<1>1. p.rules # {} /\ ParsedSql(s)
    BY DEF Accepted
<1>2. Written(e)
  <2>1. Query(s.queries[i]) /\ item \in ToSet(s.queries[i].items)
    BY <1>1 DEF ParsedSql, ToSet
  <2> QED
    BY <2>1 DEF Query
<1>3. Judged(p, s, e)
    BY <1>2, ExprIsJudged DEF Shown
<1>4. Value(scopes, sub, item) = IF Cardinality(meant) = 1 THEN Called(m, ItemLabel(item))
                                 ELSE Computed(ItemLabel(item), From(scopes, sub, e))
    BY DEF Value
<1>5. CASE Cardinality(meant) = 1
  <2>1. meant # {}
    BY <1>5, FS_EmptySet
  <2>2. m \in meant
    BY <2>1
  <2>3. Fine(p, d, m)
    <3>1. e.k = "col"
        BY <2>1
    <3>2. m \in Meant(scopes, e.q, e.c)
      <4> HIDE DEF m
      <4> QED
        BY <2>2, <3>1
    <3>3. ~PiiExpr(StatementScope(p, s), e)
        BY <1>3 DEF Judged, Within
    <3> HIDE DEF m, meant, e, item
    <3> QED
        BY <1>1, <3>1, <3>2, <3>3, ColumnFine
  <2> HIDE DEF m, meant, item, e
  <2> QED
    BY <1>4, <1>5, <2>3, CalledFine DEF item
<1>6. CASE Cardinality(meant) # 1
  <2>1. ViewsListed(p) => Clean(p, From(scopes, sub, e))
    BY <1>1, <1>3, FromClean
  <2> HIDE DEF m, meant, item, e
  <2> QED
    BY <1>4, <1>6, <2>1, ComputedFine DEF item
<1> QED
    BY <1>5, <1>6

LEMMA ItemFine ==
    ASSUME NEW p, NEW s, Accepted(p, s), NEW d, NEW i \in DOMAIN s.queries,
           NEW scopes, Facing(p, d, s, i, scopes), NEW sub, ViewsListed(p) => Clean(p, sub),
           NEW j \in DOMAIN s.queries[i].items, Shown(p, s, i, j)
    PROVE  AllFine(p, d, Item(scopes, sub, s.queries[i].items[j]))
<1> DEFINE q    == s.queries[i]
           item == q.items[j]
<1>1. p.rules # {} /\ ParsedSql(s) /\ InScopes(p, d, s, scopes)
    BY DEF Accepted, Facing
<1>2. q \in ToSet(s.queries) /\ Query(q) /\ item \in ToSet(q.items)
    BY <1>1 DEF ParsedSql, ToSet
<1>3. item.k \in {"star", "qstar", "item"}
    BY <1>2 DEF Query
<1>4. ~StarExposes(p, StatementScope(p, s), q)
  <2>1. q.body = "select"
    <3>1. q.items # << >>
        OBVIOUS
    <3> QED
        BY <1>2, <3>1 DEF Query
  <2>2. q \in Selects(s)
    BY <1>2, <2>1 DEF Selects
  <2> HIDE DEF q
  <2> QED
    BY <2>2, AcceptedFinds
<1>5. CASE item.k = "star"
  <2>1. ~Active(LocalScope(p, q.from))
    BY <1>2, <1>4, <1>5 DEF StarExposes
  <2>2. AllFine(p, d, FlattenSeq([k \in DOMAIN scopes[1] |-> scopes[1][k].columns]))
    BY <1>1, <2>1, StarFine
  <2>3. Item(scopes, sub, item) = FlattenSeq([k \in DOMAIN scopes[1] |-> scopes[1][k].columns])
    BY <1>5 DEF Item
  <2> QED
    BY <2>2, <2>3
<1>6. CASE item.k = "qstar"
  <2>1. QualifiedStarIsSafe(StatementScope(p, s), item.q)
    BY <1>2, <1>4, <1>6 DEF StarExposes
  <2>2. item.q \notin StatementScope(p, s).handles
    BY <2>1 DEF QualifiedStarIsSafe, PrefixIsSafe, Active
  <2>3. AllFine(p, d, Row(scopes, item.q))
    BY <1>1, <2>2, RowFine DEF AllFine
  <2>4. Item(scopes, sub, item) = Row(scopes, item.q)
    BY <1>6 DEF Item
  <2> QED
    BY <2>3, <2>4
<1>7. CASE item.k = "item"
  <2> DEFINE x == Value(scopes, sub, item)
  <2>1. Fine(p, d, x)
    BY <1>1, <1>7, ValueFine
  <2>2. Item(scopes, sub, item) = <<x>>
    BY <1>7 DEF Item
  <2>3. ListOf(<<x>>) /\ ToSet(<<x>>) = {x}
    <3> HIDE DEF x
    <3> QED
        BY DEF ListOf, ToSet
  <2> HIDE DEF x
  <2> QED
    BY <2>1, <2>2, <2>3 DEF AllFine
<1> QED
    BY <1>3, <1>5, <1>6, <1>7

\* Where something is masked, an item is a column, in the same place.
LEMMA MaskedItemsAreColumns ==
    ASSUME NEW p, NEW s, Accepted(p, s), Maskable(p, s) # {}
    PROVE  /\ RootIsSelect(s) /\ ListOf(s.queries[1].items)
           /\ \A j \in DOMAIN s.queries[1].items : s.queries[1].items[j].k = "item"
           /\ \A j \in Maskable(p, s) : LET item == s.queries[1].items[j]
                                        IN  /\ j \in DOMAIN s.queries[1].items
                                            /\ item.alias = None /\ item.e.k = "col"
                                            /\ item.e.c \in StatementScope(p, s).columns
<1> DEFINE q == s.queries[1]
<1>1. ParsedSql(s) /\ ~WildcardConflict(p, s)
    BY AcceptedFinds DEF Accepted
<1>2. Query(q)
    BY <1>1, RootThere DEF ParsedSql
<1>3. Candidates(p, s) # {} /\ Maskable(p, s) = Candidates(p, s) /\ ~HasStar(q)
    BY <1>1 DEF WildcardConflict, Maskable
<1>4. ASSUME NEW j \in DOMAIN q.items PROVE q.items[j].k = "item"
  <2>1. q.items[j] \in ToSet(q.items)
    BY DEF ToSet
  <2> QED
    BY <1>2, <1>3, <2>1 DEF HasStar, Query
<1>5. RootIsSelect(s)
    BY <1>3 DEF Candidates
<1>6. ListOf(q.items)
    BY <1>2 DEF Query
<1>7. ASSUME NEW j \in Candidates(p, s)
      PROVE  /\ j \in DOMAIN q.items /\ q.items[j].alias = None
             /\ NamesProtected(StatementScope(p, s), q.items[j].e)
    BY <1>5 DEF Candidates
<1> QED
    BY <1>3, <1>4, <1>5, <1>6, <1>7 DEF NamesProtected

LEMMA ValueLabel ==
    ASSUME NEW scopes, NEW sub, NEW item
    PROVE  Value(scopes, sub, item).label = ItemLabel(item)
<1> DEFINE meant == IF item.e.k = "col" THEN Meant(scopes, item.e.q, item.e.c) ELSE {}
           x == Called(CHOOSE m \in meant : TRUE, ItemLabel(item))
           y == Computed(ItemLabel(item), From(scopes, sub, item.e))
<1>1. Value(scopes, sub, item) = IF Cardinality(meant) = 1 THEN x ELSE y
    BY DEF Value
<1>2. x.label = ItemLabel(item) /\ y.label = ItemLabel(item)
    BY DEF Called, Computed
<1> HIDE DEF x, y, meant
<1> QED
    BY <1>1, <1>2

LEMMA OutputsFine ==
    ASSUME NEW p, NEW s, Accepted(p, s), NEW d \in Drivers, NEW i \in DOMAIN s.queries,
           NEW scopes, Facing(p, d, s, i, scopes), NEW inner, AllFine(p, d, inner),
           NEW sub, ViewsListed(p) => Clean(p, sub)
    PROVE  LET columns == Outputs(p, d, s, s.queries[i], inner, sub, scopes)
           IN  /\ ListOf(columns)
               /\ \A k \in DOMAIN columns :
                      IF Shown(p, s, i, k) THEN Fine(p, d, columns[k])
                      ELSE columns[k].label \in StatementScope(p, s).columns
<1> DEFINE q       == s.queries[i]
           columns == Outputs(p, d, s, q, inner, sub, scopes)
           pieces  == [j \in DOMAIN q.items |-> Item(scopes, sub, q.items[j])]
<1>1. ParsedSql(s)
    BY DEF Accepted
<1>2. q \in ToSet(s.queries) /\ Query(q)
    BY <1>1 DEF ParsedSql, ToSet
<1>3. ListOf(q.items) /\ DOMAIN q.items = 1 .. Len(q.items) /\ Len(q.items) \in Nat
    BY <1>2, ListShape DEF Query
<1>4. ListOf(pieces) /\ DOMAIN pieces = DOMAIN q.items
  <2>1. DOMAIN pieces = DOMAIN q.items /\ pieces = [j \in 1 .. Len(q.items) |-> pieces[j]]
    BY <1>3
  <2> HIDE DEF pieces, q
  <2> QED
    BY <1>3, <2>1, Listed
<1>5. CASE q.body = "table"
  <2>1. q.table \in TableBodies(s)
    BY <1>2, <1>5 DEF TableBodies
  <2>2. q.table \notin Sampling[p.engine] /\ ~ProtectsTable(p, q.table)
    BY <2>1, AcceptedFinds
  <2>3. columns = Known(p, d, s, inner, q.table)
    BY <1>5 DEF Outputs
  <2>4. \A x : x \notin ColumnsOf(p, q.table)
    BY <2>2 DEF ColumnsOf, ProtectsTable
  <2>5. AllFine(p, d, columns)
    <3> HIDE DEF columns, q
    <3> QED
        BY <2>2, <2>3, <2>4, KnownFine DEF AllFine
  <2>6. i = 1 => Maskable(p, s) = {}
    BY <1>5 DEF Maskable, Candidates, RootIsSelect
  <2> HIDE DEF columns
  <2> QED
    BY <2>5, <2>6 DEF AllFine, ToSet, Shown, columns
<1>6. CASE q.body # "table" /\ i = 1 /\ Maskable(p, s) # {}
  <2> DEFINE v == [j \in DOMAIN q.items |-> Value(scopes, sub, q.items[j])]
  <2>1. /\ \A j \in DOMAIN q.items : q.items[j].k = "item"
        /\ \A j \in Maskable(p, s) : /\ j \in DOMAIN q.items /\ q.items[j].alias = None /\ q.items[j].e.k = "col"
                                     /\ q.items[j].e.c \in StatementScope(p, s).columns
    BY <1>6, MaskedItemsAreColumns
  <2>2. \A j \in DOMAIN q.items : pieces[j] = <<v[j]>>
    BY <2>1 DEF Item
  <2>3. columns = [j \in DOMAIN q.items |-> v[j]]
    <3>1. columns = FlattenSeq(pieces)
        BY <1>6 DEF Outputs
    <3>2. \A j \in DOMAIN pieces : pieces[j] = <<v[j]>>
        BY <1>4, <2>2
    <3> HIDE DEF columns, pieces, v, q
    <3>3. FlattenSeq(pieces) = [j \in DOMAIN pieces |-> v[j]]
        BY <1>4, <3>2, FlattenSingles
    <3> QED
        BY <1>4, <3>1, <3>3
  <2>4. ListOf(columns) /\ DOMAIN columns = DOMAIN q.items
    <3> HIDE DEF columns, v, q
    <3> QED
        BY <1>3, <2>3, Listed
  <2>5. ASSUME NEW k \in DOMAIN q.items, Shown(p, s, i, k) PROVE Fine(p, d, columns[k])
    <3>1. columns[k] = Value(scopes, sub, q.items[k])
        BY <2>3
    <3>2. Fine(p, d, Value(scopes, sub, q.items[k]))
        BY <2>1, <2>5, ValueFine DEF Facing
    <3> QED
        BY <3>1, <3>2
  <2>6. ASSUME NEW k \in DOMAIN q.items, ~Shown(p, s, i, k)
        PROVE  columns[k].label \in StatementScope(p, s).columns
    <3>1. columns[k] = Value(scopes, sub, q.items[k])
        BY <2>3
    <3>2. columns[k].label = ItemLabel(q.items[k])
      <4>1. Value(scopes, sub, q.items[k]).label = ItemLabel(q.items[k])
        BY ValueLabel
      <4> HIDE DEF columns
      <4> QED
        BY <3>1, <4>1
    <3>3. k \in Maskable(p, s)
        BY <2>6 DEF Shown
    <3>4. ItemLabel(q.items[k]) = q.items[k].e.c
        BY <2>1, <3>3 DEF ItemLabel
    <3> HIDE DEF columns
    <3> QED
        BY <2>1, <3>2, <3>3, <3>4
  <2> HIDE DEF columns
  <2> QED
    BY <2>4, <2>5, <2>6 DEF columns
<1>7. CASE q.body # "table" /\ (i = 1 => Maskable(p, s) = {})
  <2>1. \A k : Shown(p, s, i, k)
    BY <1>7 DEF Shown
  <2>2. ASSUME NEW j \in DOMAIN q.items PROVE AllFine(p, d, pieces[j])
    BY <2>1, ItemFine
  <2>3. Lists(pieces)
    <3> HIDE DEF pieces, q
    <3> QED
        BY <1>4, <2>2 DEF Lists, AllFine
  <2>4. columns = FlattenSeq(pieces)
    BY <1>7 DEF Outputs
  <2>5. ListOf(columns) /\ ToSet(columns) \subseteq Members(pieces)
    <3> HIDE DEF columns, pieces
    <3> QED
        BY <2>3, <2>4, FlattenHolds, ListWithin
  <2>6. \A x \in ToSet(columns) : Fine(p, d, x)
    <3> HIDE DEF columns, pieces, q
    <3> QED
        BY <1>4, <2>2, <2>5 DEF Members, AllFine
  <2> HIDE DEF columns
  <2> QED
    BY <2>1, <2>5, <2>6 DEF ToSet, columns
<1> QED
    BY <1>5, <1>6, <1>7

-----------------------------------------------------------------------------
(* SQL: what decides which rows a query has.                                   *)

LEMMA ComparedClean ==
    ASSUME NEW p, NEW s, Accepted(p, s), ViewsListed(p), NEW d, NEW i \in DOMAIN s.queries,
           NEW scopes, Facing(p, d, s, i, scopes), NEW sub, Clean(p, sub),
           NEW level \in Levels(s.queries[i]), NEW f \in ToSet(level)
    PROVE  Clean(p, Compared(scopes, sub, level, f))
<1> DEFINE scope == StatementScope(p, s)
<1>1. p.rules # {} /\ ParsedSql(s) /\ InScopes(p, d, s, scopes)
    BY DEF Accepted, Facing
<1>2. /\ s.queries[i] \in Selects(s) /\ f \in Factors(s.queries[i])
      /\ Level(level) /\ \A e \in f.on : Written(e)
    BY <1>1, FactorsOfSelects
<1>3. PICK j \in DOMAIN level : level[j] = f
    BY DEF ToSet
<1>4. f.op \in {"using", "natural"} => j \in 2 .. Len(level)
  <2>1. ListOf(level) /\ (level # << >> => level[1].op \notin {"using", "natural", "array"})
    BY <1>2 DEF Level
  <2>2. DOMAIN level = 1 .. Len(level) /\ Len(level) \in Nat /\ level # << >>
    BY <1>3, <2>1, ListShape
  <2> QED
    BY <1>3, <2>1, <2>2
<1>5. ~JoinExposes(p, scope, level)
    BY <1>2, AcceptedFinds
<1>6. CASE f.op = "using"
  <2>1. f.using \notin scope.columns
    BY <1>3, <1>4, <1>5, <1>6 DEF JoinExposes
  <2>2. \A x \in Meant(scopes, None, f.using) : Fine(p, d, x)
    BY <1>1, <2>1, MeantFine
  <2>3. Compared(scopes, sub, level, f) = UNION {x.from : x \in Meant(scopes, None, f.using)}
    BY <1>6 DEF Compared
  <2> QED
    BY <2>2, <2>3, FineIsClean
<1>7. CASE f.op = "natural"
  <2> DEFINE local  == {n \in ToSet(Head(scopes)) : n.factor \in Inside(level)}
             common == {y \in UNION {ToSet(n.columns) : n \in local} :
                            Cardinality({n \in local : \E z \in ToSet(n.columns) : z.label = y.label}) > 1}
  <2>1. ~Active(LocalScope(p, level))
    BY <1>3, <1>4, <1>5, <1>7 DEF JoinExposes
  <2>2. \A n \in local : SourceFine(p, d, n)
    BY DEF Facing, Brought, InScope
  <2>3. \A x \in common : Fine(p, d, x)
    BY <1>1, <2>1, <2>2, LocalFine
  <2>4. Compared(scopes, sub, level, f) = UNION {x.from : x \in common}
    BY <1>7 DEF Compared, Shared
  <2> HIDE DEF common
  <2> QED
    BY <2>3, <2>4, FineIsClean
<1>8. CASE f.op \notin {"using", "natural"}
  <2>1. ASSUME NEW e \in f.on PROVE Clean(p, From(scopes, sub, e))
    <3>1. Judged(p, s, e)
        BY <1>2, ExprIsJudged
    <3> QED
        BY <1>1, <3>1, FromClean
  <2>2. Compared(scopes, sub, level, f) = UNION {From(scopes, sub, e) : e \in f.on}
    BY <1>8 DEF Compared
  <2>3. \A from \in {From(scopes, sub, e) : e \in f.on} : Clean(p, from)
    BY <2>1
  <2> QED
    BY <2>2, <2>3, CleanUnion
<1> QED
    BY <1>6, <1>7, <1>8

\* What OutputsFine says of columns.
Vetted(p, d, s, i, columns) ==
    /\ ListOf(columns)
    /\ \A k \in DOMAIN columns :
           IF Shown(p, s, i, k) THEN Fine(p, d, columns[k])
           ELSE columns[k].label \in StatementScope(p, s).columns

\* A position or the name of an output is no way around net A either.
LEMMA KeyClean ==
    ASSUME NEW p, NEW s, Accepted(p, s), ViewsListed(p), NEW d, NEW i \in DOMAIN s.queries,
           NEW scopes, Facing(p, d, s, i, scopes), NEW sub, Clean(p, sub),
           NEW columns, Vetted(p, d, s, i, columns),
           NEW e \in ToSet(s.queries[i].group) \cup ToSet(s.queries[i].order)
    PROVE  Clean(p, KeyFrom(scopes, sub, columns, e))
<1> DEFINE scope == StatementScope(p, s)
<1>1. p.rules # {} /\ ParsedSql(s) /\ InScopes(p, d, s, scopes)
    BY DEF Accepted, Facing
<1>2. Judged(p, s, e)
  <2>1. s.queries[i] \in ToSet(s.queries) /\ Query(s.queries[i])
    BY <1>1 DEF ParsedSql, ToSet
  <2>2. Written(e)
    BY <2>1 DEF Query
  <2> QED
    BY <2>2, ExprIsJudged
<1>3. CASE e.k = "ordinal"
  <2>1. \A k : Shown(p, s, i, k)
    <3> SUFFICES ASSUME i = 1, Maskable(p, s) # {} PROVE FALSE
        BY DEF Shown
    <3>1. ~OrderingConflict(p, s)
        BY AcceptedFinds
    <3>2. \A x \in ToSet(s.queries[1].group) \cup ToSet(s.queries[1].order) : x.k = "col"
        BY <3>1 DEF OrderingConflict
    <3> QED
        BY <1>3, <3>2
  <2>2. CASE columns = << >>
    <3>1. KeyFrom(scopes, sub, columns, e) = {}
        BY <1>3, <2>2 DEF KeyFrom
    <3> QED
        BY <3>1 DEF Clean
  <2>3. CASE columns # << >>
    <3>1. 1 \in DOMAIN columns
        BY <2>3, ListShape DEF Vetted
    <3>2. Fine(p, d, columns[1])
        BY <2>1, <3>1 DEF Vetted
    <3>3. KeyFrom(scopes, sub, columns, e) = columns[1].from
        BY <1>3, <2>3 DEF KeyFrom
    <3> QED
        BY <3>2, <3>3 DEF Fine
  <2> QED
    BY <2>2, <2>3
<1>4. CASE e.k # "ordinal"
  <2> DEFINE named == {y \in ToSet(columns) : e.k = "col" /\ e.q = None /\ y.label = e.c}
  <2>1. ASSUME NEW y \in named PROVE Fine(p, d, y)
    <3>1. PICK k \in DOMAIN columns : y = columns[k]
        BY DEF ToSet
    <3>2. ~PiiExpr(scope, e)
        BY <1>2 DEF Judged, Within
    <3>3. y.label \notin scope.columns
      <4>1. scope.columns # {} => Active(scope)
        BY <1>1 DEF StatementScope, Scope, Active
      <4> HIDE DEF scope
      <4> QED
        BY <2>1, <3>2, <4>1 DEF PiiExpr
    <3> HIDE DEF scope
    <3> QED
        BY <3>1, <3>3 DEF Vetted, scope
  <2>2. Clean(p, From(scopes, sub, e))
    BY <1>1, <1>2, FromClean
  <2>3. Clean(p, UNION {x.from : x \in named})
    <3> HIDE DEF named
    <3> QED
        BY <2>1, FineIsClean
  <2>4. KeyFrom(scopes, sub, columns, e) = From(scopes, sub, e) \cup UNION {x.from : x \in named}
    BY <1>4 DEF KeyFrom
  <2> HIDE DEF named
  <2> QED
    BY <2>2, <2>3, <2>4 DEF Clean
<1> QED
    BY <1>3, <1>4

LEMMA DecidesClean ==
    ASSUME NEW p, NEW s, Accepted(p, s), ViewsListed(p), NEW d, NEW i \in DOMAIN s.queries,
           NEW scopes, Facing(p, d, s, i, scopes), NEW sub, Clean(p, sub),
           NEW columns, Vetted(p, d, s, i, columns)
    PROVE  Clean(p, Selected(s.queries[i], sub, scopes, columns).decides)
<1> DEFINE q == s.queries[i]
           a == UNION {From(scopes, sub, e) : e \in q.where}
           b == UNION {KeyFrom(scopes, sub, columns, e) : e \in ToSet(q.group) \cup ToSet(q.order)}
           c == UNION {JoinFrom(scopes, sub, level) : level \in Levels(q)}
           all == q.distinct \/ q.orderAll \/ q.groupAll
           u == IF all THEN Froms(columns) ELSE {}
<1>1. p.rules # {} /\ ParsedSql(s) /\ InScopes(p, d, s, scopes)
    BY DEF Accepted, Facing
<1>2. Clean(p, a)
  <2>1. Query(q)
    BY <1>1 DEF ParsedSql, ToSet
  <2>2. ASSUME NEW e \in q.where PROVE Clean(p, From(scopes, sub, e))
    <3>1. Written(e)
        BY <2>1 DEF Query
    <3>2. Judged(p, s, e)
        BY <3>1, ExprIsJudged
    <3> QED
        BY <1>1, <3>2, FromClean
  <2>3. \A from \in {From(scopes, sub, e) : e \in q.where} : Clean(p, from)
    BY <2>2
  <2> QED
    BY <2>3, CleanUnion
<1>3. Clean(p, b)
  <2>1. \A from \in {KeyFrom(scopes, sub, columns, e) : e \in ToSet(q.group) \cup ToSet(q.order)} : Clean(p, from)
    BY KeyClean
  <2> QED
    BY <2>1, CleanUnion
<1>4. Clean(p, c)
  <2>1. ASSUME NEW level \in Levels(q) PROVE Clean(p, JoinFrom(scopes, sub, level))
    <3>1. \A from \in {Compared(scopes, sub, level, f) : f \in ToSet(level)} : Clean(p, from)
        BY ComparedClean
    <3> QED
        BY <3>1, CleanUnion DEF JoinFrom
  <2>2. \A from \in {JoinFrom(scopes, sub, level) : level \in Levels(q)} : Clean(p, from)
    BY <2>1
  <2> QED
    BY <2>2, CleanUnion
<1>5. Clean(p, u)
  <2>1. CASE all
    <3>1. \A k : Shown(p, s, i, k)
      <4> SUFFICES ASSUME i = 1, Maskable(p, s) # {} PROVE FALSE
        BY DEF Shown
      <4>1. ~OrderingConflict(p, s)
        BY AcceptedFinds
      <4> QED
        BY <2>1, <4>1 DEF OrderingConflict
    <3>2. \A x \in ToSet(columns) : Fine(p, d, x)
        BY <3>1 DEF Vetted, ToSet
    <3>3. u = UNION {x.from : x \in ToSet(columns)}
        BY <2>1 DEF Froms
    <3> HIDE DEF u
    <3> QED
        BY <3>2, <3>3, FineIsClean
  <2>2. CASE ~all
    BY <2>2 DEF Clean
  <2> QED
    BY <2>1, <2>2
<1>6. Selected(q, sub, scopes, columns).decides = a \cup b \cup c \cup u
  <2>1. Selected(q, sub, scopes, columns) = [columns |-> columns, decides |-> a \cup b \cup c \cup u]
    BY DEF Selected
  <2> HIDE DEF a, b, c, u
  <2> QED
    BY <2>1
<1> HIDE DEF a, b, c, u
<1> QED
    BY <1>2, <1>3, <1>4, <1>5, <1>6 DEF Clean

-----------------------------------------------------------------------------
(* SQL: the result of a statement.                                             *)

LEMMA SelectFine ==
    ASSUME NEW p, NEW s, Accepted(p, s), NEW d \in Drivers, NEW i \in DOMAIN s.queries,
           NEW inner, AllFine(p, d, inner), NEW sub, ViewsListed(p) => Clean(p, sub),
           NEW outer, InScopes(p, d, s, outer)
    PROVE  LET selected == Select(p, d, s, s.queries[i], inner, sub, outer)
           IN  /\ Vetted(p, d, s, i, selected.columns)
               /\ ViewsListed(p) => Clean(p, selected.decides)
<1> DEFINE q       == s.queries[i]
           scope   == Sources(p, d, s, q.from, inner, outer)
           scopes  == <<scope>> \o outer
           columns == Outputs(p, d, s, q, inner, sub, scopes)
<1>1. Brought(p, d, s, i, scope)
    BY SourcesBrought
<1>2. Facing(p, d, s, i, scopes)
  <2> HIDE DEF scope
  <2> QED
    BY <1>1, InnerScope DEF Facing, Brought
<1>3. Vetted(p, d, s, i, columns)
  <2> HIDE DEF scopes
  <2> QED
    BY <1>2, OutputsFine DEF Vetted
<1>4. Select(p, d, s, q, inner, sub, outer) = Selected(q, sub, scopes, columns)
    BY DEF Select
<1>5. Selected(q, sub, scopes, columns).columns = columns
    BY DEF Selected
<1>6. ViewsListed(p) => Clean(p, Selected(q, sub, scopes, columns).decides)
  <2> HIDE DEF scopes, columns
  <2> QED
    BY <1>2, <1>3, DecidesClean
<1> HIDE DEF scopes, columns
<1> QED
    BY <1>3, <1>4, <1>5, <1>6

LEMMA NoScopes ==
    ASSUME NEW p, NEW d, NEW s
    PROVE  InScopes(p, d, s, << >>)
BY DEF InScopes, ListOf, ToSet

\* What stands in another query is what net A passed.
LEMMA BeneathFine ==
    ASSUME NEW p, NEW s, Accepted(p, s), NEW d \in Drivers
    PROVE  LET nested == Beneath(p, d, s)
           IN  /\ AllFine(p, d, nested.columns)
               /\ ViewsListed(p) => Clean(p, Froms(nested.columns)) /\ Clean(p, nested.decides)
<1> DEFINE nested == Beneath(p, d, s)
<1>1. ParsedSql(s)
    BY DEF Accepted
<1>2. AllFine(p, d, nested.columns) /\ (ViewsListed(p) => Clean(p, nested.decides))
  <2>1. CASE Len(s.queries) = 1
    <3>1. nested = [columns |-> << >>, decides |-> {}]
        BY <2>1 DEF Beneath
    <3>2. nested.columns = << >> /\ nested.decides = {}
        BY <3>1
    <3> HIDE DEF nested
    <3> QED
        BY <3>2, NothingFine DEF Clean
  <2>2. CASE Len(s.queries) # 1
    <3> DEFINE outer == IF s.role \in {"derived", "sub"}
                        THEN <<Sources(p, d, s, s.queries[1].from, << >>, << >>)>> ELSE << >>
               selected == Select(p, d, s, s.queries[2], << >>, {}, outer)
    <3>1. 1 \in DOMAIN s.queries
        BY <1>1, RootThere
    <3>2. 2 \in DOMAIN s.queries
      <4>1. ListOf(s.queries) /\ \E n \in 1 .. 2 : DOMAIN s.queries = 1 .. n
        BY <1>1 DEF ParsedSql
      <4>2. DOMAIN s.queries = 1 .. Len(s.queries) /\ Len(s.queries) \in Nat
        BY <4>1, ListShape
      <4> SUFFICES ASSUME 2 \notin DOMAIN s.queries PROVE FALSE
        OBVIOUS
      <4> DEFINE N == Len(s.queries)
      <4>3. N \in Nat /\ DOMAIN s.queries = 1 .. N /\ N # 1
        BY <2>2, <4>2
      <4>4. 1 \in 1 .. N /\ 2 \notin 1 .. N
        BY <3>1, <4>3
      <4> HIDE DEF N
      <4> QED
        BY <4>3, <4>4
    <3>3. InScopes(p, d, s, outer)
      <4> DEFINE scope == Sources(p, d, s, s.queries[1].from, << >>, << >>)
      <4>1. InScope(p, d, s, scope)
        BY <3>1, NoScopes, NothingFine, SourcesBrought DEF Brought
      <4>2. InScopes(p, d, s, <<scope>> \o << >>)
        <5> HIDE DEF scope
        <5> QED
            BY <4>1, NoScopes, InnerScope
      <4>3. <<scope>> \o << >> = <<scope>>
        OBVIOUS
      <4>4. InScopes(p, d, s, <<scope>>)
        BY <4>2, <4>3
      <4> QED
        BY <4>4, NoScopes
    <3>4. /\ Vetted(p, d, s, 2, selected.columns)
          /\ ViewsListed(p) => Clean(p, selected.decides)
      <4>1. Clean(p, {})
        BY DEF Clean
      <4> HIDE DEF outer
      <4> QED
        BY <3>2, <3>3, <4>1, NothingFine, SelectFine
    <3>5. nested = selected
        BY <2>2 DEF Beneath
    <3> HIDE DEF nested, selected
    <3>6. AllFine(p, d, selected.columns)
        BY <3>4 DEF Vetted, Shown, AllFine, ToSet
    <3> QED
        BY <3>4, <3>5, <3>6
  <2> QED
    BY <2>1, <2>2
<1>3. ViewsListed(p) => Clean(p, Froms(nested.columns))
  <2> HIDE DEF nested
  <2> QED
    BY <1>2, FineIsClean DEF AllFine, Froms
<1> HIDE DEF nested
<1> QED
    BY <1>2, <1>3 DEF nested

\* The arms of a set operation are not masked; columns of what may be seen on
\* both sides may be seen.
LEMMA CombinedFine ==
    ASSUME NEW p, NEW s, Accepted(p, s), NEW d, NEW a, Vetted(p, d, s, 1, a.columns),
           ViewsListed(p) => Clean(p, a.decides),
           NEW b, AllFine(p, d, b.columns),
           ViewsListed(p) => Clean(p, Froms(b.columns)) /\ Clean(p, b.decides)
    PROVE  LET result == Combined(s, a, b)
           IN  /\ Vetted(p, d, s, 1, result.columns)
               /\ ViewsListed(p) => Clean(p, result.decides)
<1> DEFINE result == Combined(s, a, b)
<1>1. CASE s.role # "arm"
  <2>1. result = [columns |-> a.columns, decides |-> a.decides \cup b.decides]
    BY <1>1 DEF Combined
  <2>2. result.columns = a.columns /\ result.decides = a.decides \cup b.decides
    BY <2>1
  <2> HIDE DEF result
  <2> QED
    BY <2>2 DEF Clean, result
<1>2. CASE s.role = "arm"
  <2> DEFINE x == a.columns
             y == b.columns
             both(k) == Computed(x[k].label, x[k].from \cup y[k].from)
             columns == [k \in DOMAIN x \cap DOMAIN y |-> both(k)]
             decides == a.decides \cup b.decides \cup Froms(x) \cup Froms(y)
  <2>1. result = [columns |-> columns, decides |-> decides]
    BY <1>2 DEF Combined
  <2>2. result.columns = columns /\ result.decides = decides
    BY <2>1
  <2>3. \A k : Shown(p, s, 1, k)
    BY <1>2 DEF Shown, Maskable, Candidates, RootIsSelect
  <2>4. AllFine(p, d, x)
    BY <2>3 DEF Vetted, AllFine, ToSet
  <2>5. ListOf(columns)
    <3>1. /\ DOMAIN x = 1 .. Len(x) /\ Len(x) \in Nat
          /\ DOMAIN y = 1 .. Len(y) /\ Len(y) \in Nat
        BY <2>4, ListShape DEF AllFine
    <3> DEFINE n == IF Len(x) <= Len(y) THEN Len(x) ELSE Len(y)
    <3>2. n \in Nat /\ DOMAIN x \cap DOMAIN y = 1 .. n
        BY <3>1
    <3> HIDE DEF n, x, y, both
    <3> QED
        BY <3>2, Listed
  <2>6. ASSUME NEW k \in DOMAIN columns PROVE Fine(p, d, columns[k])
    <3>1. columns[k] = both(k) /\ k \in DOMAIN x /\ k \in DOMAIN y
        OBVIOUS
    <3>2. Fine(p, d, x[k]) /\ Fine(p, d, y[k])
        BY <2>4, <3>1 DEF AllFine, ToSet
    <3>3. ViewsListed(p) => Clean(p, x[k].from \cup y[k].from)
        BY <3>2 DEF Fine, Clean
    <3> HIDE DEF columns, x, y
    <3> QED
        BY <3>1, <3>3, ComputedFine
  <2>7. ViewsListed(p) => Clean(p, Froms(x))
    <3> HIDE DEF x
    <3> QED
        BY <2>4, FineIsClean DEF AllFine, Froms
  <2>8. ViewsListed(p) => Clean(p, decides)
    BY <2>7 DEF Clean
  <2> HIDE DEF result, columns, decides
  <2> QED
    BY <2>2, <2>3, <2>5, <2>6, <2>8 DEF Vetted, result
<1> QED
    BY <1>1, <1>2

LEMMA ResultFine ==
    ASSUME NEW p, NEW s, Accepted(p, s), NEW d \in Drivers
    PROVE  /\ Vetted(p, d, s, 1, Result(p, d, s).columns)
           /\ ViewsListed(p) => Clean(p, Result(p, d, s).decides)
<1> DEFINE nested == Beneath(p, d, s)
           root   == Select(p, d, s, s.queries[1], nested.columns, Froms(nested.columns), << >>)
<1>1. /\ AllFine(p, d, nested.columns)
      /\ ViewsListed(p) => Clean(p, Froms(nested.columns)) /\ Clean(p, nested.decides)
    BY BeneathFine
<1>2. 1 \in DOMAIN s.queries
    BY RootThere DEF Accepted
<1>3. Vetted(p, d, s, 1, root.columns) /\ (ViewsListed(p) => Clean(p, root.decides))
  <2> HIDE DEF nested
  <2> QED
    BY <1>1, <1>2, NoScopes, SelectFine
<1>4. Result(p, d, s) = Combined(s, root, nested)
    BY DEF Result, Around
<1> HIDE DEF nested, root
<1> QED
    BY <1>1, <1>3, <1>4, CombinedFine

\* What goes out with no objection of net B's is not from a protected column.
LEMMA OriginsFind ==
    ASSUME NEW p, p.rules # {}, NEW columns, ListOf(columns), NEW exempt,
           p.engine # "clickhouse", NetOf(p, columns, exempt).why = {},
           NEW k \in DOMAIN columns \ NetOf(p, columns, exempt).mask
    PROVE  k \notin exempt /\ ~Hit(p, columns[k])
<1> DEFINE labels  == [i \in DOMAIN columns |-> columns[i].label]
           origins == [i \in DOMAIN columns |-> columns[i].origin]
           n       == Len(labels)
           hit(i)  == /\ i \in DOMAIN origins /\ origins[i].k = "table"
                      /\ <<origins[i].t, origins[i].c>> \in p.rules
           unknown(i) == i \notin DOMAIN origins \/ origins[i].k = "unknown"
           sanctioned(i) == p.mode = "mask" /\ i \in exempt
           bad  == {i \in 1..n : unknown(i) \/ (hit(i) /\ ~sanctioned(i))}
           mask == {i \in 1..n : hit(i) /\ sanctioned(i)}
           first == CHOOSE i \in bad : \A j \in bad : i <= j
           net  == NetOf(p, columns, exempt)
<1>1. DOMAIN columns = 1 .. Len(columns) /\ Len(columns) \in Nat
    BY ListShape
<1>2. n = Len(columns) /\ DOMAIN origins = 1 .. n
  <2>1. ListOf(labels) /\ Len(labels) = Len(columns)
    <3>1. labels = [i \in 1 .. Len(columns) |-> labels[i]]
        BY <1>1
    <3> HIDE DEF labels
    <3> QED
        BY <1>1, <3>1, Listed
  <2> HIDE DEF labels
  <2> QED
    BY <1>1, <2>1
<1>3. net = IF bad # {} THEN Refused(IF unknown(first) THEN "PII_UNPROVABLE" ELSE "PII_COLUMN")
            ELSE IF ~(exempt \subseteq mask) THEN Refused("PII_UNPROVABLE")
            ELSE [why |-> {}, mask |-> mask]
    BY DEF NetOf, JudgeOrigins, NetB
<1>4. bad = {} /\ exempt \subseteq mask /\ net.mask = mask
  <2>1. \A r : Refused(r).why # {}
    BY DEF Refused
  <2>2. net.why = {}
    OBVIOUS
  <2> HIDE DEF net, bad, mask, first, unknown
  <2> QED
    BY <1>3, <2>1, <2>2
<1>5. k \in 1 .. n /\ k \notin mask
    BY <1>1, <1>2, <1>4
<1>6. k \notin exempt
    BY <1>4, <1>5
<1>7. ~hit(k)
  <2>1. k \notin bad
    BY <1>4
  <2> HIDE DEF hit
  <2> QED
    BY <1>5, <1>6, <2>1
<1>8. Hit(p, columns[k]) => hit(k)
    BY <1>1, <1>2, <1>5 DEF Hit
<1> QED
    BY <1>6, <1>7, <1>8

\* Nor where all it has is the labels.
LEMMA NamesFind ==
    ASSUME NEW p, p.rules # {}, NEW columns, ListOf(columns), NEW exempt,
           p.engine = "clickhouse", NetOf(p, columns, exempt).why = {},
           NEW k \in DOMAIN columns \ NetOf(p, columns, exempt).mask
    PROVE  k \notin exempt
<1> DEFINE labels  == [i \in DOMAIN columns |-> columns[i].label]
           n       == Len(labels)
           hit(i)  == \E r \in p.rules : r[2] = labels[i]
           sanctioned(i) == p.mode = "mask" /\ i \in exempt
           bad  == {i \in 1..n : FALSE \/ (hit(i) /\ ~sanctioned(i))}
           mask == {i \in 1..n : hit(i) /\ sanctioned(i)}
           net  == NetOf(p, columns, exempt)
<1>1. net = IF bad # {} THEN Refused(IF FALSE THEN "PII_UNPROVABLE" ELSE "PII_COLUMN")
            ELSE IF ~(exempt \subseteq mask) THEN Refused("PII_UNPROVABLE")
            ELSE [why |-> {}, mask |-> mask]
    BY DEF NetOf, JudgeResultNames, NetB
<1>2. exempt \subseteq mask /\ net.mask = mask
  <2>1. \A r : Refused(r).why # {}
    BY DEF Refused
  <2>2. net.why = {}
    OBVIOUS
  <2> HIDE DEF net, bad, mask
  <2> QED
    BY <1>1, <2>1, <2>2
<1> HIDE DEF mask
<1> QED
    BY <1>2

\* An exchange whose reply is shown keeps what is protected inside.
LEMMA RepliesStayInside ==
    ASSUME NEW p, NEW s, Accepted(p, s), NEW d \in Drivers, NEW columns,
           columns = Result(p, d, s).columns,
           NetOf(p, columns, Maskable(p, s)).why = {},
           NEW k \in DOMAIN columns \ NetOf(p, columns, Maskable(p, s)).mask,
           Seen(p, d, columns[k])
    PROVE  columns[k].from \cap p.rules = {}
<1>1. p.rules # {}
    BY DEF Accepted
<1>2. Vetted(p, d, s, 1, columns)
    BY ResultFine
<1>3. ListOf(columns)
    BY <1>2 DEF Vetted
<1>4. k \notin Maskable(p, s) /\ (p.engine # "clickhouse" => ~Hit(p, columns[k]))
    BY <1>1, <1>3, OriginsFind, NamesFind
<1>5. Fine(p, d, columns[k])
    BY <1>2, <1>4 DEF Vetted, Shown
<1> QED
    BY <1>4, <1>5 DEF Fine, Seen, Clean

\* Whatever the connection, the statement and the driver: no protected column
\* leaves unmasked, by whatever names and through whatever queries it comes, and
\* none decides which rows come back.
THEOREM SqlKeepsInside == Spec => []SqlProtectedStaysInside
<1>1. Exchange => SqlProtectedStaysInside
  <2> SUFFICES ASSUME Exchange, IsSql, reply # Nothing, ~AliasedJoin(ask)
               PROVE  /\ MentionIsRefused
                      /\ reply.net.why = {} =>
                             \A k \in DOMAIN reply.columns \ reply.net.mask :
                                 Seen(policy, reply.driver, reply.columns[k])
                                     => reply.columns[k].from \cap policy.rules = {}
    BY DEF SqlProtectedStaysInside
  <2> DEFINE result == Result(policy, reply.driver, ask)
  <2>1. /\ ask \in Statements /\ Allowed(policy, ask)
        /\ reply.driver \in Drivers /\ reply.columns = result.columns /\ reply.decides = result.decides
        /\ reply.net = NetOf(policy, reply.columns, Maskable(policy, ask))
    <3>1. /\ verdict # Nothing /\ verdict.why = {} /\ ask # Nothing
          /\ verdict = Validate(policy, ask) /\ ask \in Statements /\ SqlReply
        BY DEF Exchange, Sent
    <3>2. verdict.exempt = Maskable(policy, ask)
        BY <3>1 DEF Validate
    <3> QED
        BY <3>1, <3>2 DEF Allowed, SqlReply
  <2> HIDE DEF result
  <2>2. ParsedSql(ask) /\ Passes(policy, ask)
    BY <2>1, SqlAssumption, AllowedPasses
  <2>3. CASE policy.rules = {}
    BY <2>3 DEF MentionIsRefused
  <2>4. CASE policy.rules # {}
    <3>1. Accepted(policy, ask)
        BY <2>2, <2>4 DEF Accepted
    <3>2. ViewsListed(policy) => Clean(policy, result.decides)
        BY <2>1, <3>1, ResultFine DEF result
    <3>3. MentionIsRefused
        BY <2>1, <3>2 DEF MentionIsRefused, Clean
    <3> QED
        BY <2>1, <3>1, <3>3, RepliesStayInside DEF result
  <2> QED
    BY <2>3, <2>4
<1> QED
    BY <1>1, ExchangeAlways, PTL

-----------------------------------------------------------------------------
(* MongoDB: documents whose protected values keep a protected name.            *)

\* Every value that comes from a protected field has a protected name on its path.
Tame(p, names, d) ==
    /\ d \in Documents
    /\ \A v \in d : \A f \in v.from : Protects(p, f) => PathHit(names, v.path)

\* No protected field is among these.
Cold(p, fields) == \A f \in fields : ~Protects(p, f)

LEMMA NothingHit == \A names : ~PathHit(names, << >>)
BY DEF PathHit

LEMMA HitJoined ==
    ASSUME NEW names, NEW s \in Seq(STRING), NEW t \in Seq(STRING)
    PROVE  PathHit(names, s \o t) <=> PathHit(names, s) \/ PathHit(names, t)
<1> DEFINE st == s \o t
<1>1. /\ Len(s) \in Nat /\ Len(t) \in Nat /\ DOMAIN s = 1 .. Len(s) /\ DOMAIN t = 1 .. Len(t)
      /\ DOMAIN st = 1 .. (Len(s) + Len(t))
      /\ \A i \in 1 .. (Len(s) + Len(t)) : st[i] = IF i <= Len(s) THEN s[i] ELSE t[i - Len(s)]
    OBVIOUS
<1>2. ASSUME PathHit(names, st) PROVE PathHit(names, s) \/ PathHit(names, t)
  <2>1. PICK i \in 1 .. (Len(s) + Len(t)) : st[i] \in names
    BY <1>1, <1>2 DEF PathHit
  <2>2. CASE i <= Len(s)
    <3>1. i \in 1 .. Len(s) /\ s[i] \in names
        BY <1>1, <2>1, <2>2
    <3> QED
        BY <1>1, <3>1 DEF PathHit
  <2>3. CASE ~(i <= Len(s))
    <3>1. i - Len(s) \in 1 .. Len(t) /\ t[i - Len(s)] \in names
        BY <1>1, <2>1, <2>3
    <3> QED
        BY <1>1, <3>1 DEF PathHit
  <2> QED
    BY <2>2, <2>3
<1>3. ASSUME PathHit(names, s) PROVE PathHit(names, st)
  <2>1. PICK i \in 1 .. Len(s) : s[i] \in names
    BY <1>1, <1>3 DEF PathHit
  <2>2. i \in 1 .. (Len(s) + Len(t)) /\ st[i] \in names
    BY <1>1, <2>1
  <2> HIDE DEF st
  <2> QED
    BY <1>1, <2>2 DEF PathHit
<1>4. ASSUME PathHit(names, t) PROVE PathHit(names, st)
  <2>1. PICK i \in 1 .. Len(t) : t[i] \in names
    BY <1>1, <1>4 DEF PathHit
  <2>2. i + Len(s) \in 1 .. (Len(s) + Len(t)) /\ st[i + Len(s)] \in names
    BY <1>1, <2>1
  <2> HIDE DEF st
  <2> QED
    BY <1>1, <2>2 DEF PathHit
<1> QED
    BY <1>2, <1>3, <1>4

\* A sequence is its first n members and the rest.
LEMMA SplitAt ==
    ASSUME NEW t \in Seq(STRING), NEW n \in 0 .. Len(t)
    PROVE  /\ SubSeq(t, 1, n) \in Seq(STRING) /\ SubSeq(t, n + 1, Len(t)) \in Seq(STRING)
           /\ t = SubSeq(t, 1, n) \o SubSeq(t, n + 1, Len(t))
<1>1. Len(t) \in Nat /\ n \in Nat /\ n <= Len(t)
    OBVIOUS
<1>2. SubSeq(t, 1, n) \in Seq(STRING) /\ SubSeq(t, n + 1, Len(t)) \in Seq(STRING)
    BY <1>1
<1> DEFINE a == SubSeq(t, 1, n)
           b == SubSeq(t, n + 1, Len(t))
<1>3. /\ Len(a) = n /\ \A i \in 1 .. n : a[i] = t[i]
      /\ Len(b) = Len(t) - n /\ \A i \in 1 .. (Len(t) - n) : b[i] = t[n + i]
    BY <1>1
<1>4. a \o b \in Seq(STRING) /\ Len(a \o b) = Len(t)
  <2> HIDE DEF a, b
  <2>1. a \in Seq(STRING) /\ b \in Seq(STRING)
    BY <1>2 DEF a, b
  <2>2. Len(a \o b) = Len(a) + Len(b)
    BY <2>1
  <2> QED
    BY <1>1, <1>3, <2>1, <2>2
<1>5. ASSUME NEW i \in 1 .. Len(t) PROVE (a \o b)[i] = t[i]
  <2> HIDE DEF a, b
  <2>1. a \in Seq(STRING) /\ b \in Seq(STRING)
    BY <1>2 DEF a, b
  <2>2. (a \o b)[i] = IF i <= Len(a) THEN a[i] ELSE b[i - Len(a)]
    BY <1>1, <1>3, <2>1
  <2>3. CASE i <= n
    BY <1>1, <1>3, <2>2, <2>3
  <2>4. CASE ~(i <= n)
    <3>1. i - n \in 1 .. (Len(t) - n) /\ n + (i - n) = i
        BY <1>1, <2>4
    <3> QED
        BY <1>1, <1>3, <2>2, <2>4, <3>1
  <2> QED
    BY <2>3, <2>4
<1> HIDE DEF a, b
<1>6. a \o b = t
    BY <1>4, <1>5, SeqEqual
<1> QED
    BY <1>2, <1>6 DEF a, b

\* What is below a path that nothing protects keeps the names it has.
LEMMA RestOfPath ==
    ASSUME NEW names, NEW s \in Seq(STRING), NEW t \in Seq(STRING), IsPrefix(s, t)
    PROVE  /\ SubSeq(t, Len(s) + 1, Len(t)) \in Seq(STRING)
           /\ PathHit(names, t) <=> PathHit(names, s) \/ PathHit(names, SubSeq(t, Len(s) + 1, Len(t)))
<1>1. Len(s) \in 0 .. Len(t) /\ SubSeq(t, 1, Len(s)) = s
  <2>1. Len(s) \in Nat /\ Len(s) <= Len(t) /\ SubSeq(s, 1, Len(s)) = SubSeq(t, 1, Len(s)) /\ Len(t) \in Nat
    BY DEF IsPrefix
  <2>2. SubSeq(s, 1, Len(s)) = s
    OBVIOUS
  <2> QED
    BY <2>1, <2>2
<1> DEFINE rest == SubSeq(t, Len(s) + 1, Len(t))
<1>2. rest \in Seq(STRING) /\ t = s \o rest
    BY <1>1, SplitAt
<1> HIDE DEF rest
<1>3. PathHit(names, s \o rest) <=> PathHit(names, s) \/ PathHit(names, rest)
    BY <1>2, HitJoined
<1> QED
    BY <1>2, <1>3 DEF rest

LEMMA NoDocument ==
    ASSUME NEW p, NEW names
    PROVE  Tame(p, names, {}) /\ Cold(p, {})
BY DEF Tame, Cold, Documents

LEMMA TameUnion ==
    ASSUME NEW p, NEW names, NEW D, \A d \in D : Tame(p, names, d)
    PROVE  Tame(p, names, UNION D)
BY DEF Tame, Documents

LEMMA TameBoth ==
    ASSUME NEW p, NEW names, NEW d, NEW e, Tame(p, names, d), Tame(p, names, e)
    PROVE  Tame(p, names, d \cup e)
BY DEF Tame, Documents

LEMMA TamePart ==
    ASSUME NEW p, NEW names, NEW d, NEW e, Tame(p, names, d), e \subseteq d
    PROVE  Tame(p, names, e)
BY DEF Tame, Documents

LEMMA ColdUnion ==
    ASSUME NEW p, NEW D, \A fields \in D : Cold(p, fields)
    PROVE  Cold(p, UNION D)
BY DEF Cold

\* A value no protected field is behind may stand anywhere.
LEMMA TameCount ==
    ASSUME NEW p, NEW names, NEW path \in Seq(STRING)
    PROVE  Tame(p, names, {[path |-> path, from |-> {}]})
BY DEF Tame, Documents

LEMMA TameContents ==
    ASSUME NEW p, NEW c, NEW k \in Collections(c)
    PROVE  Tame(p, ProtectedNames(p, c), Contents(k))
<1> DEFINE names == ProtectedNames(p, c)
<1>1. CASE k \notin DOMAIN Stored
    BY <1>1, NoDocument DEF Contents
<1>2. CASE k \in DOMAIN Stored
  <2> DEFINE value(path) == [path |-> path, from |-> {<<k, path>>}]
  <2>1. Contents(k) = {value(path) : path \in Stored[k]}
    BY <1>2 DEF Contents
  <2>2. ASSUME NEW path \in Stored[k]
        PROVE  /\ value(path) \in [path : Seq(STRING), from : SUBSET (STRING \X Seq(STRING))]
               /\ \A f \in value(path).from : Protects(p, f) => PathHit(names, value(path).path)
    <3>1. k \in STRING /\ path \in Seq(STRING)
        BY <1>2, StoredAssumption
    <3>2. Protects(p, <<k, path>>) => PathHit(names, path)
        BY DEF Protects, PathHit, ProtectedNames
    <3> HIDE DEF names
    <3> QED
        BY <3>1, <3>2
  <2> HIDE DEF names, value
  <2> QED
    BY <2>1, <2>2 DEF Tame, Documents, names
<1> QED
    BY <1>1, <1>2

LEMMA TamePut ==
    ASSUME NEW p, NEW names, NEW d, Tame(p, names, d), NEW path \in Seq(STRING)
    PROVE  Tame(p, names, Put(path, d))
<1> DEFINE value(v) == [path |-> path \o v.path, from |-> v.from]
<1>1. ASSUME NEW v \in d
      PROVE  /\ value(v) \in [path : Seq(STRING), from : SUBSET (STRING \X Seq(STRING))]
             /\ \A f \in value(v).from : Protects(p, f) => PathHit(names, value(v).path)
  <2>1. v.path \in Seq(STRING) /\ v.from \subseteq STRING \X Seq(STRING)
    BY DEF Tame, Documents
  <2>2. \A f \in v.from : Protects(p, f) => PathHit(names, v.path)
    BY DEF Tame
  <2> DEFINE whole == path \o v.path
  <2>3. whole \in Seq(STRING) /\ (PathHit(names, v.path) => PathHit(names, whole))
    <3>1. \A t \in Seq(STRING) : path \o t \in Seq(STRING)
        OBVIOUS
    <3>2. \A t \in Seq(STRING) : PathHit(names, t) => PathHit(names, path \o t)
        BY HitJoined
    <3> QED
        BY <2>1, <3>1, <3>2
  <2> HIDE DEF whole
  <2>4. value(v) = [path |-> whole, from |-> v.from]
    BY DEF whole
  <2> HIDE DEF value
  <2> QED
    BY <2>1, <2>2, <2>3, <2>4
<1>2. Put(path, d) = {value(v) : v \in d}
    BY DEF Put
<1> HIDE DEF value
<1> QED
    BY <1>1, <1>2 DEF Tame, Documents

LEMMA TameBelow ==
    ASSUME NEW p, NEW names, NEW d, Tame(p, names, d), NEW path \in Seq(STRING), ~PathHit(names, path)
    PROVE  Tame(p, names, Below(d, path))
<1> DEFINE rest(v)  == SubSeq(v.path, Len(path) + 1, Len(v.path))
           value(v) == [path |-> rest(v), from |-> v.from]
<1>1. ASSUME NEW v \in Under1(d, path)
      PROVE  /\ value(v) \in [path : Seq(STRING), from : SUBSET (STRING \X Seq(STRING))]
             /\ \A f \in value(v).from : Protects(p, f) => PathHit(names, value(v).path)
  <2>1. v \in d /\ IsPrefix(path, v.path)
    BY DEF Under1
  <2>2. v.path \in Seq(STRING) /\ v.from \subseteq STRING \X Seq(STRING)
    BY <2>1 DEF Tame, Documents
  <2>3. \A f \in v.from : Protects(p, f) => PathHit(names, v.path)
    BY <2>1 DEF Tame
  <2>4. rest(v) \in Seq(STRING) /\ (PathHit(names, v.path) => PathHit(names, rest(v)))
    BY <2>1, <2>2, RestOfPath
  <2> HIDE DEF rest
  <2> QED
    BY <2>2, <2>3, <2>4
<1>2. Below(d, path) = {value(v) : v \in Under1(d, path)}
    BY DEF Below
<1> HIDE DEF value
<1> QED
    BY <1>1, <1>2 DEF Tame, Documents

\* Nothing protected stands at or around a path that nothing protects.
LEMMA ColdAt ==
    ASSUME NEW p, NEW names, NEW d, Tame(p, names, d), NEW path \in Seq(STRING), ~PathHit(names, path)
    PROVE  Cold(p, Behind(At(d, path)))
<1> SUFFICES ASSUME NEW v \in d, IsPrefix(v.path, path), NEW f \in v.from PROVE ~Protects(p, f)
    BY DEF Behind, At, Cold
<1>1. v.path \in Seq(STRING)
    BY DEF Tame, Documents
<1>2. ~PathHit(names, v.path)
    BY <1>1, RestOfPath
<1> QED
    BY <1>2 DEF Tame

LEMMA ColdSingle ==
    ASSUME NEW p, NEW names, NEW d, Tame(p, names, d)
    PROVE  Cold(p, Behind(Single(d)))
BY NothingHit DEF Behind, Single, Cold, Tame

LEMMA TameValue ==
    ASSUME NEW p, NEW names, NEW from \in SUBSET (STRING \X Seq(STRING)), Cold(p, from)
    PROVE  Tame(p, names, {[path |-> << >>, from |-> from]})
BY DEF Tame, Documents, Cold

LEMMA BehindFields ==
    ASSUME NEW p, NEW names, NEW d, Tame(p, names, d)
    PROVE  Behind(Single(d)) \in SUBSET (STRING \X Seq(STRING))
BY DEF Tame, Documents, Behind, Single

\* What variables hold, when no reference names a protected field.
LEMMA TameHeld ==
    ASSUME NEW p, NEW names, NEW d, Tame(p, names, d), NEW tree,
           \A text \in Texts(tree, DOMAIN tree) : Pointed(text) \in Seq(STRING) /\ ~PathHit(names, Pointed(text))
    PROVE  Tame(p, names, Held(d, tree))
<1> DEFINE spoken == UNION {ToSet(Pointed(text)) : text \in Texts(tree, DOMAIN tree)}
           led(v, i) == ToSet(SubSeq(v.path, 1, i)) \subseteq spoken
           rest(v, i) == [path |-> SubSeq(v.path, i + 1, Len(v.path)), from |-> v.from]
<1>1. spoken \cap names = {}
    BY DEF ToSet, PathHit
<1>2. ASSUME NEW v \in d, NEW i \in 0 .. Len(v.path), led(v, i)
      PROVE  /\ rest(v, i) \in [path : Seq(STRING), from : SUBSET (STRING \X Seq(STRING))]
             /\ \A f \in rest(v, i).from : Protects(p, f) => PathHit(names, rest(v, i).path)
  <2> DEFINE a == SubSeq(v.path, 1, i)
             b == SubSeq(v.path, i + 1, Len(v.path))
  <2>1. v.path \in Seq(STRING) /\ v.from \subseteq STRING \X Seq(STRING)
    BY DEF Tame, Documents
  <2>2. a \in Seq(STRING) /\ b \in Seq(STRING) /\ v.path = a \o b
    BY <2>1, SplitAt
  <2>3. ~PathHit(names, a)
    <3>1. ToSet(a) \cap names = {}
        BY <1>1, <1>2
    <3> HIDE DEF a
    <3> QED
        BY <3>1 DEF ToSet, PathHit
  <2>4. PathHit(names, v.path) => PathHit(names, b)
    <3> HIDE DEF a, b
    <3> QED
        BY <2>2, <2>3, HitJoined
  <2>5. \A f \in v.from : Protects(p, f) => PathHit(names, v.path)
    BY DEF Tame
  <2> HIDE DEF a
  <2> QED
    BY <2>1, <2>2, <2>4, <2>5
<1>3. Held(d, tree) = UNION {{rest(v, i) : i \in {j \in 0 .. Len(v.path) : led(v, j)}} : v \in d}
    BY DEF Held
<1> HIDE DEF led, rest
<1> QED
    BY <1>2, <1>3 DEF Tame, Documents

-----------------------------------------------------------------------------
(* MongoDB: expressions, filters and projections.                              *)

\* No reference of the tree names a protected field.
Quiet(names, tree) ==
    \A n \in DOMAIN tree :
        /\ tree[n].key \in Seq(STRING) /\ tree[n].text \in Seq(STRING)
        /\ tree[n].kind = "string" =>
               /\ Pointed(tree[n].text) \in Seq(STRING)
               /\ ~PathHit(names, Pointed(tree[n].text))

\* What the documents of a stage are, and what its variables may hold.
Ready(p, names, tree, d, held) == Tame(p, names, d) /\ Tame(p, names, held) /\ Quiet(names, tree)

LEMMA QuietTexts ==
    ASSUME NEW names, NEW tree, Quiet(names, tree), NEW nodes \in SUBSET DOMAIN tree
    PROVE  \A text \in Texts(tree, nodes) :
               text \in Seq(STRING) /\ Pointed(text) \in Seq(STRING) /\ ~PathHit(names, Pointed(text))
BY DEF Quiet, Texts

LEMMA HeldReady ==
    ASSUME NEW p, NEW names, NEW tree, NEW d, NEW around, Ready(p, names, tree, d, around)
    PROVE  Ready(p, names, tree, d, around \cup Held(d, tree))
<1>1. Tame(p, names, Held(d, tree))
    BY QuietTexts, TameHeld DEF Ready
<1> QED
    BY <1>1, TameBoth DEF Ready

LEMMA TameRef ==
    ASSUME NEW p, NEW names, NEW tree, NEW d, NEW held, Ready(p, names, tree, d, held),
           NEW text \in Texts(tree, DOMAIN tree)
    PROVE  Tame(p, names, Ref(d, held, text))
<1>1. Pointed(text) \in Seq(STRING) /\ ~PathHit(names, Pointed(text))
    BY QuietTexts DEF Ready
<1>2. Tame(p, names, Below(d, Pointed(text)))
    BY <1>1, TameBelow DEF Ready
<1>3. Ref(d, held, text) \in {{}, Below(d, Pointed(text)), held}
    BY DEF Ref
<1> QED
    BY <1>2, <1>3, NoDocument DEF Ready

LEMMA TameRefsIn ==
    ASSUME NEW p, NEW names, NEW tree, NEW d, NEW held, Ready(p, names, tree, d, held), NEW n
    PROVE  Tame(p, names, RefsIn(d, held, tree, n))
<1>1. Texts(tree, Subtree(tree, n)) \subseteq Texts(tree, DOMAIN tree)
    BY DEF Texts, Subtree
<1>2. \A text \in Texts(tree, Subtree(tree, n)) : Tame(p, names, Ref(d, held, text))
    BY <1>1, TameRef
<1> QED
    BY <1>2, TameUnion DEF RefsIn

LEMMA ColdTells ==
    ASSUME NEW p, NEW names, NEW tree, NEW d, NEW held, Ready(p, names, tree, d, held), NEW nodes
    PROVE  Cold(p, Tells(d, held, tree, nodes))
<1>1. \A m \in nodes : Cold(p, Behind(Single(RefsIn(d, held, tree, m))))
    BY TameRefsIn, ColdSingle
<1> QED
    BY <1>1, ColdUnion DEF Tells

LEMMA TameComputed ==
    ASSUME NEW p, NEW names, NEW tree, NEW d, NEW held, Ready(p, names, tree, d, held), NEW n \in DOMAIN tree
    PROVE  Tame(p, names, Computed1(d, held, tree, n))
<1>1. CASE tree[n].kind = "string"
  <2>1. tree[n].text \in Texts(tree, DOMAIN tree)
    BY <1>1 DEF Texts
  <2> QED
    BY <1>1, <2>1, TameRef DEF Computed1
<1>2. CASE tree[n].kind # "string"
  <2> DEFINE refs == RefsIn(d, held, tree, n)
             from == Behind(Single(refs))
  <2>1. Tame(p, names, refs)
    BY TameRefsIn
  <2>2. Cold(p, from) /\ from \in SUBSET (STRING \X Seq(STRING))
    BY <2>1, ColdSingle, BehindFields
  <2>3. Tame(p, names, {[path |-> << >>, from |-> from]})
    <3> HIDE DEF from
    <3> QED
        BY <2>2, TameValue
  <2>4. Computed1(d, held, tree, n) = refs \cup {[path |-> << >>, from |-> from]}
    BY <1>2 DEF Computed1
  <2> HIDE DEF refs, from
  <2> QED
    BY <2>1, <2>3, <2>4, TameBoth
<1> QED
    BY <1>1, <1>2

LEMMA TameMadeOf ==
    ASSUME NEW p, NEW names, NEW tree, NEW d, NEW held, Ready(p, names, tree, d, held),
           NEW nodes \in SUBSET DOMAIN tree
    PROVE  Tame(p, names, MadeOf(d, held, tree, nodes))
<1>1. ASSUME NEW m \in nodes PROVE Tame(p, names, Put(tree[m].key, Computed1(d, held, tree, m)))
  <2>1. Tame(p, names, Computed1(d, held, tree, m)) /\ tree[m].key \in Seq(STRING)
    BY TameComputed DEF Ready, Quiet
  <2> QED
    BY <2>1, TamePut
<1> QED
    BY <1>1, TameUnion DEF MadeOf

LEMMA TameMade ==
    ASSUME NEW p, NEW names, NEW tree, NEW d, NEW held, Ready(p, names, tree, d, held), NEW n \in DOMAIN tree
    PROVE  Tame(p, names, Made(d, held, tree, n))
<1>1. Under(tree, n) \subseteq DOMAIN tree
    BY DEF Under
<1> QED
    BY <1>1, TameMadeOf, TameComputed DEF Made

LEMMA TameProjected ==
    ASSUME NEW p, NEW names, NEW tree, NEW d, NEW held, Ready(p, names, tree, d, held), NEW n
    PROVE  Tame(p, names, Projected(d, held, tree, n))
<1> DEFINE flags(text) == {m \in Subtree(tree, n) \ {n} :
                              /\ tree[m].kind = "flag" /\ tree[m].text = <<text>>
                              /\ \A x \in Between(tree, n, m) \cup {m} : ~IsOperator(tree[x].key)}
           drops == flags("0")
           keeps == flags("1")
           made  == {m \in Under(tree, n) : tree[m].kind # "flag"}
           picks == {m \in made : Fields(tree, m) # Under(tree, m)}
           less  == d \ UNION {Under1(d, FieldPath(tree, n, m)) : m \in drops}
           more  == (UNION {Under1(d, FieldPath(tree, n, m)) : m \in keeps}) \cup Under1(d, <<"_id">>)
           kept  == IF keeps = {} /\ drops # {} THEN less ELSE more
           picked == UNION {Under1(d, tree[m].key) : m \in picks}
<1>1. Tame(p, names, d)
    BY DEF Ready
<1>2. less \subseteq d /\ more \subseteq d /\ picked \subseteq d
    BY DEF Under1
<1>3. kept \cup picked \subseteq d
    BY <1>2
<1>4. made \in SUBSET DOMAIN tree
    BY DEF Under
<1>5. Projected(d, held, tree, n) = (kept \cup picked) \cup MadeOf(d, held, tree, made)
    BY DEF Projected
<1> HIDE DEF kept, picked, made
<1> QED
    BY <1>1, <1>3, <1>4, <1>5, TamePart, TameMadeOf, TameBoth

LEMMA ColdFilter ==
    ASSUME NEW p, NEW names, NEW tree, NEW d, NEW held, Ready(p, names, tree, d, held), NEW n,
           \A m \in Naming(tree, n) :
               FieldPath(tree, n, m) \in Seq(STRING) /\ ~PathHit(names, FieldPath(tree, n, m))
    PROVE  Cold(p, FilterDecides(d, held, tree, n))
<1>1. Cold(p, Tells(d, held, tree, {n}))
    BY ColdTells
<1>2. \A m \in Naming(tree, n) : Cold(p, Behind(At(d, FieldPath(tree, n, m))))
    BY ColdAt DEF Ready
<1>3. Cold(p, UNION {Behind(At(d, FieldPath(tree, n, m))) : m \in Naming(tree, n)})
    BY <1>2, ColdUnion
<1> QED
    BY <1>1, <1>3 DEF FilterDecides, Cold

LEMMA ColdOrder ==
    ASSUME NEW p, NEW names, NEW tree, NEW d, NEW held, Ready(p, names, tree, d, held), NEW nodes,
           \A n \in nodes : \A m \in Fields(tree, n) : ~PathHit(names, tree[m].key)
    PROVE  Cold(p, OrderDecides(d, tree, nodes))
<1>1. \A m \in UNION {Fields(tree, n) : n \in nodes} :
          tree[m].key \in Seq(STRING) /\ ~PathHit(names, tree[m].key)
    BY DEF Fields, Under, Ready, Quiet
<1>2. \A m \in UNION {Fields(tree, n) : n \in nodes} : Cold(p, Behind(At(d, tree[m].key)))
    BY <1>1, ColdAt DEF Ready
<1> QED
    BY <1>2, ColdUnion DEF OrderDecides

-----------------------------------------------------------------------------
(* MongoDB: one stage.                                                         *)

\* Documents and what decided about them so far.
Sane(p, names, r) == Tame(p, names, r.d) /\ Cold(p, r.decides)

\* A value of the call under which no field is named that a name protects.
Clear(names, tree, n) ==
    /\ \A m \in Naming(tree, n) :
           FieldPath(tree, n, m) \in Seq(STRING) /\ ~PathHit(names, FieldPath(tree, n, m))
    /\ \A m \in Fields(tree, n) : ~PathHit(names, tree[m].key)

\* What the walk has made sure of in a stage.
StageJudged(names, tree, n) ==
    /\ n \in DOMAIN tree
    /\ tree[n].key[2] \in {"match", "sort"} => Clear(names, tree, n)
    /\ tree[n].key[2] \in {"setWindowFields", "graphLookup"} =>
           \A name \in {"sortBy", "restrictSearchWithMatch"} : \A m \in Field(tree, n, name) : Clear(names, tree, m)
    /\ tree[n].key[2] \in {"lookup", "graphLookup"} =>
           \A name \in JoinFields : \A text \in Texts(tree, Field(tree, n, name)) : ~PathHit(names, text)

LEMMA OneText ==
    /\ <<"_id">> \in Seq(STRING)
    /\ <<"count">> \in Seq(STRING)
    /\ <<"value">> \in Seq(STRING)
<1>1. \A S : \A s \in S : <<s>> \in Seq(S)
    OBVIOUS
<1> QED
    BY <1>1, ServerNamesAssumption, Zenon

Bucketed(c, n, before, around) ==
    LET tree == c.tree
        d    == before.d
        held == around \cup Held(d, tree)
        field(name) == Field(tree, n, name)
        under(name) == UNION {Under(tree, m) : m \in field(name)}
    IN  [d |-> (UNION {Put(<<"_id">>, Computed1(d, held, tree, m)) : m \in field("groupBy")})
                   \cup {[path |-> <<"count">>, from |-> {}]} \cup MadeOf(d, held, tree, under("output")),
         decides |-> before.decides \cup Tells(d, held, tree, field("groupBy"))]

LEMMA BucketStage ==
    ASSUME NEW c, NEW n, NEW before, NEW around, NEW inner, c.tree[n].key[2] \in {"bucket", "bucketAuto"}
    PROVE  Stage(c, n, before, around, inner) = Bucketed(c, n, before, around)
<1>1. CASE c.tree[n].key[2] = "bucket"
    BY <1>1 DEF Stage, Shaping, Bucketed
<1>2. CASE c.tree[n].key[2] = "bucketAuto"
    BY <1>2 DEF Stage, Shaping, Bucketed
<1> QED
    BY <1>1, <1>2

LEMMA OtherStage ==
    ASSUME NEW c, NEW n, NEW before, NEW around, NEW inner, c.tree[n].key[2] \notin Shaping
    PROVE  Stage(c, n, before, around, inner) = before
BY Zenon DEF Stage

LEMMA StageIsSane ==
    ASSUME NEW p, NEW names, NEW c, NEW n, NEW before, NEW around, NEW inner,
           Ready(p, names, c.tree, before.d, around), Cold(p, before.decides), StageJudged(names, c.tree, n),
           Sane(p, names, Joined1(c, n, around \cup Held(before.d, c.tree), inner)),
           \A m \in Under(c.tree, n) :
               c.tree[n].key[2] = "facet" /\ c.tree[n].kind = "doc" /\ c.tree[m].kind = "array" =>
                   Sane(p, names, inner[<<m, before.d, around \cup Held(before.d, c.tree)>>])
    PROVE  Sane(p, names, Stage(c, n, before, around, inner))
<1> DEFINE tree == c.tree
           d    == before.d
           op   == tree[n].key[2]
           held == around \cup Held(d, tree)
           to(values, more) == [d |-> values, decides |-> before.decides \cup more]
           field(name) == Field(tree, n, name)
           texts(name) == Texts(tree, field(name))
           under(name) == UNION {Under(tree, m) : m \in field(name)}
           fields      == MadeOf(d, held, tree, Under(tree, n))
           joined      == Joined1(c, n, held, inner)
           brought(e)  == UNION {Put(text, e) : text \in texts("as")}
           named(e, names1) == UNION {Behind(At(e, text)) : text \in UNION {texts(name) : name \in names1}}
           branch      == [m \in {x \in Under(tree, n) : tree[n].kind = "doc" /\ tree[x].kind = "array"} |->
                               inner[<<m, d, held>>]]
           counted(path) == {[path |-> path, from |-> {}]}
           after == Stage(c, n, before, around, inner)
<1>1. Ready(p, names, tree, d, held) /\ Cold(p, before.decides)
    BY HeldReady
<1>2. ASSUME NEW values, NEW more, Tame(p, names, values), Cold(p, more)
      PROVE  Sane(p, names, to(values, more))
    BY <1>1, <1>2 DEF Sane, Cold
<1>3. /\ n \in DOMAIN tree /\ Under(tree, n) \in SUBSET DOMAIN tree
      /\ \A name : field(name) \in SUBSET DOMAIN tree /\ under(name) \in SUBSET DOMAIN tree
    BY DEF StageJudged, Field, Under
<1>4. /\ Tame(p, names, d) /\ Tame(p, names, fields)
      /\ \A name : Tame(p, names, MadeOf(d, held, tree, under(name)))
  <2>1. Tame(p, names, d)
    BY <1>1 DEF Ready
  <2>2. \A nodes \in SUBSET DOMAIN tree : Tame(p, names, MadeOf(d, held, tree, nodes))
    BY <1>1, TameMadeOf
  <2> QED
    BY <1>3, <2>1, <2>2
<1>5. \A nodes : Cold(p, Tells(d, held, tree, nodes))
    BY <1>1, ColdTells
<1>6. \A name : \A text \in texts(name) : text \in Seq(STRING)
    BY <1>1, <1>3, QuietTexts DEF Ready
<1>7. \A path \in Seq(STRING) : Tame(p, names, counted(path))
    BY TameCount
<1>8. Cold(p, {})
    BY NoDocument
<1>9. Sane(p, names, joined)
    OBVIOUS
<1>10. ASSUME NEW e, Tame(p, names, e) PROVE Tame(p, names, brought(e))
  <2>1. \A text \in texts("as") : Tame(p, names, Put(text, e))
    BY <1>6, <1>10, TamePut
  <2> QED
    BY <2>1, TameUnion
<1>11. ASSUME NEW e, Tame(p, names, e), NEW names1 \in SUBSET JoinFields, op \in {"lookup", "graphLookup"}
       PROVE  Cold(p, named(e, names1))
  <2> DEFINE all == UNION {texts(name) : name \in names1}
  <2>1. \A text \in all : text \in Seq(STRING) /\ ~PathHit(names, text)
    BY <1>6, <1>11 DEF StageJudged
  <2> HIDE DEF all
  <2>2. \A text \in all : Cold(p, Behind(At(e, text)))
    BY <1>11, <2>1, ColdAt
  <2>3. Cold(p, UNION {Behind(At(e, text)) : text \in all})
    BY <2>2, ColdUnion
  <2> QED
    BY <2>3 DEF all
<1>12. op = "match" => Cold(p, FilterDecides(d, held, tree, n))
    BY <1>1, ColdFilter DEF StageJudged, Clear
<1>13. /\ op = "sort" => Cold(p, OrderDecides(d, tree, {n}))
       /\ op = "setWindowFields" => Cold(p, OrderDecides(d, tree, field("sortBy")))
    BY <1>1, ColdOrder DEF StageJudged, Clear
<1>14. \A nodes \in SUBSET DOMAIN tree :
            /\ Tame(p, names, UNION {Made(d, held, tree, m) : m \in nodes})
            /\ Tame(p, names, UNION {Put(<<"_id">>, Computed1(d, held, tree, m)) : m \in nodes})
            /\ \A m \in nodes : Tame(p, names, Made(d, held, tree, m))
            /\ \A m \in nodes : Tame(p, names, Put(<<"_id">>, Computed1(d, held, tree, m)))
  <2> SUFFICES ASSUME NEW nodes \in SUBSET DOMAIN tree
               PROVE  /\ \A m \in nodes : Tame(p, names, Made(d, held, tree, m))
                      /\ \A m \in nodes : Tame(p, names, Put(<<"_id">>, Computed1(d, held, tree, m)))
    BY TameUnion
  <2>1. \A m \in nodes : Tame(p, names, Made(d, held, tree, m)) /\ Tame(p, names, Computed1(d, held, tree, m))
    BY <1>1, TameMade, TameComputed
  <2>2. <<"_id">> \in Seq(STRING)
    BY OneText
  <2> QED
    BY <2>1, <2>2, TamePut
<1>15. Tame(p, names, Projected(d, held, tree, n))
    BY <1>1, TameProjected
<1>16. op = "graphLookup" => \A m \in field("restrictSearchWithMatch") : Cold(p, FilterDecides(joined.d, held, tree, m))
  <2>1. Ready(p, names, tree, joined.d, held)
    BY <1>1, <1>9 DEF Ready, Sane
  <2> QED
    BY <2>1, ColdFilter DEF StageJudged, Clear
<1>17. CASE op = "match"
  <2>1. after = to(d, FilterDecides(d, held, tree, n))
    BY <1>17 DEF Stage, Shaping
  <2> QED
    BY <1>2, <1>4, <1>12, <1>17, <2>1
<1>18. CASE op = "redact"
  <2>1. after = to(d, Tells(d, held, tree, {n}))
    BY <1>18 DEF Stage, Shaping
  <2> QED
    BY <1>2, <1>4, <1>5, <2>1
<1>19. CASE op = "sort"
  <2>1. after = to(d, OrderDecides(d, tree, {n}))
    BY <1>19 DEF Stage, Shaping
  <2> QED
    BY <1>2, <1>4, <1>13, <1>19, <2>1
<1>20. CASE op = "project"
  <2>1. after = to(Projected(d, held, tree, n), {})
    BY <1>20 DEF Stage, Shaping
  <2> QED
    BY <1>2, <1>8, <1>15, <2>1
<1>21. CASE op \in {"addFields", "set"}
  <2>1. after = to(d \cup fields, {})
    <3>1. CASE op = "addFields"
        BY <3>1 DEF Stage, Shaping
    <3>2. CASE op = "set"
        BY <3>2 DEF Stage, Shaping
    <3> QED
        BY <1>21, <3>1, <3>2
  <2>2. Tame(p, names, d \cup fields)
    BY <1>4, TameBoth
  <2> QED
    BY <1>2, <1>8, <2>1, <2>2
<1>22. CASE op = "unset"
  <2> DEFINE less == d \ UNION {Under1(d, text) : text \in Texts(tree, {n} \cup Under(tree, n))}
  <2>1. after = to(less, {})
    BY <1>22 DEF Stage, Shaping
  <2>2. Tame(p, names, less)
    BY <1>4, TamePart
  <2> QED
    BY <1>2, <1>8, <2>1, <2>2
<1>23. CASE op = "group"
  <2>1. after = to(fields, Tells(d, held, tree, field("_id")))
    BY <1>23 DEF Stage, Shaping
  <2> QED
    BY <1>2, <1>4, <1>5, <2>1
<1>24. CASE op \in {"bucket", "bucketAuto"}
  <2> DEFINE ids  == UNION {Put(<<"_id">>, Computed1(d, held, tree, m)) : m \in field("groupBy")}
             outs == MadeOf(d, held, tree, under("output"))
  <2>1. after = to(ids \cup counted(<<"count">>) \cup outs, Tells(d, held, tree, field("groupBy")))
    <3>1. Stage(c, n, before, around, inner) = Bucketed(c, n, before, around)
        BY <1>24, BucketStage
    <3>2. Bucketed(c, n, before, around) =
              to(ids \cup counted(<<"count">>) \cup outs, Tells(d, held, tree, field("groupBy")))
        BY Zenon DEF Bucketed
    <3> QED
        BY <3>1, <3>2
  <2>2. Tame(p, names, ids) /\ Tame(p, names, outs)
    BY <1>3, <1>4, <1>14
  <2>3. Tame(p, names, counted(<<"count">>))
    BY <1>7, OneText
  <2> HIDE DEF ids, outs, counted
  <2>4. Tame(p, names, ids \cup counted(<<"count">>) \cup outs)
    BY <2>2, <2>3, TameBoth
  <2> QED
    BY <1>2, <1>5, <2>1, <2>4
<1>25. CASE op = "setWindowFields"
  <2> DEFINE outs  == MadeOf(d, held, tree, under("output"))
             parts == Tells(d, held, tree, field("partitionBy"))
             order == OrderDecides(d, tree, field("sortBy"))
  <2>1. after = to(d \cup outs, parts \cup order)
    BY <1>25 DEF Stage, Shaping
  <2>2. Tame(p, names, d \cup outs)
    BY <1>4, TameBoth
  <2>3. Cold(p, parts \cup order)
    BY <1>5, <1>13, <1>25 DEF Cold
  <2> HIDE DEF outs, parts, order
  <2> QED
    BY <1>2, <2>1, <2>2, <2>3
<1>26. CASE op = "sortByCount"
  <2> DEFINE ids == Put(<<"_id">>, Computed1(d, held, tree, n))
  <2>1. after = to(ids \cup counted(<<"count">>), Tells(d, held, tree, {n}))
    BY <1>26 DEF Stage, Shaping
  <2>2. Tame(p, names, ids)
    BY <1>3, <1>14
  <2>3. Tame(p, names, counted(<<"count">>))
    BY <1>7, OneText
  <2> HIDE DEF ids, counted
  <2>4. Tame(p, names, ids \cup counted(<<"count">>))
    BY <2>2, <2>3, TameBoth
  <2> QED
    BY <1>2, <1>5, <2>1, <2>4
<1>27. CASE op = "count"
  <2>1. after = to(counted(tree[n].text), {})
    BY <1>27 DEF Stage, Shaping
  <2>2. Tame(p, names, counted(tree[n].text))
    BY <1>1, <1>3, <1>7 DEF Ready, Quiet
  <2> HIDE DEF counted
  <2> QED
    BY <1>2, <1>8, <2>1, <2>2
<1>28. CASE op = "unwind"
  <2> DEFINE index == UNION {counted(text) : text \in texts("includeArrayIndex")}
  <2>1. after = to(d \cup index, Tells(d, held, tree, {n}))
    BY <1>28 DEF Stage, Shaping
  <2>2. Tame(p, names, index)
    <3>1. \A text \in texts("includeArrayIndex") : Tame(p, names, counted(text))
        BY <1>6, <1>7
    <3> HIDE DEF counted
    <3> QED
        BY <3>1, TameUnion
  <2> HIDE DEF index
  <2>3. Tame(p, names, d \cup index)
    BY <1>4, <2>2, TameBoth
  <2> QED
    BY <1>2, <1>5, <2>1, <2>3
<1>29. CASE op = "replaceWith"
  <2>1. after = to(Made(d, held, tree, n), {})
    BY <1>29 DEF Stage, Shaping
  <2>2. Tame(p, names, Made(d, held, tree, n))
    BY <1>3, <1>14
  <2> QED
    BY <1>2, <1>8, <2>1, <2>2
<1>30. CASE op = "replaceRoot"
  <2>1. after = to(UNION {Made(d, held, tree, m) : m \in field("newRoot")}, {})
    BY <1>30 DEF Stage, Shaping
  <2> QED
    BY <1>2, <1>3, <1>8, <1>14, <2>1
<1>31. CASE op = "lookup"
  <2> DEFINE local   == named(d, {"localField"})
             foreign == named(joined.d, {"foreignField"})
  <2>1. after = to(d \cup brought(joined.d), joined.decides \cup local \cup foreign)
    BY <1>31 DEF Stage, Shaping
  <2>2. Cold(p, local) /\ Cold(p, foreign)
    <3>1. {"localField"} \in SUBSET JoinFields /\ {"foreignField"} \in SUBSET JoinFields
        BY DEF JoinFields
    <3> HIDE DEF named
    <3> QED
        BY <1>4, <1>9, <1>11, <1>31, <3>1 DEF Sane
  <2>3. Cold(p, joined.decides \cup local \cup foreign)
    BY <1>9, <2>2 DEF Sane, Cold
  <2>4. Tame(p, names, d \cup brought(joined.d))
    <3>1. Tame(p, names, brought(joined.d))
        BY <1>9, <1>10 DEF Sane
    <3> QED
        BY <1>4, <3>1, TameBoth
  <2> HIDE DEF local, foreign, brought, joined
  <2> QED
    BY <1>2, <2>1, <2>3, <2>4
<1>32. CASE op = "graphLookup"
  <2> DEFINE depths == UNION {counted(text) : text \in texts("depthField")}
             from   == named(joined.d, {"connectFromField", "connectToField"})
             starts == Tells(d, held, tree, field("startWith"))
             search == UNION {FilterDecides(joined.d, held, tree, m) : m \in field("restrictSearchWithMatch")}
  <2>1. after = to(d \cup brought(joined.d \cup depths), from \cup starts \cup search)
    BY <1>32 DEF Stage, Shaping
  <2>2. Tame(p, names, depths)
    <3>1. \A text \in texts("depthField") : Tame(p, names, counted(text))
        BY <1>6, <1>7
    <3> HIDE DEF counted
    <3> QED
        BY <3>1, TameUnion
  <2>3. Cold(p, from)
    <3>1. {"connectFromField", "connectToField"} \in SUBSET JoinFields
        BY DEF JoinFields
    <3> HIDE DEF named
    <3> QED
        BY <1>9, <1>11, <1>32, <3>1 DEF Sane
  <2>4. Cold(p, search)
    BY <1>16, <1>32, ColdUnion
  <2>5. Cold(p, from \cup starts \cup search)
    BY <1>5, <2>3, <2>4 DEF Cold
  <2>6. Tame(p, names, d \cup brought(joined.d \cup depths))
    <3>1. Tame(p, names, joined.d \cup depths)
        <4> HIDE DEF depths, joined
        <4> QED
            BY <1>9, <2>2, TameBoth DEF Sane
    <3>2. Tame(p, names, brought(joined.d \cup depths))
        BY <1>10, <3>1
    <3> HIDE DEF depths, brought
    <3> QED
        BY <1>4, <3>2, TameBoth
  <2> HIDE DEF depths, from, starts, search, brought
  <2> QED
    BY <1>2, <2>1, <2>5, <2>6
<1>33. CASE op = "unionWith"
  <2>1. after = to(d \cup joined.d, joined.decides)
    BY <1>33 DEF Stage, Shaping
  <2>2. Tame(p, names, d \cup joined.d) /\ Cold(p, joined.decides)
    BY <1>4, <1>9, TameBoth DEF Sane
  <2> HIDE DEF joined
  <2> QED
    BY <1>2, <2>1, <2>2
<1>34. CASE op = "facet"
  <2> DEFINE values == UNION {Put(tree[m].key, branch[m].d) : m \in DOMAIN branch}
             more   == UNION {branch[m].decides : m \in DOMAIN branch}
  <2>1. after = to(values, more)
    BY <1>34, Zenon DEF Stage, Shaping
  <2>2. ASSUME NEW m \in DOMAIN branch
        PROVE  Sane(p, names, branch[m]) /\ tree[m].key \in Seq(STRING)
    <3>1. m \in Under(tree, n) /\ tree[n].kind = "doc" /\ tree[m].kind = "array"
          /\ branch[m] = inner[<<m, d, held>>]
        OBVIOUS
    <3>2. Sane(p, names, inner[<<m, d, held>>])
        BY <1>34, <3>1
    <3>3. m \in DOMAIN tree
        BY <3>1 DEF Under
    <3> QED
        BY <1>1, <3>1, <3>2, <3>3 DEF Ready, Quiet
  <2> HIDE DEF branch
  <2>3. \A m \in DOMAIN branch : Tame(p, names, Put(tree[m].key, branch[m].d)) /\ Cold(p, branch[m].decides)
    BY <2>2, TamePut DEF Sane
  <2>4. Tame(p, names, values) /\ Cold(p, more)
    BY <2>3, TameUnion, ColdUnion
  <2> HIDE DEF values, more
  <2> QED
    BY <1>2, <2>1, <2>4
<1>35. CASE op \notin Shaping
  <2>1. after = before
    BY <1>35, OtherStage
  <2> QED
    BY <1>1, <1>4, <2>1 DEF Sane
<1> HIDE DEF op, after
<1> QED
    BY <1>17, <1>18, <1>19, <1>20, <1>21, <1>22, <1>23, <1>24, <1>25, <1>26, <1>27, <1>28, <1>29, <1>30, <1>31,
       <1>32, <1>33, <1>34, <1>35 DEF after, Shaping

-----------------------------------------------------------------------------
(* MongoDB: what the walk has made sure of.                                    *)

\* Layer 1 lets the call through.
LetThrough(p, c) == WrittenCall(c) /\ FirstRefusal(Parse(c)) = {} /\ Walk(p, c) = {}

LEMMA NodeTypes ==
    ASSUME NEW c, WrittenCall(c), NEW n \in DOMAIN c.tree
    PROVE  c.tree[n].key \in Seq(STRING) /\ c.tree[n].text \in Seq(STRING)
<1> DEFINE S == [up : Nat, key : Seq(STRING), kind : STRING, text : Seq(STRING)]
<1>1. c.tree \in Seq(S)
    BY DEF WrittenCall
<1>2. c.tree[n] \in S
  <2> HIDE DEF S
  <2>1. DOMAIN c.tree = 1 .. Len(c.tree) /\ Len(c.tree) \in Nat
    BY <1>1, LenProperties
  <2> QED
    BY <1>1, <2>1, ElementOfSeq
<1> QED
    BY <1>2

LEMMA StringsAreValues ==
    ASSUME NEW p, NEW c, LetThrough(p, c), NEW n \in DOMAIN c.tree, c.tree[n].kind = "string"
    PROVE  n \in Live(c.tree) /\ Modes(c)[n] \in {"strict", "projection"}
<1>1. n \in Live(c.tree)
    BY SpelledAreTyped DEF LetThrough, Live
<1>2. Modes(c)[n] \in WalkModes
    BY ModesUnfold DEF LetThrough
<1>3. Modes(c)[n] # "pipeline"
    BY PipelinesAreArrays DEF LetThrough
<1>4. Modes(c)[n] # "facets"
    BY FacetsAreDocuments DEF LetThrough
<1>5. Modes(c)[n] # "stage"
    BY <1>1, WalkVisits DEF LetThrough, NodeJudged
<1> QED
    BY <1>1, <1>2, <1>3, <1>4, <1>5 DEF WalkModes

LEMMA ReferencesQuiet ==
    ASSUME NEW names, names # {}, NEW text \in Seq(STRING), RefObjections(names, text) = {}
    PROVE  ~PathHit(names, Pointed(text))
<1>1. CASE text = << >> \/ text[1] \notin {"$", "$$"}
    BY <1>1, NothingHit DEF Pointed
<1>2. CASE text # << >> /\ text[1] = "$"
  <2>1. RefObjections(names, text) = When(PathHit(names, Tail(text)), "PII_COLUMN")
    BY <1>2, Zenon DEF RefObjections
  <2> QED
    BY <1>2, <2>1 DEF Pointed, When
<1>3. CASE text # << >> /\ text[1] = "$$"
  <2>1. RefObjections(names, text) =
            IF Len(text) = 2 THEN When(text[2] \in {"ROOT", "CURRENT"}, "PII_UNPROVABLE")
            ELSE When(PathHit(names, SubSeq(text, 3, Len(text))), "PII_COLUMN")
    BY <1>3, Zenon DEF RefObjections
  <2>2. Pointed(text) = SubSeq(text, 3, Len(text))
    BY <1>3 DEF Pointed
  <2>3. CASE Len(text) = 2
    <3>1. SubSeq(text, 3, Len(text)) = << >>
        BY <2>3
    <3> QED
        BY <2>2, <3>1, NothingHit
  <2>4. CASE Len(text) # 2
    BY <2>1, <2>2, <2>4 DEF When
  <2> QED
    BY <2>3, <2>4
<1> QED
    BY <1>1, <1>2, <1>3

LEMMA PointedType ==
    ASSUME NEW text \in Seq(STRING)
    PROVE  Pointed(text) \in Seq(STRING)
<1>1. << >> \in Seq(STRING)
    OBVIOUS
<1>2. text # << >> => Tail(text) \in Seq(STRING)
    OBVIOUS
<1>3. SubSeq(text, 3, Len(text)) \in Seq(STRING)
  <2> DEFINE S == STRING
  <2>1. text \in Seq(S)
    OBVIOUS
  <2> HIDE DEF S
  <2>2. SubSeq(text, 3, Len(text)) \in Seq(S)
    BY <2>1
  <2> QED
    BY <2>2 DEF S
<1> QED
    BY <1>1, <1>2, <1>3 DEF Pointed

LEMMA NothingNamed == \A path : ~PathHit({}, path)
    BY DEF PathHit

LEMMA CallIsQuiet ==
    ASSUME NEW p, NEW c, LetThrough(p, c)
    PROVE  Quiet(ProtectedNames(p, c), c.tree)
<1> DEFINE names == ProtectedNames(p, c)
<1> SUFFICES ASSUME NEW n \in DOMAIN c.tree
             PROVE  /\ c.tree[n].key \in Seq(STRING) /\ c.tree[n].text \in Seq(STRING)
                    /\ c.tree[n].kind = "string" =>
                           /\ Pointed(c.tree[n].text) \in Seq(STRING)
                           /\ ~PathHit(names, Pointed(c.tree[n].text))
    BY DEF Quiet
<1>1. c.tree[n].key \in Seq(STRING) /\ c.tree[n].text \in Seq(STRING)
    BY NodeTypes DEF LetThrough
<1>2. Pointed(c.tree[n].text) \in Seq(STRING)
    BY <1>1, PointedType
<1>3. ASSUME c.tree[n].kind = "string" PROVE ~PathHit(names, Pointed(c.tree[n].text))
  <2> HIDE DEF names
  <2>1. CASE names = {}
    BY <2>1, NothingNamed
  <2>2. CASE names # {}
    <3>1. NodeJudged(p, names, c, n) /\ Modes(c)[n] \in {"strict", "projection"}
        BY <1>3, StringsAreValues, WalkVisits DEF LetThrough, names
    <3>2. RefObjections(names, c.tree[n].text) = {}
        BY <1>3, <2>2, <3>1 DEF NodeJudged
    <3> QED
        BY <1>1, <2>2, <3>2, ReferencesQuiet
  <2> QED
    BY <2>1, <2>2
<1> QED
    BY <1>1, <1>2, <1>3

\* No field of a value that is walked strictly is protected.
LEMMA StrictFields ==
    ASSUME NEW p, NEW c, LetThrough(p, c), NEW n \in DOMAIN c.tree,
           c.tree[n].up # 0, Modes(c)[c.tree[n].up] = "strict", ~IsOperator(c.tree[n].key)
    PROVE  ~PathHit(ProtectedNames(p, c), c.tree[n].key)
<1> DEFINE tree == c.tree
           u    == tree[n].up
           names == ProtectedNames(p, c)
<1>1. /\ u \in DOMAIN tree /\ tree[u].kind \in {"doc", "array"}
      /\ tree[u].kind = "array" => tree[n].key = << >>
    BY WrittenNode DEF LetThrough
<1>2. CASE tree[u].kind = "array"
    BY <1>1, <1>2, NothingHit
<1>3. CASE names = {}
    BY <1>3, NothingNamed
<1>4. CASE tree[u].kind = "doc" /\ names # {}
  <2>1. ~Spelled(tree, u)
    BY DEF Spelled, Under, OperatorIn
  <2>2. NodeJudged(p, names, c, n)
    BY <2>1, WalkVisits DEF LetThrough, Live
  <2>3. FieldObjections(p, names, tree[n], FALSE) = {}
    BY <1>4, <2>2 DEF NodeJudged
  <2> QED
    BY <2>3 DEF FieldObjections, When
<1> QED
    BY <1>1, <1>2, <1>3, <1>4

-----------------------------------------------------------------------------
(* MongoDB: the fields a filter names.                                         *)

\* What holds at the roots of a call and below whatever it holds for.
LEMMA DownTheTree ==
    ASSUME NEW c, WrittenCall(c), NEW holds \in [DOMAIN c.tree -> BOOLEAN],
           \A n \in DOMAIN c.tree : c.tree[n].up = 0 => holds[n],
           \A n \in DOMAIN c.tree : c.tree[n].up # 0 /\ holds[c.tree[n].up] => holds[n]
    PROVE  \A n \in DOMAIN c.tree : holds[n]
<1> DEFINE N  == Len(c.tree)
           up == [n \in 1 .. N |-> c.tree[n].up]
<1>1. /\ N \in Nat /\ DOMAIN c.tree = 1 .. N
      /\ \A n \in 1 .. N : c.tree[n].up \in Nat /\ c.tree[n].up < n
  <2>1. c.tree \in Seq([up : Nat, key : Seq(STRING), kind : STRING, text : Seq(STRING)])
    BY DEF WrittenCall
  <2>2. N \in Nat /\ DOMAIN c.tree = 1 .. N
    BY <2>1, LenProperties
  <2> QED
    BY <2>2, WrittenNode
<1>2. IsTree(up, N)
    BY <1>1 DEF IsTree
<1>3. \A n \in 1 .. N : up[n] = c.tree[n].up
    OBVIOUS
<1>4. \A n \in 1 .. N : up[n] = 0 => holds[n] \in {TRUE}
    BY <1>1, <1>3
<1>5. \A n \in 1 .. N : up[n] # 0 /\ holds[up[n]] \in {TRUE} => holds[n] \in {TRUE}
    BY <1>1, <1>3
<1> HIDE DEF N, up
<1>6. \A n \in 1 .. N : holds[n] \in {TRUE}
    BY <1>2, <1>4, <1>5, RangeOnTree
<1> QED
    BY <1>1, <1>6

LEMMA AncestorsUnfold ==
    ASSUME NEW c, WrittenCall(c)
    PROVE  \A n \in DOMAIN c.tree :
               /\ Ancestors(c.tree, n) =
                      IF c.tree[n].up = 0 THEN {n} ELSE {n} \cup Ancestors(c.tree, c.tree[n].up)
               /\ Ancestors(c.tree, n) \subseteq 1 .. n
<1> DEFINE N    == Len(c.tree)
           M    == SUBSET (1 .. N)
           up   == [n \in 1 .. N |-> c.tree[n].up]
           base == [n \in 1 .. N |-> {n}]
           step == [n \in 1 .. N |-> [above \in M |-> {n} \cup above]]
           Unfolds(above) == above = [m \in DOMAIN c.tree |->
                                          IF c.tree[m].up = 0 THEN {m} ELSE {m} \cup above[c.tree[m].up]]
           all == CHOOSE above : Unfolds(above)
<1>1. N \in Nat /\ DOMAIN c.tree = 1 .. N
  <2>1. c.tree \in Seq([up : Nat, key : Seq(STRING), kind : STRING, text : Seq(STRING)])
    BY DEF WrittenCall
  <2> QED
    BY <2>1, LenProperties
<1>2. ASSUME NEW n \in 1 .. N
      PROVE  c.tree[n].up \in Nat /\ c.tree[n].up < n /\ (c.tree[n].up # 0 => c.tree[n].up \in 1 .. N)
    BY <1>1, WrittenNode
<1>3. IsTree(up, N)
    BY <1>1, <1>2 DEF IsTree
<1>4. Stepping(base, step, N, M)
  <2>1. base \in [1 .. N -> M]
    OBVIOUS
  <2>2. step \in [1 .. N -> [M -> M]]
    OBVIOUS
  <2> QED
    BY <2>1, <2>2 DEF Stepping
<1>5. PICK f \in [1 .. N -> M] :
            \A n \in 1 .. N : f[n] = IF up[n] = 0 THEN base[n] ELSE step[n][f[up[n]]]
  <2> HIDE DEF N, up, base, step, M
  <2> QED
    BY <1>3, <1>4, FunctionOnTree
<1>6. ASSUME NEW n \in 1 .. N
      PROVE  f[n] = IF c.tree[n].up = 0 THEN {n} ELSE {n} \cup f[c.tree[n].up]
    BY <1>2, <1>5
<1>7. Unfolds(f)
  <2>1. f = [n \in 1 .. N |-> f[n]]
    BY <1>5
  <2> HIDE DEF N
  <2> QED
    BY <1>1, <1>6, <2>1
<1>8. Unfolds(all)
  <2> HIDE DEF Unfolds
  <2> QED
    BY <1>7
<1>9. \A n : Ancestors(c.tree, n) = all[n]
    BY DEF Ancestors
<1>10. \A n \in DOMAIN c.tree : all[n] = IF c.tree[n].up = 0 THEN {n} ELSE {n} \cup all[c.tree[n].up]
  <2> HIDE DEF all
  <2> QED
    BY <1>8
<1> HIDE DEF all
<1> DEFINE holds == [n \in DOMAIN c.tree |-> all[n] \subseteq 1 .. n]
<1>11. \A n \in DOMAIN c.tree : holds[n]
  <2>1. holds \in [DOMAIN c.tree -> BOOLEAN]
    OBVIOUS
  <2>2. \A n \in DOMAIN c.tree : c.tree[n].up = 0 => holds[n]
    <3> SUFFICES ASSUME NEW n \in DOMAIN c.tree, c.tree[n].up = 0 PROVE holds[n]
        OBVIOUS
    <3>1. all[n] = {n}
        BY <1>10
    <3>2. n \in 1 .. n
        BY <1>1
    <3> QED
        BY <3>1, <3>2
  <2>3. \A n \in DOMAIN c.tree : c.tree[n].up # 0 /\ holds[c.tree[n].up] => holds[n]
    <3> SUFFICES ASSUME NEW n \in DOMAIN c.tree, c.tree[n].up # 0, holds[c.tree[n].up] PROVE holds[n]
        OBVIOUS
    <3>1. n \in Nat /\ c.tree[n].up \in Nat /\ c.tree[n].up < n /\ c.tree[n].up \in DOMAIN c.tree
        BY <1>1, <1>2
    <3>2. all[c.tree[n].up] \subseteq 1 .. c.tree[n].up
        BY <3>1
    <3>3. all[c.tree[n].up] \subseteq 1 .. n
        BY <3>1, <3>2
    <3>4. n \in 1 .. n
        BY <1>1
    <3>5. all[n] = {n} \cup all[c.tree[n].up]
        BY <1>10
    <3> QED
        BY <3>3, <3>4, <3>5
  <2> HIDE DEF holds
  <2> QED
    BY <2>1, <2>2, <2>3, DownTheTree
<1> QED
    BY <1>9, <1>10, <1>11

\* Between a value and one above it stands the way from its parent, and that.
LEMMA ParentBetween ==
    ASSUME NEW c, WrittenCall(c), NEW n \in DOMAIN c.tree, NEW m \in Subtree(c.tree, n) \ {n}
    PROVE  LET u == c.tree[m].up
           IN  /\ m \in DOMAIN c.tree /\ u # 0 /\ u \in Subtree(c.tree, n)
               /\ Between(c.tree, n, u) \subseteq Between(c.tree, n, m)
               /\ u # n => u \in Between(c.tree, n, m)
<1> DEFINE tree == c.tree
           u    == tree[m].up
<1>1. m \in DOMAIN tree /\ n \in Ancestors(tree, m) /\ m # n
    BY DEF Subtree
<1>2. u # 0 /\ Ancestors(tree, m) = {m} \cup Ancestors(tree, u)
  <2>1. Ancestors(tree, m) = IF u = 0 THEN {m} ELSE {m} \cup Ancestors(tree, u)
    BY <1>1, AncestorsUnfold, Zenon
  <2> QED
    BY <1>1, <2>1
<1>3. u \in DOMAIN tree /\ u < m /\ u \in Nat /\ m \in Nat /\ n \in Nat
    BY <1>1, <1>2, WrittenNode
<1>4. n \in Ancestors(tree, u) /\ u \in Ancestors(tree, u)
  <2>1. Ancestors(tree, u) = IF tree[u].up = 0 THEN {u} ELSE {u} \cup Ancestors(tree, tree[u].up)
    BY <1>3, AncestorsUnfold, Zenon
  <2> QED
    BY <1>1, <1>2, <2>1
<1>5. Ancestors(tree, u) \subseteq 1 .. u /\ Ancestors(tree, n) \subseteq 1 .. n
    BY <1>3, AncestorsUnfold
<1>6. m \notin Ancestors(tree, u) /\ n <= u
    BY <1>3, <1>4, <1>5
<1>7. u \in Ancestors(tree, n) => u = n
    BY <1>3, <1>5, <1>6
<1>8. u \in Subtree(tree, n)
    BY <1>3, <1>4 DEF Subtree
<1>9. Between(tree, n, u) \subseteq Between(tree, n, m)
    BY <1>2, <1>6 DEF Between
<1>10. u # n => u \in Between(tree, n, m)
    BY <1>2, <1>3, <1>4, <1>7 DEF Between
<1> QED
    BY <1>1, <1>2, <1>8, <1>9, <1>10

\* Under a value that is walked strictly, the nodes that name fields are too.
LEMMA NamingIsStrict ==
    ASSUME NEW c, WrittenCall(c), NEW n \in DOMAIN c.tree, Modes(c)[n] = "strict"
    PROVE  \A m \in Naming(c.tree, n) : Modes(c)[c.tree[m].up] = "strict"
<1> DEFINE tree == c.tree
           plain(x) == (tree[x].kind = "array" => IsOperator(tree[x].key)) /\ tree[x].key # <<"$", "facet">>
           named(m) == m \in Subtree(tree, n) \ {n} /\ \A x \in Between(tree, n, m) : plain(x)
           holds == [m \in DOMAIN tree |-> named(m) => Modes(c)[tree[m].up] = "strict"]
<1>1. holds \in [DOMAIN tree -> BOOLEAN]
    OBVIOUS
<1>2. \A m \in DOMAIN tree : tree[m].up = 0 => holds[m]
    BY ParentBetween
<1>3. ASSUME NEW m \in DOMAIN tree, tree[m].up # 0, holds[tree[m].up] PROVE holds[m]
  <2> DEFINE u == tree[m].up
  <2> SUFFICES ASSUME named(m) PROVE Modes(c)[u] = "strict"
    BY <1>3
  <2>1. u \in Subtree(tree, n) /\ Between(tree, n, u) \subseteq Between(tree, n, m)
        /\ (u # n => u \in Between(tree, n, m)) /\ u \in DOMAIN tree
    BY ParentBetween DEF Subtree
  <2>2. CASE u = n
    BY <2>2
  <2>3. CASE u # n
    <3>1. named(u) /\ plain(u)
        BY <2>1, <2>3
    <3>2. Modes(c)[tree[u].up] = "strict"
        BY <1>3, <2>1, <3>1
    <3>3. tree[u].up # 0
        BY <2>1, <2>3, ParentBetween
    <3>4. Modes(c)[u] = ModeUnder(tree, u, "strict")
        BY <2>1, <3>2, <3>3, ModesUnfold
    <3>5. tree[u].kind = "array" => tree[u].key # <<"pipeline">>
        BY <3>1 DEF IsOperator
    <3>6. FieldMode(tree[u], "strict") = "strict"
        BY <3>1, <3>5 DEF FieldMode
    <3>7. ModeUnder(tree, u, "strict") = "strict"
        BY <3>6 DEF ModeUnder
    <3> QED
        BY <3>4, <3>7
  <2> QED
    BY <2>2, <2>3
<1> HIDE DEF holds
<1>4. \A m \in DOMAIN tree : holds[m]
    BY <1>1, <1>2, <1>3, DownTheTree
<1>5. \A m \in Naming(tree, n) : m \in DOMAIN tree /\ named(m)
    BY DEF Naming, Subtree
<1> QED
    BY <1>4, <1>5 DEF holds

\* The path a node means is that of its parent and its own name.
LEMMA FieldPathUnfolds ==
    ASSUME NEW c, WrittenCall(c), NEW n
    PROVE  \A m \in DOMAIN c.tree :
               /\ FieldPath(c.tree, n, m) \in Seq(STRING)
               /\ FieldPath(c.tree, n, m) =
                      IF m = n \/ c.tree[m].up = 0 THEN << >>
                      ELSE FieldPath(c.tree, n, c.tree[m].up)
                           \o (IF IsOperator(c.tree[m].key) THEN << >> ELSE c.tree[m].key)
<1> DEFINE N    == Len(c.tree)
           M    == Seq(STRING)
           own(m) == IF IsOperator(c.tree[m].key) THEN << >> ELSE c.tree[m].key
           up   == [m \in 1 .. N |-> IF m = n THEN 0 ELSE c.tree[m].up]
           base == [m \in 1 .. N |-> << >>]
           step == [m \in 1 .. N |-> [above \in M |-> above \o own(m)]]
           Unfolds(path) == path = [m \in DOMAIN c.tree |->
                                        IF m = n \/ c.tree[m].up = 0 THEN << >>
                                        ELSE path[c.tree[m].up] \o own(m)]
           all == CHOOSE path : Unfolds(path)
<1>1. N \in Nat /\ DOMAIN c.tree = 1 .. N
  <2>1. c.tree \in Seq([up : Nat, key : Seq(STRING), kind : STRING, text : Seq(STRING)])
    BY DEF WrittenCall
  <2> QED
    BY <2>1, LenProperties
<1>2. ASSUME NEW m \in 1 .. N
      PROVE  c.tree[m].up \in Nat /\ c.tree[m].up < m /\ (c.tree[m].up # 0 => c.tree[m].up \in 1 .. N)
    BY <1>1, WrittenNode
<1>3. << >> \in M /\ \A m \in 1 .. N : own(m) \in M
  <2>1. << >> \in M
    OBVIOUS
  <2>2. \A m \in DOMAIN c.tree : c.tree[m].key \in M
    BY NodeTypes
  <2> HIDE DEF M
  <2> QED
    BY <1>1, <2>1, <2>2
<1>4. IsTree(up, N)
    BY <1>1, <1>2 DEF IsTree
<1>5. Stepping(base, step, N, M)
  <2> HIDE DEF own
  <2>1. base \in [1 .. N -> M]
    OBVIOUS
  <2>2. \A m \in 1 .. N : [above \in M |-> above \o own(m)] \in [M -> M]
    BY <1>3
  <2>3. step \in [1 .. N -> [M -> M]]
    BY <2>2
  <2> QED
    BY <2>1, <2>3 DEF Stepping
<1>6. PICK f \in [1 .. N -> M] :
            \A m \in 1 .. N : f[m] = IF up[m] = 0 THEN base[m] ELSE step[m][f[up[m]]]
  <2> HIDE DEF N, up, base, step, M
  <2> QED
    BY <1>4, <1>5, FunctionOnTree
<1>7. ASSUME NEW m \in 1 .. N
      PROVE  f[m] = IF m = n \/ c.tree[m].up = 0 THEN << >> ELSE f[c.tree[m].up] \o own(m)
  <2> HIDE DEF own, M
  <2>1. CASE m = n \/ c.tree[m].up = 0
    BY <1>6, <2>1
  <2>2. CASE m # n /\ c.tree[m].up # 0
    <3>1. up[m] = c.tree[m].up /\ up[m] # 0 /\ up[m] \in 1 .. N
        BY <1>2, <2>2
    <3>2. f[m] = step[m][f[up[m]]] /\ f[up[m]] \in M
        BY <1>6, <3>1
    <3> QED
        BY <2>2, <3>1, <3>2
  <2> QED
    BY <2>1, <2>2
<1>8. Unfolds(f)
  <2>1. f = [m \in 1 .. N |-> f[m]]
    BY <1>6
  <2> HIDE DEF N, M, own
  <2> QED
    BY <1>1, <1>7, <2>1
<1>9. Unfolds(all)
  <2> HIDE DEF Unfolds
  <2> QED
    BY <1>8
<1>10. \A m : FieldPath(c.tree, n, m) = all[m]
    BY DEF FieldPath
<1>11. \A m \in DOMAIN c.tree :
            all[m] = IF m = n \/ c.tree[m].up = 0 THEN << >> ELSE all[c.tree[m].up] \o own(m)
  <2> HIDE DEF all
  <2> QED
    BY <1>9
<1> HIDE DEF all
<1> DEFINE holds == [m \in DOMAIN c.tree |-> all[m] \in M]
<1>12. \A m \in DOMAIN c.tree : holds[m]
  <2> HIDE DEF own
  <2>1. holds \in [DOMAIN c.tree -> BOOLEAN]
    OBVIOUS
  <2>2. \A m \in DOMAIN c.tree : c.tree[m].up = 0 => holds[m]
    <3> HIDE DEF M
    <3> QED
        BY <1>3, <1>11
  <2>3. \A m \in DOMAIN c.tree : c.tree[m].up # 0 /\ holds[c.tree[m].up] => holds[m]
    <3> SUFFICES ASSUME NEW m \in DOMAIN c.tree, c.tree[m].up # 0, holds[c.tree[m].up] PROVE holds[m]
        OBVIOUS
    <3>1. c.tree[m].up \in DOMAIN c.tree
        BY WrittenNode
    <3>2. all[c.tree[m].up] \in M /\ own(m) \in M
        BY <1>1, <1>3, <3>1
    <3>3. all[c.tree[m].up] \o own(m) \in M /\ << >> \in M
        BY <3>2
    <3> QED
        BY <1>11, <3>3
  <2> HIDE DEF holds
  <2> QED
    BY <2>1, <2>2, <2>3, DownTheTree
<1> QED
    BY <1>10, <1>11, <1>12

\* A filter or an order that is walked strictly names no protected field.
LEMMA StrictIsClear ==
    ASSUME NEW p, NEW c, LetThrough(p, c), NEW n \in DOMAIN c.tree, Modes(c)[n] = "strict"
    PROVE  Clear(ProtectedNames(p, c), c.tree, n)
<1> DEFINE tree == c.tree
           names == ProtectedNames(p, c)
           path(m) == FieldPath(tree, n, m)
           own(m) == IF IsOperator(tree[m].key) THEN << >> ELSE tree[m].key
           holds == [m \in DOMAIN tree |-> m \in Naming(tree, n) \cup {n} => ~PathHit(names, path(m))]
<1>1. \A m \in Naming(tree, n) :
            /\ m \in Subtree(tree, n) \ {n} /\ m \in DOMAIN tree /\ tree[m].up # 0
            /\ tree[m].up \in Naming(tree, n) \cup {n} /\ tree[m].up \in DOMAIN tree
  <2> SUFFICES ASSUME NEW m \in Naming(tree, n)
               PROVE  /\ m \in Subtree(tree, n) \ {n} /\ m \in DOMAIN tree /\ tree[m].up # 0
                      /\ tree[m].up \in Naming(tree, n) \cup {n} /\ tree[m].up \in DOMAIN tree
    OBVIOUS
  <2>1. m \in Subtree(tree, n) \ {n}
    BY DEF Naming
  <2>2. /\ m \in DOMAIN tree /\ tree[m].up # 0 /\ tree[m].up \in Subtree(tree, n)
        /\ Between(tree, n, tree[m].up) \subseteq Between(tree, n, m)
    BY <2>1, ParentBetween DEF LetThrough
  <2>3. tree[m].up # n => tree[m].up \in Naming(tree, n)
    BY <2>2 DEF Naming
  <2> QED
    BY <2>1, <2>2, <2>3 DEF Subtree
<1>2. \A m \in DOMAIN tree : path(m) \in Seq(STRING) /\ own(m) \in Seq(STRING)
    BY FieldPathUnfolds, NodeTypes DEF LetThrough
<1>3. \A m \in Naming(tree, n) : ~PathHit(names, own(m))
  <2> SUFFICES ASSUME NEW m \in Naming(tree, n) PROVE ~PathHit(names, own(m))
    OBVIOUS
  <2>1. Modes(c)[tree[m].up] = "strict"
    BY NamingIsStrict DEF LetThrough
  <2> QED
    BY <1>1, <2>1, NothingHit, StrictFields
<1>4. path(n) = << >>
    BY FieldPathUnfolds DEF LetThrough
<1>5. \A m \in Naming(tree, n) : path(m) = path(tree[m].up) \o own(m)
    BY <1>1, FieldPathUnfolds DEF LetThrough
<1> HIDE DEF path, own
<1>6. \A m \in DOMAIN tree : holds[m]
  <2>1. holds \in [DOMAIN tree -> BOOLEAN]
    OBVIOUS
  <2>2. \A m \in DOMAIN tree : tree[m].up = 0 => holds[m]
    BY <1>1, <1>4, NothingHit
  <2>3. \A m \in DOMAIN tree : tree[m].up # 0 /\ holds[tree[m].up] => holds[m]
    <3> SUFFICES ASSUME NEW m \in DOMAIN tree, tree[m].up # 0, holds[tree[m].up] PROVE holds[m]
        OBVIOUS
    <3>1. CASE m = n
        BY <1>4, <3>1, NothingHit
    <3>2. CASE m \in Naming(tree, n)
      <4>1. ~PathHit(names, path(tree[m].up)) /\ ~PathHit(names, own(m))
        BY <1>1, <1>3, <3>2
      <4>2. path(tree[m].up) \in Seq(STRING) /\ own(m) \in Seq(STRING)
        BY <1>1, <1>2, <3>2
      <4>3. ~PathHit(names, path(tree[m].up) \o own(m))
        BY <4>1, <4>2, HitJoined
      <4> QED
        BY <1>5, <3>2, <4>3
    <3> QED
        BY <3>1, <3>2
  <2> HIDE DEF holds
  <2> QED
    BY <2>1, <2>2, <2>3, DownTheTree DEF LetThrough
<1>7. \A m \in Naming(tree, n) : path(m) \in Seq(STRING) /\ ~PathHit(names, path(m))
    BY <1>1, <1>2, <1>6
<1>8. \A m \in Fields(tree, n) : ~PathHit(names, tree[m].key)
  <2> SUFFICES ASSUME NEW m \in Fields(tree, n) PROVE ~PathHit(names, tree[m].key)
    OBVIOUS
  <2>1. m \in DOMAIN tree /\ tree[m].up = n /\ ~IsOperator(tree[m].key) /\ n # 0
    BY WrittenNode DEF Fields, Under, LetThrough
  <2> QED
    BY <2>1, StrictFields
<1> QED
    BY <1>7, <1>8 DEF Clear, path

-----------------------------------------------------------------------------
(* MongoDB: pipelines.                                                         *)

\* A pipeline of a call, where the walk takes it for one.
IsPipeline(c, n) == n \in DOMAIN c.tree /\ c.tree[n].kind = "array" /\ Modes(c)[n] = "pipeline"

LEMMA StageKeys ==
    ASSUME NEW key, IsOperator(key)
    PROVE  /\ key # <<"pipeline">>
           /\ key = <<"$", "facet">> => key[2] = "facet"
           /\ key = <<"$", "project">> => key[2] = "project"
           /\ \A name : key # <<name>>
<1>1. Len(key) = 2
    BY DEF IsOperator
<1>2. \A name : Len(<<name>>) = 1
    OBVIOUS
<1>3. \A name : key # <<name>>
    BY <1>1, <1>2
<1> QED
    BY <1>3

LEMMA NodesArePositive ==
    ASSUME NEW c, WrittenCall(c)
    PROVE  \A n \in DOMAIN c.tree : n # 0 /\ n \in Nat
BY WrittenNode

\* An element of a pipeline holds one stage, and the walk judges it as one.
HoldsStage(p, c, i, x) ==
    /\ i \in DOMAIN c.tree /\ x \in DOMAIN c.tree /\ c.tree[x].up = i /\ i # 0 /\ x # 0
    /\ c.tree[i].kind = "doc" /\ Modes(c)[i] = "stage" /\ x \in Live(c.tree)
    /\ Modes(c)[x] = FieldMode(c.tree[x], IF c.tree[x].key = <<"$", "project">> THEN "projection" ELSE "strict")
    /\ NodeJudged(p, ProtectedNames(p, c), c, x)

LEMMA ElementsHoldStages ==
    ASSUME NEW p, NEW c, LetThrough(p, c), NEW n, IsPipeline(c, n), NEW i \in Under(c.tree, n)
    PROVE  HoldsStage(p, c, i, StageOf(c.tree, i))
<1> DEFINE tree == c.tree
           x == StageOf(tree, i)
<1>1. i \in DOMAIN tree /\ tree[i].up = n /\ n # 0 /\ i # 0
    BY WrittenNode DEF Under, IsPipeline, LetThrough
<1>2. Modes(c)[i] = "stage"
  <2>1. Modes(c)[i] = ModeUnder(tree, i, "pipeline")
    BY <1>1, ModesUnfold DEF IsPipeline, LetThrough
  <2> QED
    BY <2>1 DEF ModeUnder
<1>3. NodeJudged(p, ProtectedNames(p, c), c, i)
  <2>1. ~Spelled(tree, n)
    BY DEF Spelled, IsPipeline
  <2> QED
    BY <1>1, <2>1, WalkVisits DEF LetThrough, Live
<1>4. tree[i].kind = "doc" /\ ~Spelled(tree, i) /\ Cardinality(Under(tree, i)) = 1
    BY <1>2, <1>3 DEF NodeJudged
<1>5. Under(tree, i) # {}
    BY <1>4, FS_EmptySet
<1>6. x \in DOMAIN tree /\ tree[x].up = i /\ x # 0
  <2>1. x \in Under(tree, i)
    BY <1>5 DEF StageOf
  <2> HIDE DEF x
  <2> QED
    BY <2>1, NodesArePositive DEF Under, LetThrough
<1> HIDE DEF x
<1>7. x \in Live(tree)
    BY <1>4, <1>6 DEF Live
<1>8. NodeJudged(p, ProtectedNames(p, c), c, x)
    BY <1>6, <1>7, WalkVisits DEF LetThrough
<1>9. Modes(c)[x] = ModeUnder(tree, x, "stage")
    BY <1>1, <1>2, <1>6, ModesUnfold DEF LetThrough
<1>10. ModeUnder(tree, x, "stage") =
            FieldMode(tree[x], IF tree[x].key = <<"$", "project">> THEN "projection" ELSE "strict")
    BY Zenon DEF ModeUnder
<1> QED
    BY <1>1, <1>2, <1>4, <1>6, <1>7, <1>8, <1>9, <1>10 DEF x, HoldsStage

\* What the walk makes sure of in a stage, as StageIsSane needs it.
LEMMA StagesJudged ==
    ASSUME NEW p, NEW c, LetThrough(p, c), NEW n, IsPipeline(c, n), NEW i \in Under(c.tree, n),
           NEW x, x = StageOf(c.tree, i), IsOperator(c.tree[x].key)
    PROVE  StageJudged(ProtectedNames(p, c), c.tree, x)
<1> DEFINE tree == c.tree
           names == ProtectedNames(p, c)
           op == tree[x].key[2]
<1>1. /\ i \in DOMAIN tree /\ x \in DOMAIN tree /\ tree[x].up = i /\ i # 0 /\ x # 0 /\ tree[i].kind = "doc"
      /\ Modes(c)[i] = "stage" /\ NodeJudged(p, names, c, x)
      /\ Modes(c)[x] = FieldMode(tree[x], IF tree[x].key = <<"$", "project">> THEN "projection" ELSE "strict")
    BY ElementsHoldStages DEF HoldsStage
<1>2. op \notin {"project", "facet"} => Modes(c)[x] = "strict"
  <2> SUFFICES ASSUME op \notin {"project", "facet"} PROVE Modes(c)[x] = "strict"
    OBVIOUS
  <2>1. tree[x].key # <<"pipeline">> /\ tree[x].key # <<"$", "facet">> /\ tree[x].key # <<"$", "project">>
    BY StageKeys
  <2> QED
    BY <1>1, <2>1 DEF FieldMode
<1>3. op \in {"match", "sort"} => Clear(names, tree, x)
    BY <1>1, <1>2, StrictIsClear
<1>4. ASSUME NEW name \in {"sortBy", "restrictSearchWithMatch"}, NEW m \in Field(tree, x, name),
             op \in {"setWindowFields", "graphLookup"}
      PROVE  Clear(names, tree, m)
  <2>1. m \in DOMAIN tree /\ tree[m].up = x /\ tree[m].key = <<name>> /\ x # 0
    BY <1>1 DEF Field, Under
  <2>2. ~IsOperator(tree[m].key) /\ tree[m].key # <<"pipeline">> /\ tree[m].key # <<"$", "facet">>
    <3>1. Len(<<name>>) = 1 /\ <<name>>[1] = name /\ Len(<<"$", "facet">>) = 2 /\ <<"pipeline">>[1] = "pipeline"
        OBVIOUS
    <3> QED
        BY <2>1, <3>1 DEF IsOperator
  <2>3. Modes(c)[m] = ModeUnder(tree, m, "strict")
    <3>1. Modes(c)[m] = ModeUnder(tree, m, Modes(c)[tree[m].up])
        BY <2>1, ModesUnfold DEF LetThrough
    <3>2. Modes(c)[x] = "strict"
        BY <1>2, <1>4
    <3> QED
        BY <2>1, <3>1, <3>2
  <2>4. FieldMode(tree[m], "strict") = "strict"
    BY <2>2 DEF FieldMode
  <2>5. Modes(c)[m] = "strict"
    BY <2>3, <2>4 DEF ModeUnder
  <2> QED
    BY <2>1, <2>5, StrictIsClear
<1>5. ASSUME op \in {"lookup", "graphLookup"}, NEW name \in JoinFields, NEW text \in Texts(tree, Field(tree, x, name))
      PROVE  ~PathHit(names, text)
  <2>1. CASE names = {}
    BY <2>1, NothingNamed
  <2>2. CASE names # {}
    <3>1. PICK m \in Field(tree, x, name) : tree[m].kind = "string" /\ tree[m].text = text
        BY DEF Texts
    <3>2. m \in Under(tree, x) /\ m \in DOMAIN tree /\ tree[m].up = x /\ tree[m].key = <<name>> /\ x # 0
        BY <1>1 DEF Field, Under
    <3>3. Len(<<name>>) = 1 /\ <<name>>[1] = name /\ <<name>> # << >>
        OBVIOUS
    <3>4. tree[x].kind = "doc"
        BY <3>2, <3>3, WrittenNode DEF LetThrough
    <3>5. ~Spelled(tree, x)
        BY <3>2, <3>3 DEF Spelled, OperatorIn, IsOperator
    <3>6. StageObjections(p, names, tree, x) = {}
        BY <1>1, <2>2 DEF NodeJudged
    <3>7. ~(tree[m].kind = "string" /\ PathHit(names, tree[m].text))
        BY <1>5, <3>2, <3>3, <3>4, <3>5, <3>6 DEF StageObjections, When
    <3> QED
        BY <3>1, <3>7
  <2> QED
    BY <2>1, <2>2
<1> QED
    BY <1>1, <1>3, <1>4, <1>5 DEF StageJudged

\* A pipeline in a stage is walked as one, in a branch of $facet too.
LEMMA InnerPipelines ==
    ASSUME NEW p, NEW c, LetThrough(p, c), NEW n, IsPipeline(c, n), NEW i \in Under(c.tree, n),
           NEW x, x = StageOf(c.tree, i), IsOperator(c.tree[x].key), NEW m \in Under(c.tree, x),
           c.tree[m].kind = "array",
           \/ c.tree[m].key = <<"pipeline">>
           \/ c.tree[x].key[2] = "facet" /\ c.tree[x].kind = "doc"
    PROVE  IsPipeline(c, m)
<1> DEFINE tree == c.tree
           around == Modes(c)[x]
<1>1. /\ x \in DOMAIN tree /\ x # 0
      /\ around = FieldMode(tree[x], IF tree[x].key = <<"$", "project">> THEN "projection" ELSE "strict")
    BY ElementsHoldStages DEF HoldsStage
<1>2. m \in DOMAIN tree /\ tree[m].up = x
    BY DEF Under
<1>3. Modes(c)[m] = ModeUnder(tree, m, around)
  <2>1. Modes(c)[m] = ModeUnder(tree, m, Modes(c)[tree[m].up])
    BY <1>1, <1>2, ModesUnfold DEF LetThrough
  <2> QED
    BY <1>2, <2>1
<1>4. CASE around = "facets"
    BY <1>2, <1>3, <1>4 DEF ModeUnder, IsPipeline
<1>5. CASE around # "facets"
  <2>1. ~(tree[x].key = <<"$", "facet">> /\ tree[x].kind = "doc")
    BY <1>1, <1>5 DEF FieldMode
  <2>2. tree[x].key[2] = "facet" => tree[x].key = <<"$", "facet">>
    <3>1. tree[x].key \in Seq(STRING) /\ Len(tree[x].key) = 2 /\ tree[x].key[1] = "$"
        BY <1>1, NodeTypes DEF IsOperator, LetThrough
    <3> DEFINE key == tree[x].key
    <3>2. key = <<key[1], key[2]>>
      <4> DEFINE S == STRING
      <4>1. key \in Seq(S) /\ Len(key) = 2
        BY <3>1
      <4> HIDE DEF S, key
      <4> QED
        BY <4>1
    <3> QED
        BY <3>1, <3>2
  <2>3. tree[m].key = <<"pipeline">>
    BY <2>1, <2>2
  <2>4. tree[x].kind = "doc"
    <3>1. <<"pipeline">> # << >>
        OBVIOUS
    <3>2. /\ tree[x].kind \in {"doc", "array"}
          /\ tree[x].kind = "array" => tree[m].key = << >>
        BY <1>1, <1>2, WrittenNode DEF LetThrough
    <3> QED
        BY <2>3, <3>1, <3>2
  <2>5. \A value : FieldMode(tree[m], value) = "pipeline"
    <3>1. <<"pipeline">> # <<"$", "facet">>
        OBVIOUS
    <3> QED
        BY <2>3, <3>1 DEF FieldMode
  <2>6. around \in {"projection", "strict"}
    <3>1. tree[x].key # <<"pipeline">>
        BY StageKeys
    <3> QED
        BY <1>1, <2>1, <3>1 DEF FieldMode
  <2>7. ModeUnder(tree, m, around) = "pipeline"
    <3>1. tree[tree[m].up].kind # "array"
        BY <1>2, <2>4
    <3> HIDE DEF around
    <3>2. CASE around = "projection"
        BY <2>5, <3>1, <3>2 DEF ModeUnder
    <3>3. CASE around = "strict"
        BY <2>5, <3>1, <3>3 DEF ModeUnder
    <3> QED
        BY <2>6, <3>2, <3>3
  <2> QED
    BY <1>2, <1>3, <2>7 DEF IsPipeline
<1> QED
    BY <1>4, <1>5

\* What pipelines make of documents nothing protected shows in.
PipelinesSane(p, names, c, inner) ==
    \A m, d, around :
        IsPipeline(c, m) /\ Tame(p, names, d) /\ Tame(p, names, around) => Sane(p, names, inner[<<m, d, around>>])

\* The collection a stage brings is one whose names are protected.
LEMMA JoinedIsSane ==
    ASSUME NEW p, NEW c, LetThrough(p, c), c.method = "aggregate", NEW n, IsPipeline(c, n),
           NEW i \in Under(c.tree, n), NEW x, x = StageOf(c.tree, i), IsOperator(c.tree[x].key),
           NEW held, Tame(p, ProtectedNames(p, c), held),
           NEW inner, PipelinesSane(p, ProtectedNames(p, c), c, inner)
    PROVE  Sane(p, ProtectedNames(p, c), Joined1(c, x, held, inner))
<1> DEFINE tree  == c.tree
           names == ProtectedNames(p, c)
           texts == Texts(tree, NamedSources(tree, x)) \ {<< >>}
           whole == UNION {Contents(text[1]) : text \in texts}
           runs  == {m \in Field(tree, x, "pipeline") : tree[m].kind = "array"}
           run   == CHOOSE m \in runs : TRUE
<1>1. x \in Live(tree)
    BY ElementsHoldStages DEF HoldsStage
<1>2. \A text \in texts : text[1] \in Collections(c)
  <2> SUFFICES ASSUME NEW text \in texts PROVE text[1] \in Collections(c)
    OBVIOUS
  <2>1. PICK m \in NamedSources(tree, x) : tree[m].kind = "string" /\ tree[m].text = text /\ text # << >>
    BY DEF Texts
  <2> QED
    BY <1>1, <2>1 DEF Collections
<1>3. Tame(p, names, whole)
  <2>1. \A text \in texts : Tame(p, names, Contents(text[1]))
    BY <1>2, TameContents
  <2> HIDE DEF texts, names
  <2> QED
    BY <2>1, TameUnion
<1> HIDE DEF texts, whole
<1>4. CASE runs = {}
  <2>1. Joined1(c, x, held, inner) = [d |-> whole, decides |-> {}]
    BY <1>4 DEF Joined1, whole, texts
  <2> QED
    BY <1>3, <2>1, NoDocument DEF Sane
<1>5. CASE runs # {}
  <2>1. Joined1(c, x, held, inner) = inner[<<run, whole, held>>]
    BY <1>5 DEF Joined1, whole, texts
  <2>2. run \in runs
    BY <1>5
  <2> HIDE DEF run
  <2>3. run \in Under(tree, x) /\ tree[run].kind = "array" /\ tree[run].key = <<"pipeline">>
    BY <2>2 DEF Field
  <2>4. IsPipeline(c, run)
    BY <2>3, InnerPipelines
  <2> QED
    BY <1>3, <2>1, <2>4 DEF PipelinesSane
<1> QED
    BY <1>4, <1>5

LEMMA PassedIsSane ==
    ASSUME NEW p, NEW c, LetThrough(p, c), c.method = "aggregate", NEW n, IsPipeline(c, n), NEW i,
           NEW around, Tame(p, ProtectedNames(p, c), around),
           NEW inner, PipelinesSane(p, ProtectedNames(p, c), c, inner),
           NEW before, Sane(p, ProtectedNames(p, c), before)
    PROVE  Sane(p, ProtectedNames(p, c), Passed(c, n, i, before, around, inner))
<1> DEFINE names == ProtectedNames(p, c)
           x     == StageOf(c.tree, i)
           held  == around \cup Held(before.d, c.tree)
<1>1. CASE ~(i \in Under(c.tree, n) /\ IsOperator(c.tree[x].key))
    BY <1>1 DEF Passed
<1>2. CASE i \in Under(c.tree, n) /\ IsOperator(c.tree[x].key)
  <2>1. Passed(c, n, i, before, around, inner) = Stage(c, x, before, around, inner)
    BY <1>2 DEF Passed
  <2>2. PICK s : s = x
    OBVIOUS
  <2>3. StageJudged(names, c.tree, s)
    BY <1>2, <2>2, StagesJudged
  <2>4. Ready(p, names, c.tree, before.d, around)
    BY CallIsQuiet DEF Ready, Sane
  <2>5. Ready(p, names, c.tree, before.d, held)
    BY <2>4, HeldReady
  <2>6. Sane(p, names, Joined1(c, s, held, inner))
    BY <1>2, <2>2, <2>5, JoinedIsSane DEF Ready
  <2>7. ASSUME NEW m \in Under(c.tree, s), c.tree[s].key[2] = "facet", c.tree[s].kind = "doc",
               c.tree[m].kind = "array"
        PROVE  Sane(p, names, inner[<<m, before.d, held>>])
    <3>1. IsPipeline(c, m)
        BY <1>2, <2>2, <2>7, InnerPipelines
    <3> QED
        BY <2>5, <3>1 DEF PipelinesSane, Ready
  <2>8. Cold(p, before.decides)
    BY DEF Sane
  <2>9. Sane(p, names, Stage(c, s, before, around, inner))
    <3> HIDE DEF names
    <3> QED
        BY <2>3, <2>4, <2>6, <2>7, <2>8, StageIsSane
  <2> QED
    BY <2>1, <2>2, <2>9
<1> QED
    BY <1>1, <1>2

\* A pipeline applies its stages one after another.
StageByStage(c, n, d, around, inner, h) ==
    /\ Pipeline(c, n, d, around, inner) = h[Len(c.tree)]
    /\ \A i \in 0 .. Len(c.tree) :
           h[i] = IF i = 0 THEN [d |-> d, decides |-> {}] ELSE Passed(c, n, i, h[i - 1], around, inner)

LEMMA PipelineUnfolds ==
    ASSUME NEW c, Len(c.tree) \in Nat, NEW n, NEW d, NEW around, NEW inner
    PROVE  \E h : StageByStage(c, n, d, around, inner, h)
<1> DEFINE N == Len(c.tree)
           first == [d |-> d, decides |-> {}]
           next(before, i) == Passed(c, n, i, before, around, inner)
           Upto(m, g) == g = [i \in 0 .. m |-> IF i = 0 THEN first ELSE next(g[i - 1], i)]
           after == CHOOSE g : Upto(N, g)
<1>1. Pipeline(c, n, d, around, inner) = after[N]
    BY DEF Pipeline
<1> HIDE DEF N, first, next
<1>2. N \in Nat
    BY DEF N
<1>3. \E g : Upto(0, g)
  <2>1. [i \in 0 .. 0 |-> first] = [i \in 0 .. 0 |-> IF i = 0 THEN first ELSE next([k \in 0 .. 0 |-> first][i - 1], i)]
    OBVIOUS
  <2> QED
    BY <2>1
<1>4. ASSUME NEW m \in Nat, m # 0, NEW h, Upto(m - 1, h) PROVE \E g : Upto(m, g)
  <2> DEFINE g == [i \in 0 .. m |-> IF i = m THEN next(h[m - 1], m) ELSE h[i]]
  <2>1. \A i \in 0 .. (m - 1) : h[i] = IF i = 0 THEN first ELSE next(h[i - 1], i)
    <3>1. \A a : h = a => \A i \in 0 .. (m - 1) : h[i] = a[i]
        OBVIOUS
    <3> QED
        BY <1>4, <3>1
  <2>2. ASSUME NEW i \in 0 .. m PROVE g[i] = IF i = 0 THEN first ELSE next(g[i - 1], i)
    <3>1. CASE i = 0
        BY <1>4, <2>1, <3>1
    <3>2. CASE i # 0 /\ i # m
      <4>1. i \in 0 .. (m - 1) /\ i - 1 \in 0 .. (m - 1) /\ i - 1 # m /\ i - 1 \in 0 .. m
        BY <3>2
      <4>2. g[i] = h[i] /\ g[i - 1] = h[i - 1]
        BY <3>2, <4>1
      <4> QED
        BY <2>1, <3>2, <4>1, <4>2
    <3>3. CASE i # 0 /\ i = m
      <4>1. i - 1 \in 0 .. m /\ i - 1 # m
        BY <3>3
      <4>2. g[i] = next(h[m - 1], m) /\ g[i - 1] = h[m - 1]
        BY <3>3, <4>1
      <4> QED
        BY <3>3, <4>2
    <3> QED
        BY <3>1, <3>2, <3>3
  <2>3. g = [i \in 0 .. m |-> g[i]]
    OBVIOUS
  <2>4. Upto(m, g)
    <3> HIDE DEF g
    <3> QED
        BY <2>2, <2>3
  <2> QED
    BY <2>4
<1>5. \E g : Upto(N, g)
  <2> DEFINE T == {m \in Nat : ~\E g : Upto(m, g)}
  <2> HIDE DEF Upto
  <2> SUFFICES ASSUME T # {} PROVE FALSE
    BY <1>2
  <2>1. PICK m \in T : \A k \in T : m <= k
    BY LeastNatural
  <2>2. m \in Nat /\ m # 0
    BY <1>3, <2>1
  <2>3. m - 1 \in Nat /\ m - 1 \notin T
    BY <2>1, <2>2
  <2>4. \E h : Upto(m - 1, h)
    BY <2>3
  <2>5. \E g : Upto(m, g)
    BY <1>4, <2>2, <2>4
  <2> QED
    BY <2>1, <2>5
<1>6. Upto(N, after)
  <2> HIDE DEF Upto
  <2> QED
    BY <1>5
<1>7. \A i \in 0 .. N : after[i] = IF i = 0 THEN first ELSE next(after[i - 1], i)
  <2>1. \A a : after = a => \A i \in 0 .. N : after[i] = a[i]
    OBVIOUS
  <2> HIDE DEF after
  <2> QED
    BY <1>6, <2>1
<1> HIDE DEF after
<1> QED
    BY <1>1, <1>7 DEF N, first, next, StageByStage

\* The pipelines of a call: those no deeper than k run with those inside them.
LEMMA AggregatedUnfolds ==
    ASSUME NEW c, Len(c.tree) \in Nat
    PROVE  \E h : /\ Aggregated(c) = h[Len(c.tree)]
                  /\ \A k \in 0 .. Len(c.tree) :
                         h[k] = [x \in (DOMAIN c.tree) \X Documents \X Documents |->
                                    IF k = 0 THEN [d |-> x[2], decides |-> {}]
                                    ELSE Pipeline(c, x[1], x[2], x[3], h[k - 1])]
<1> DEFINE N == Len(c.tree)
           Runnable == (DOMAIN c.tree) \X Documents \X Documents
           first == [x \in Runnable |-> [d |-> x[2], decides |-> {}]]
           next(before) == [x \in Runnable |-> Pipeline(c, x[1], x[2], x[3], before)]
           Runs1(g) == g = [k \in 0 .. N |-> [x \in Runnable |->
                                IF k = 0 THEN [d |-> x[2], decides |-> {}]
                                ELSE Pipeline(c, x[1], x[2], x[3], g[k - 1])]]
           Upto(m, g) == \A k \in 0 .. m : g[k] = IF k = 0 THEN first ELSE next(g[k - 1])
           run == CHOOSE g : Runs1(g)
<1>1. Aggregated(c) = run[N]
    BY DEF Aggregated
<1> HIDE DEF N
<1>2. N \in Nat
    BY DEF N
<1>3. \E g : Upto(0, g)
  <2>1. [i \in 0 .. 0 |-> first][0] = first
    OBVIOUS
  <2> HIDE DEF first, next
  <2>2. Upto(0, [i \in 0 .. 0 |-> first])
    BY <2>1
  <2> QED
    BY <2>2
<1>4. ASSUME NEW m \in Nat, m # 0, NEW h, Upto(m - 1, h) PROVE \E g : Upto(m, g)
  <2> HIDE DEF first, next
  <2> DEFINE g == [i \in 0 .. m |-> IF i = m THEN next(h[m - 1]) ELSE h[i]]
  <2>1. ASSUME NEW i \in 0 .. m PROVE g[i] = IF i = 0 THEN first ELSE next(g[i - 1])
    <3>1. CASE i = 0
        BY <1>4, <3>1
    <3>2. CASE i # 0 /\ i # m
      <4>1. i \in 0 .. (m - 1) /\ i - 1 \in 0 .. (m - 1) /\ i - 1 # m /\ i - 1 \in 0 .. m
        BY <3>2
      <4>2. g[i] = h[i] /\ g[i - 1] = h[i - 1]
        BY <3>2, <4>1
      <4> QED
        BY <1>4, <3>2, <4>1, <4>2
    <3>3. CASE i # 0 /\ i = m
      <4>1. i - 1 \in 0 .. m /\ i - 1 # m
        BY <3>3
      <4>2. g[i] = next(h[m - 1]) /\ g[i - 1] = h[m - 1]
        BY <3>3, <4>1
      <4> QED
        BY <3>3, <4>2
    <3> QED
        BY <3>1, <3>2, <3>3
  <2>2. Upto(m, g)
    <3> HIDE DEF g
    <3> QED
        BY <2>1
  <2> QED
    BY <2>2
<1>5. \E g : Upto(N, g)
  <2> DEFINE T == {m \in Nat : ~\E g : Upto(m, g)}
  <2> HIDE DEF Upto
  <2> SUFFICES ASSUME T # {} PROVE FALSE
    BY <1>2
  <2>1. PICK m \in T : \A k \in T : m <= k
    BY LeastNatural
  <2>2. m \in Nat /\ m # 0
    BY <1>3, <2>1
  <2>3. m - 1 \in Nat /\ m - 1 \notin T
    BY <2>1, <2>2
  <2>4. \E h : Upto(m - 1, h)
    BY <2>3
  <2>5. \E g : Upto(m, g)
    BY <1>4, <2>2, <2>4
  <2> QED
    BY <2>1, <2>5
<1>6. PICK h : Upto(N, h)
    BY <1>5
<1> DEFINE g == [k \in 0 .. N |-> h[k]]
           level(k, f) == [x \in Runnable |-> IF k = 0 THEN [d |-> x[2], decides |-> {}]
                                           ELSE Pipeline(c, x[1], x[2], x[3], f[k - 1])]
<1>7. \A k, f : level(k, f) = IF k = 0 THEN first ELSE next(f[k - 1])
  <2> SUFFICES ASSUME NEW k, NEW f PROVE level(k, f) = IF k = 0 THEN first ELSE next(f[k - 1])
    OBVIOUS
  <2> HIDE DEF Runnable
  <2>1. CASE k = 0
    BY <2>1
  <2>2. CASE k # 0
    BY <2>2
  <2> QED
    BY <2>1, <2>2
<1>8. \E f : Runs1(f)
  <2>1. ASSUME NEW k \in 0 .. N PROVE g[k] = IF k = 0 THEN first ELSE next(g[k - 1])
    <3> HIDE DEF first, next
    <3>1. k # 0 => k - 1 \in 0 .. N
        BY <1>2
    <3> QED
        BY <1>6, <3>1
  <2>2. \A k \in 0 .. N : g[k] = level(k, g)
    <3> HIDE DEF g, level, first, next
    <3> QED
        BY <1>7, <2>1
  <2>3. g = [k \in 0 .. N |-> level(k, g)]
    <3>1. g = [k \in 0 .. N |-> g[k]]
        OBVIOUS
    <3> HIDE DEF g, level
    <3> QED
        BY <2>2, <3>1
  <2> QED
    BY <2>3
<1>9. Runs1(run)
  <2> HIDE DEF Runs1
  <2> QED
    BY <1>8
<1>10. \A k \in 0 .. N : run[k] = level(k, run)
  <2>1. run = [k \in 0 .. N |-> level(k, run)]
    BY <1>9
  <2> HIDE DEF run, level
  <2> QED
    BY <2>1
<1> HIDE DEF run
<1> QED
    BY <1>1, <1>10 DEF N

-----------------------------------------------------------------------------
(* MongoDB: the call.                                                          *)

LEMMA TreeLength ==
    ASSUME NEW c, WrittenCall(c)
    PROVE  Len(c.tree) \in Nat
<1> DEFINE S == [up : Nat, key : Seq(STRING), kind : STRING, text : Seq(STRING)]
<1>1. c.tree \in Seq(S)
    BY DEF WrittenCall
<1> HIDE DEF S
<1> QED
    BY <1>1, LenProperties

LEMMA PipelineIsSane ==
    ASSUME NEW p, NEW c, LetThrough(p, c), c.method = "aggregate", NEW n, IsPipeline(c, n),
           NEW d, Tame(p, ProtectedNames(p, c), d),
           NEW around, Tame(p, ProtectedNames(p, c), around),
           NEW inner, PipelinesSane(p, ProtectedNames(p, c), c, inner)
    PROVE  Sane(p, ProtectedNames(p, c), Pipeline(c, n, d, around, inner))
<1> DEFINE names == ProtectedNames(p, c)
           N == Len(c.tree)
<1>1. N \in Nat
    BY TreeLength DEF LetThrough
<1>2. PICK h : StageByStage(c, n, d, around, inner, h)
    BY <1>1, PipelineUnfolds
<1>3. /\ Pipeline(c, n, d, around, inner) = h[N]
      /\ \A i \in 0 .. N : h[i] = IF i = 0 THEN [d |-> d, decides |-> {}]
                                  ELSE Passed(c, n, i, h[i - 1], around, inner)
    BY <1>2 DEF StageByStage
<1> HIDE DEF N
<1>4. Sane(p, names, h[0])
  <2>1. h[0] = [d |-> d, decides |-> {}]
    BY <1>1, <1>3
  <2>2. Tame(p, names, d) /\ Cold(p, {})
    BY NoDocument
  <2> QED
    BY <2>1, <2>2 DEF Sane
<1>5. ASSUME NEW i \in 0 .. N, i # 0, Sane(p, names, h[i - 1]) PROVE Sane(p, names, h[i])
  <2>1. h[i] = Passed(c, n, i, h[i - 1], around, inner)
    BY <1>3, <1>5
  <2>2. PICK before : before = h[i - 1]
    OBVIOUS
  <2>3. Sane(p, names, Passed(c, n, i, before, around, inner))
    BY <1>5, <2>2, PassedIsSane
  <2> QED
    BY <2>1, <2>2, <2>3
<1> HIDE DEF names
<1>6. \A i \in 0 .. N : Sane(p, names, h[i])
  <2> DEFINE T == {i \in 0 .. N : ~Sane(p, names, h[i])}
  <2> SUFFICES ASSUME T # {} PROVE FALSE
    OBVIOUS
  <2>1. T \in SUBSET Nat
    BY <1>1
  <2>2. PICK i \in T : \A k \in T : i <= k
    BY <2>1, LeastNatural
  <2>3. i \in 0 .. N /\ i # 0 /\ i - 1 \in 0 .. N
    BY <1>1, <1>4, <2>2
  <2>4. i - 1 \notin T
    BY <2>2, <2>3
  <2> QED
    BY <1>5, <2>2, <2>3, <2>4
<1> QED
    BY <1>1, <1>3, <1>6 DEF names

\* So do all pipelines of a call, however deep one is nested in another.
LEMMA AggregatedIsSane ==
    ASSUME NEW p, NEW c, LetThrough(p, c), c.method = "aggregate"
    PROVE  PipelinesSane(p, ProtectedNames(p, c), c, Aggregated(c))
<1> DEFINE names == ProtectedNames(p, c)
           N == Len(c.tree)
<1>1. N \in Nat
    BY TreeLength DEF LetThrough
<1> DEFINE Runnable == (DOMAIN c.tree) \X Documents \X Documents
           made(k, h, x) == IF k = 0 THEN [d |-> x[2], decides |-> {}]
                            ELSE Pipeline(c, x[1], x[2], x[3], h[k - 1])
<1>2. PICK h : /\ Aggregated(c) = h[N]
               /\ \A k \in 0 .. N : h[k] = [x \in Runnable |-> made(k, h, x)]
    BY <1>1, AggregatedUnfolds
<1> HIDE DEF N
<1>3. ASSUME NEW k \in 0 .. N, NEW m, NEW d, NEW around,
             IsPipeline(c, m), Tame(p, names, d), Tame(p, names, around)
      PROVE  h[k][<<m, d, around>>] = IF k = 0 THEN [d |-> d, decides |-> {}]
                                      ELSE Pipeline(c, m, d, around, h[k - 1])
  <2>1. <<m, d, around>> \in Runnable
    BY <1>3 DEF IsPipeline, Tame
  <2>2. h[k][<<m, d, around>>] = made(k, h, <<m, d, around>>)
    <3> HIDE DEF Runnable, made
    <3> QED
        BY <1>2, <2>1
  <2> QED
    BY <2>2
<1> HIDE DEF Runnable, made
<1>4. PipelinesSane(p, names, c, h[0])
  <2> SUFFICES ASSUME NEW m, NEW d, NEW around, IsPipeline(c, m), Tame(p, names, d), Tame(p, names, around)
               PROVE  Sane(p, names, h[0][<<m, d, around>>])
    BY DEF PipelinesSane
  <2>1. h[0][<<m, d, around>>] = [d |-> d, decides |-> {}]
    BY <1>1, <1>3
  <2>2. Cold(p, {})
    BY NoDocument
  <2> QED
    BY <2>1, <2>2 DEF Sane
<1>5. ASSUME NEW k \in 0 .. N, k # 0, PipelinesSane(p, names, c, h[k - 1])
      PROVE  PipelinesSane(p, names, c, h[k])
  <2> SUFFICES ASSUME NEW m, NEW d, NEW around, IsPipeline(c, m), Tame(p, names, d), Tame(p, names, around)
               PROVE  Sane(p, names, h[k][<<m, d, around>>])
    BY DEF PipelinesSane
  <2>1. h[k][<<m, d, around>>] = Pipeline(c, m, d, around, h[k - 1])
    BY <1>3, <1>5
  <2>2. PICK inner : inner = h[k - 1]
    OBVIOUS
  <2>3. Sane(p, names, Pipeline(c, m, d, around, inner))
    BY <1>5, <2>2, PipelineIsSane
  <2> QED
    BY <2>1, <2>2, <2>3
<1> HIDE DEF names
<1>6. \A k \in 0 .. N : PipelinesSane(p, names, c, h[k])
  <2> DEFINE T == {k \in 0 .. N : ~PipelinesSane(p, names, c, h[k])}
  <2> SUFFICES ASSUME T # {} PROVE FALSE
    OBVIOUS
  <2>1. T \in SUBSET Nat
    BY <1>1
  <2>2. PICK k \in T : \A j \in T : k <= j
    BY <2>1, LeastNatural
  <2>3. k \in 0 .. N /\ k # 0 /\ k - 1 \in 0 .. N
    BY <1>1, <1>4, <2>2
  <2>4. k - 1 \notin T
    BY <2>2, <2>3
  <2> QED
    BY <1>5, <2>2, <2>3, <2>4
<1> QED
    BY <1>1, <1>2, <1>6 DEF names

\* What a filter or an order decides, where the walk takes it for one.
LEMMA RootsAreStrict ==
    ASSUME NEW p, NEW c, LetThrough(p, c), NEW name, NEW n \in Root(c, name),
           \/ c.method \in {"countDocuments", "distinct"}
           \/ c.method \in {"find", "findOne"} /\ name \in {"first", "sort"}
    PROVE  n \in DOMAIN c.tree /\ Clear(ProtectedNames(p, c), c.tree, n)
<1>1. n \in DOMAIN c.tree /\ c.tree[n].up = 0 /\ c.tree[n].key = <<name>>
    BY DEF Root
<1>2. name \in {"first", "sort"} => <<name>> # <<"second">>
    OBVIOUS
<1>3. ArgumentMode(c, n) = "strict"
    BY <1>1, <1>2 DEF ArgumentMode
<1>4. Modes(c)[n] = "strict"
    BY <1>1, <1>3, ModesUnfold DEF LetThrough
<1> QED
    BY <1>1, <1>4, StrictIsClear

Filtered(c, name, d, held) == UNION {FilterDecides(d, held, c.tree, n) : n \in Root(c, name)}

LEMMA FiltersAreCold ==
    ASSUME NEW p, NEW c, LetThrough(p, c), NEW name, NEW d, NEW held,
           Ready(p, ProtectedNames(p, c), c.tree, d, held),
           \/ c.method \in {"countDocuments", "distinct"}
           \/ c.method \in {"find", "findOne"} /\ name = "first"
    PROVE  Cold(p, Filtered(c, name, d, held))
<1>1. \A n \in Root(c, name) : Cold(p, FilterDecides(d, held, c.tree, n))
  <2> SUFFICES ASSUME NEW n \in Root(c, name) PROVE Cold(p, FilterDecides(d, held, c.tree, n))
    OBVIOUS
  <2>1. Clear(ProtectedNames(p, c), c.tree, n)
    BY RootsAreStrict
  <2> QED
    BY <2>1, ColdFilter DEF Clear
<1> QED
    BY <1>1, ColdUnion DEF Filtered

\* The answer to a call shows a protected field under a protected name only,
\* where the scan looks for one.
Scanned(p, c, values) ==
    \A v \in values : \A f \in v.from :
        Protects(p, f) => PathHit(ProtectedNames(p, c), IF LabelledByNyet(c) THEN Tail(v.path) ELSE v.path)

LEMMA FindsAreSane ==
    ASSUME NEW p, NEW c, LetThrough(p, c), c.method \in {"find", "findOne"}
    PROVE  Sane(p, ProtectedNames(p, c), CallResult(c))
<1> DEFINE names == ProtectedNames(p, c)
           tree == c.tree
           d    == Contents(c.collection)
           held == Held(d, tree)
           shown == UNION {Projected(d, held, tree, n) : n \in Root(c, "second")}
           filter == Filtered(c, "first", d, held)
           order == OrderDecides(d, tree, Root(c, "sort"))
<1>1. CallResult(c) = [d |-> IF Root(c, "second") = {} THEN d ELSE shown, decides |-> filter \cup order]
    BY Zenon DEF CallResult, Filtered
<1>2. Ready(p, names, tree, d, held)
  <2>1. Tame(p, names, d)
    BY TameContents DEF Collections
  <2>2. Ready(p, names, tree, d, {})
    BY <2>1, NoDocument, CallIsQuiet DEF Ready
  <2> QED
    BY <2>2, HeldReady
<1> HIDE DEF d, held, names
<1>3. Tame(p, names, shown)
  <2>1. \A n \in Root(c, "second") : Tame(p, names, Projected(d, held, tree, n))
    BY <1>2, TameProjected
  <2> QED
    BY <2>1, TameUnion
<1>4. Cold(p, filter)
    BY <1>2, FiltersAreCold DEF names
<1>5. Cold(p, order)
  <2>1. \A n \in Root(c, "sort") : \A m \in Fields(tree, n) : ~PathHit(names, tree[m].key)
    BY RootsAreStrict DEF Clear, names
  <2> QED
    BY <1>2, <2>1, ColdOrder
<1>6. Tame(p, names, IF Root(c, "second") = {} THEN d ELSE shown)
    BY <1>2, <1>3 DEF Ready
<1> HIDE DEF shown, filter, order
<1> QED
    BY <1>1, <1>4, <1>5, <1>6 DEF Sane, Cold, names

LEMMA AggregatesAreSane ==
    ASSUME NEW p, NEW c, LetThrough(p, c), c.method = "aggregate"
    PROVE  Sane(p, ProtectedNames(p, c), CallResult(c))
<1> DEFINE names == ProtectedNames(p, c)
           d == Contents(c.collection)
           answers == {Aggregated(c)[<<n, d, {}>>] : n \in Root(c, "first")}
<1>1. CallResult(c) = [d |-> UNION {r.d : r \in answers}, decides |-> UNION {r.decides : r \in answers}]
    BY Zenon DEF CallResult
<1>2. ASSUME NEW n \in Root(c, "first") PROVE Sane(p, names, Aggregated(c)[<<n, d, {}>>])
  <2>1. n \in DOMAIN c.tree /\ c.tree[n].up = 0
    BY DEF Root
  <2>2. c.tree[n].kind = "array"
    <3>1. ArgumentObjections(c) = {}
        BY ParseFinds DEF LetThrough
    <3>2. RootIs(c, "first", "array")
        BY <3>1 DEF ArgumentObjections, When
    <3> QED
        BY <3>2 DEF RootIs
  <2>3. Modes(c)[n] = "pipeline"
    BY <2>1, ModesUnfold DEF ArgumentMode, LetThrough
  <2>4. Tame(p, names, d) /\ Tame(p, names, {})
    BY TameContents, NoDocument DEF Collections
  <2> HIDE DEF d, names
  <2> QED
    BY <2>1, <2>2, <2>3, <2>4, AggregatedIsSane DEF IsPipeline, PipelinesSane, names
<1> HIDE DEF d
<1>3. \A r \in answers : Tame(p, names, r.d) /\ Cold(p, r.decides)
    BY <1>2 DEF Sane
<1> HIDE DEF answers, names
<1>4. Tame(p, names, UNION {r.d : r \in answers})
    BY <1>3, TameUnion
<1>5. Cold(p, UNION {r.decides : r \in answers})
    BY <1>3, ColdUnion
<1> QED
    BY <1>1, <1>4, <1>5 DEF Sane, names

LEMMA CountsAreSane ==
    ASSUME NEW p, NEW c, LetThrough(p, c), c.method = "countDocuments"
    PROVE  Cold(p, CallResult(c).decides) /\ Scanned(p, c, CallResult(c).d)
<1> DEFINE d == Contents(c.collection)
           held == Held(d, c.tree)
           filter == Filtered(c, "first", d, held)
<1>1. CallResult(c) = [d |-> {[path |-> <<"count">>, from |-> {}]}, decides |-> filter]
    BY Zenon DEF CallResult, Filtered
<1>2. Ready(p, ProtectedNames(p, c), c.tree, d, held)
  <2>1. Tame(p, ProtectedNames(p, c), d)
    BY TameContents DEF Collections
  <2>2. Ready(p, ProtectedNames(p, c), c.tree, d, {})
    BY <2>1, NoDocument, CallIsQuiet DEF Ready
  <2> QED
    BY <2>2, HeldReady
<1> HIDE DEF d, held
<1>3. Cold(p, filter)
    BY <1>2, FiltersAreCold
<1> HIDE DEF filter
<1> QED
    BY <1>1, <1>3 DEF Scanned

LEMMA DistinctsAreSane ==
    ASSUME NEW p, NEW c, LetThrough(p, c), c.method = "distinct"
    PROVE  Cold(p, CallResult(c).decides) /\ Scanned(p, c, CallResult(c).d)
<1> DEFINE names == ProtectedNames(p, c)
           d == Contents(c.collection)
           held == Held(d, c.tree)
           filter == Filtered(c, "second", d, held)
           listed == Below(d, c.key)
<1>1. CallResult(c) = [d |-> Put(<<"value">>, listed), decides |-> filter \cup Behind(At(d, c.key))]
    BY Zenon DEF CallResult, Filtered
<1>2. Ready(p, names, c.tree, d, held)
  <2>1. Tame(p, names, d)
    BY TameContents DEF Collections
  <2>2. Ready(p, names, c.tree, d, {})
    BY <2>1, NoDocument, CallIsQuiet DEF Ready
  <2> QED
    BY <2>2, HeldReady
<1>3. c.key \in Seq(STRING) /\ ~PathHit(names, c.key)
  <2>1. c.key \in Seq(STRING)
    BY DEF LetThrough, WrittenCall
  <2>2. When(c.method = "distinct" /\ PathHit(names, c.key), "PII_COLUMN") = {}
    BY DEF LetThrough, Walk
  <2> QED
    BY <2>1, <2>2 DEF When
<1> HIDE DEF d, held
<1>4. Cold(p, filter) /\ Cold(p, Behind(At(d, c.key)))
    BY <1>2, <1>3, FiltersAreCold, ColdAt DEF Ready
<1>5. Tame(p, names, listed)
    BY <1>2, <1>3, TameBelow DEF Ready
<1>6. ASSUME NEW w \in listed, NEW f \in w.from, Protects(p, f)
      PROVE  PathHit(names, Tail(<<"value">> \o w.path))
  <2>1. w.path \in Seq(STRING) /\ PathHit(names, w.path)
    BY <1>5, <1>6 DEF Tame, Documents
  <2>2. \A s : \A t \in Seq(STRING) : <<s>> \in Seq(STRING) => Tail(<<s>> \o t) = t
    OBVIOUS
  <2> QED
    BY <2>1, <2>2, OneText
<1> HIDE DEF listed, filter, names
<1>7. Scanned(p, c, Put(<<"value">>, listed))
  <2> SUFFICES ASSUME NEW v \in Put(<<"value">>, listed), NEW f \in v.from, Protects(p, f)
               PROVE  PathHit(names, Tail(v.path))
    BY DEF Scanned, LabelledByNyet, names
  <2>1. PICK w \in listed : v = [path |-> <<"value">> \o w.path, from |-> w.from]
    BY DEF Put
  <2>2. f \in w.from /\ v.path = <<"value">> \o w.path
    BY <2>1
  <2> QED
    BY <1>6, <2>2
<1> QED
    BY <1>1, <1>4, <1>7 DEF Cold

LEMMA CallsAreSane ==
    ASSUME NEW p, NEW c, LetThrough(p, c)
    PROVE  Cold(p, CallResult(c).decides) /\ Scanned(p, c, CallResult(c).d)
<1>1. c.method \in {"find", "findOne", "aggregate", "countDocuments", "distinct"}
    BY ParseFinds, MethodIsRead DEF LetThrough
<1>2. ASSUME c.method \in {"find", "findOne", "aggregate"}
      PROVE  Cold(p, CallResult(c).decides) /\ Scanned(p, c, CallResult(c).d)
  <2>1. Sane(p, ProtectedNames(p, c), CallResult(c))
    BY <1>2, FindsAreSane, AggregatesAreSane
  <2>2. ~LabelledByNyet(c)
    BY <1>2 DEF LabelledByNyet
  <2> QED
    BY <2>1, <2>2 DEF Sane, Tame, Scanned
<1> QED
    BY <1>1, <1>2, CountsAreSane, DistinctsAreSane

\* What the scan shows unmasked comes from nothing protected.
LEMMA ScanShows ==
    ASSUME NEW p, NEW c, NEW values, Scanned(p, c, values),
           NEW net, net = ScanReply(p, c, {v.path : v \in values}), net.why = {},
           NEW v \in values, v.path \notin net.mask, NEW f \in v.from
    PROVE  ~Protects(p, f)
<1> SUFFICES ASSUME Protects(p, f) PROVE FALSE
    OBVIOUS
<1> DEFINE names == ProtectedNames(p, c)
           paths == {w.path : w \in values}
           hits  == {path \in paths : PathHit(names, IF LabelledByNyet(c) THEN Tail(path) ELSE path)}
<1>1. v.path \in hits
    BY DEF Scanned
<1>2. CASE p.mode = "mask"
  <2>1. net.mask = hits
    BY <1>2 DEF ScanReply
  <2> QED
    BY <1>1, <2>1
<1>3. CASE p.mode # "mask"
  <2>1. When(hits # {} /\ p.mode # "mask", "PII_COLUMN") = {}
    BY DEF ScanReply
  <2> HIDE DEF hits
  <2> QED
    BY <1>1, <1>3, <2>1 DEF When
<1> QED
    BY <1>2, <1>3

\* Whatever the connection, the call and the documents: no value of a protected
\* field leaves unmasked, through whatever stages and under whatever names, and
\* no protected field decides which documents come back.
THEOREM MongoKeepsInside == Spec => []MongoProtectedStaysInside
<1>1. Exchange => MongoProtectedStaysInside
  <2> SUFFICES ASSUME Exchange, IsMongo, reply # Nothing
               PROVE  /\ \A field \in reply.decides : ~Protects(policy, field)
                      /\ reply.net.why = {} =>
                             \A v \in {x \in reply.values : x.path \notin reply.net.mask} :
                                 \A field \in v.from : ~Protects(policy, field)
    BY DEF MongoProtectedStaysInside
  <2>1. /\ ask \in MongoCalls /\ verdict = Check(policy, ask) /\ verdict.why = {} /\ MongoReply
    BY DEF Exchange, Sent
  <2>2. LetThrough(policy, ask)
    BY <2>1, MongoAssumption DEF Check, Caught, LetThrough
  <2>3. /\ reply.values = CallResult(ask).d /\ reply.decides = CallResult(ask).decides
        /\ reply.net = ScanReply(policy, ask, {v.path : v \in reply.values})
    BY <2>1 DEF MongoReply
  <2>4. Cold(policy, reply.decides) /\ Scanned(policy, ask, reply.values)
    BY <2>2, <2>3, CallsAreSane
  <2> QED
    BY <2>3, <2>4, ScanShows DEF Cold
<1> QED
    BY <1>1, ExchangeAlways, PTL

=============================================================================
