# nyetdb in TLA+

nyet is a command-line program through which an agent reads databases and
nothing else. One process serves one command: it validates a statement, may ask
the database what the statement would cost, runs it under a deadline, checks the
result against a privacy policy, writes an audit record and shows the answer.
What processes share is on the machine around them: ssh masters and their port
forwards, the files that record those forwards, the loopback ports, the audit
log, and the database server.

Paths below are relative to the repository (`src/tunnel.rs` is the crate's
`tunnel.rs`).

## 1. Inventory

| component | state | operations | interacts with |
|---|---|---|---|
| tunnel (`tunnel.rs`) | a registry file per pair (ssh destination, remote), its lock; forwards held by ssh masters | `open`, `lock_slot`, `try_reuse`, `open_via_master`, `write_entry`, `open_standalone`, `Drop` | ssh processes, other nyet runs, loopback ports |
| audit (`audit.rs`, `audit_finish`) | the append-only log and its lock | `append`, `write_flush` | other nyet runs; every audited command |
| one invocation (`main.rs`) | a config once loaded, what was touched, the outcome | `open_session`, `build_engine`, `resolve_secret`, `open_tunnel`, `audit_finish`, `emit` | config, resolver, secrets, tunnel, engines, audit |
| rows command (`main.rs`) | one command's pipeline | `rows_command`, `run_attempt`, `Db::execute`, `emit` | the same, and the validators |
| config, resolver (`config.rs`, `resolver.rs`) | the file, read once; the environment | parse, substitute, check; `is_allowed` | every command |
| config writers (`datagrip.rs`, `settings`) | the config file | `map_sources`, `append_to_config`, `settings` | each other, the owner's editor |
| engine layer (`engine.rs`, `engine/*.rs`) | a database session and its deadlines | `execute`, `estimate`, `schema`, `diagnose` | the database server |
| guardrail (`guardrail.rs`) | none (a mode and a threshold) | `resolve`, `check`, `refuses`, the estimate readers | engine sessions |
| SQL validator (`validator.rs`) | none | `validate`; net B over the result (`check_origins`, `check_result_names`) | rows command |
| MongoDB policy (`mongo.rs`, `mongo/meta.rs`) | none | `check_with_pii`, `Request::command`, `read_reply`, `scan_reply` | rows command, engine |
| Redis policy (`redis.rs`, `engine/redis.rs`) | none | `check`, `classified`, `shape` | rows command, engine |
| output, skill text | none | rendering | - |

Where it is hard:

* **Concurrency.** Two runs that open the same forward; a run that adopts a
  forward while its master goes away; another program that takes a port between
  its release and ssh's bind; two runs that append long lines to one log.
* **Crashes and partial failures.** A registry file emptied and not yet
  rewritten; a forward that is up while its record could not be written; a line
  written in part; an `EXPLAIN` that fails and leaves its transaction aborted.
* **Ordering.** The audit record goes before the answer, net B before every
  reader of the rows, the plan before the statement, the tunnel outlives both
  attempts.
* **Two readings of one text.** A policy is read before variables are put in, and
  used after; a statement is judged by nyet and executed by a server with
  its own idea of names, stages and containers; `explain` and `query` judge one
  plan; an import judges the config by what it knows of it.
* **Time.** Connect, plan and statement have nested deadlines; `sample` has two
  attempts in one budget; a planning deadline that means refusal, and a lock
  deadline that means going on without.

What makes each correct: at most one forward per pair and no forward that nobody
knows of (tunnel); whole lines, and nothing shown that is not recorded (audit);
one executed statement, refusals that are final, a shared budget, flags on every
partial or unjudged answer, no raw protected value outside (rows command); a
statement that runs only inside the session its plan left intact (engines);
nothing touched outside the scope, and policy from the text alone (one
invocation); what is accepted only reads, and what is protected stays inside,
by whatever way a statement names it (the three policies); a config that keeps
loading (its writers).

## 2. Modules

| module | models | role |
|---|---|---|
| `Tunnel` | `tunnel.rs` | runs, registry slots, masters, ports |
| `MCTunnel` | - | instances of `Tunnel` |
| `TunnelProofs` | - | its theorems |
| `AuditTrail` | the comment on `audit_finish` | abstract: what the log promises |
| `AuditLog` | `audit.rs`, end of `audit_finish`, `main` | appending processes; implements `AuditTrail` |
| `MCAuditLog` | - | instances of `AuditLog` |
| `AuditProofs` | - | theorems about `AuditLog`, and that it implements `AuditTrail` |
| `RowsCommand` | `main.rs` with the engines as it sees them | one `query` or `sample` |
| `RowsProofs` | - | its theorems |
| `StatementPromise` | the comments on `Plan` and `QueryOutcome` | abstract: what a database session promises its caller |
| `GuardedSession` | `execute`, `estimate`, `schema` of PostgreSQL and MySQL | one session with the server; implements `StatementPromise` |
| `GuardedProofs`, `ArmingProofs` | - | its theorems, and that it implements `StatementPromise` |
| `WriteProbe` | `diagnose` of PostgreSQL and MySQL | one run of doctor's write probe with the server |
| `WriteProofs` | - | its theorems |
| `Refusals` | the shape of a verdict | what the rule modules share |
| `GuardrailRules` | `guardrail.rs` | modes, estimates, verdicts, as functions of a plan |
| `ConfigRules` | `config.rs`, `resolver.rs` | a config text and an environment -> a config, or objections |
| `CommandFlow` | `main.rs` | one invocation of any reading command |
| `MCCommandFlow` | - | its instance |
| `CommandProofs` | - | its theorems |
| `SqlRules` | `validator.rs` | layer 1 and net B over syntax trees |
| `MongoRules` | `mongo.rs`, `mongo/meta.rs` | layer 1, the command sent, the reply scan |
| `RedisRules` | `redis.rs`, `classified`, `shape` | the command policy |
| `SqlMeaning`, `MongoMeaning` | servers (external) | what a statement reads, returns and does |
| `SqlCases`, `MongoCases` | - | schemas, policies and statements to judge |
| `Verdicts` | the exchange around them | ask, judge, return, judge the reply |
| `MCVerdicts` | - | its instance |
| `VerdictProofs` | - | its theorems |
| `ConfigFile` | `datagrip.rs`, `append_to_config`, `settings` | writers of one config file |
| `MCConfigFile` | - | its instance |

### Tunnel

Each element of `Runs` is a nyet process in `open`, then holding a `Tunnel`,
then in its `Drop`. `pc` follows the function it is in:

    lock -> probe -> ask -> up                      try_reuse succeeds
    lock -> probe [-> ask] -> pick -> ssh -> name -> truncate -> write -> up
    pick -> ssh -> up                               opted out, or no slot
    pick -> spawn -> poll -> up                     open_standalone
    up -> done                                      Drop

`holder` and `entry` are the lock and the content of the registry file of each
slot; `SlotOf` is `registry_name`, a parameter, because the real one writes `@`
and `:` as `_`: the remotes of one destination keep names of their own, while one
remote behind `deploy@b` and behind `deploy_b` has a single file. `fwd` is the set of live ssh listeners, each owned by a
master (named by its pid) or by a run's own ssh child; `master` is the live
master behind each destination's ControlPath. Actions of the environment end
masters, cancel forwards by hand, bind and free ports, kill runs and make
`ssh -O check` mute; `Faults` says which may happen. `opener`, `owner` (in an
entry), `made` and `cancelled` are history: no action of a run reads them.

### AuditTrail and AuditLog

`AuditLog` has concurrent processes at the steps of `append` (open, lock) and
`write_flush` (measure, write piece by piece, roll back), then `audit_finish`'s
release of the answer and `main`. A line is `Parts` pieces because `write_all` may
need several `write` calls; a failure or a kill may fall between any two.
`AuditTrail` is the promise: a record is committed whole and once, then shown;
without a record nothing is shown; what is on the trail stays. `AuditLog`
implements it under the mapping "the writers of complete lines, in order".

### RowsCommand

One command from `open_session` to the exit of `main`. `attempt` is 1, or 2 for
the cheap statement of `sample`. Time is counted in ticks: `budget` is
`query_timeout_ms` of the attempt, `phase` what it has spent, `clock` the
`Instant` of the first attempt, which includes connects and the tunnel. Each
engine is known by how its plan and its statement may end, how long they may
take and which results it may return (`Replies`: rows that stand for the
statement, rows returned, the server's own cut). Net B is modelled as what it
recognises: values of columns it knows to be protected are `raw` until masked.
History variables (`ran`, `over`, `slow`, `work`, `opened`) say what the database
did.

### StatementPromise and GuardedSession

One session, from the connect on, of one client with one server. `pc` is the
stage the client is at; each stage sends one message, a sequence of statements
that the server executes in order up to the first error:

    begin -> [arm ->] explain -> restore -> judge     a plan is wanted
    begin | judge -> [prepare ->] run [-> describe] -> goodbye -> done
    judge -> goodbye                                  refused, or only planned
    any -> done                                       dropped: too slow, broken, late

On PostgreSQL the savepoint and the plan's cap ride in the message of `BEGIN`; on
MySQL `arm` and `restore` are `set_statement_timeout`, which tries the two
spellings (`candidates`, `var`) and sends the transaction ahead of the first
(`lead`). `wire` is what was sent and is not yet executed, `awaiting` and `reply`
are the client's wait. The server has a transaction (`txn`), a cap (the query's
`own`, the plan's `short`, `none`), the cap at the savepoint, and knows some of
the names (`job.knows`). It may fail any statement, cut a capped one at any time,
lose the connection before or after executing, answer never, or answer late: a
dropped session goes on as `Orphan`. `fetch_limit` makes the client stop reading
(`Enough`) with the statement still running. `begun`, `unknowns` and `seen` are
history. Catalogue queries of `schema` are one statement.

`StatementPromise` is what the caller relies on: at most one verdict, before the
statement; a statement that was too expensive or not judged in time is never
executed, not even by a server that is still busy when the answer is out; the
answer is given once.

### WriteProbe

`pc` is the statement `diagnose` is at; `waited` is the deadline it is under:

    pii -> views -> (metadata -> begin -> create -> rollback) -> done   PostgreSQL
    pii -> metadata -> (set_exec -> set_statement -> set_lock)
        -> (create -> drop) -> done                                     MySQL

What stands in brackets shares one deadline, MySQL's last pair the backstop of
`2 * Cap + Grace`. Several queries with one purpose are one exchange, and
without `[pii]` rules the first two are skipped. A statement that is given up
(`stale`) leaves a reply on the connection; the next one waits `behind` it, and an
error read there is that next statement's error. The server may answer anything
its rights and tables allow, late or never; only CREATE and DROP under a bound
it took are sure to be over in time. The connection may break (errors at once)
or go silent, with the server still at work. `created` is history.

### CommandFlow, ConfigRules, GuardrailRules

`CommandFlow` is one invocation from the config file to the answer:

    read -> load -> cwd -> route                          every command
    route -> done                                         list, skill text, doctor
    route -> scope -> engine -> [url -> password ->] session
    session -> [layer1 ->] tunnel -> runtime -> connect -> ask -> finish -> emit -> done

`pc` names the place, `conf` is the config once loaded, `did` what was asked of
the world (`secret`, `tunnel`, `session`), `planned` what the server answered to
`EXPLAIN`, `outcome` what the command came to before `audit_finish` writes it to
`record`, `answer` what leaves the process. `Leaves` is an unrecorded end,
`Ends` goes through the log. The file, environment, directory, home and
statement are inputs (`Inputs`); what a query does after its guardrail has
spoken is `RowsCommand`. A result has `shown` when it names connections, or their
directories, that the caller did not name: a listing, and `Telling`, the refusals
whose message or hint does so (`lookup_alias` lists every alias for an unknown one
before any directory is looked at, `check_scope` says where the connection is
allowed, and a config that does not load may say whose section is wrong).

`ConfigRules` has the checks of `config.rs` in their order: variables looked for
in the raw text of policy (`RejectsVariable`), then put in (`Substituted`), then
the typed forms (`WrongForm`), the objections of each section, and the
directories (`IsAllowed` over `Real`, which resolves links). A text maps keys to
forms of values, so TOML and serde are the forms. The environment may put any
value of the right form in the place of a key that reads it. `GuardrailRules`
are pure functions of a plan reduced to the numbers read off it: a tree of
PostgreSQL nodes, steps of MySQL selects (dependent ones multiply), tables of a
ClickHouse estimate.

### Verdicts, with the rules, meanings and cases

One exchange: a connection, a statement in its language, layer 1's `verdict`, and,
if it is sent, one `reply` of the server and what is judged of it. The rules
(`SqlRules.Validate`, `MongoRules.Check`, `RedisRules.CheckLine` and
`Classify`) are translated from the validators as functions from a policy and
a syntax tree to the set of reasons to refuse, in the code's order
(`FirstRefusal`). The meanings know nothing of those rules: they say, for the
same trees, which stored fields each value of the result is computed from, which
decide what comes back and in which order, and what runs besides a read. The
properties relate the two. Where a server's answer depends on more than the trees
hold, a meaning takes every value it may have: an operator of MongoDB yields any
document or value its references lead to, or one computed from them, and a
variable (`Held`) anything that the names spoken in the call lead to.

A SQL statement is the parser's tree, flattened to a root query and at most one
nested one in any role. A MongoDB call holds the values of its arguments as one
tree. `Builtin`, `Family`, `StageOps` and `Operators`, the code's name lists, are
constants with a few members of each kind: what the properties tell apart is
whether a name is listed, not which. What the parser refuses, and the scans
before it, are classes of text. Drivers report origins in three ways: through
views, by the name the query used, or not at all.

### ConfigFile

A sequence of sections, each an alias and whether the config with it still
loads. `import` is three steps: discover and map (`Collect`), read the aliases
that are there (`Look`), append (`AppendSections`, or a write that fails with a
part of the text in place). `settings` makes a missing file, runs the editor,
and removes a file it made and finds empty. Nothing locks the file, so the
steps of several commands interleave, `Look` and `AppendSections` included.

## 3. Runs

| run | instance | shows |
|---|---|---|
| TunnelCalm | 3 runs, 1 host, 2 remotes, 3 ports, 2 master pids, no faults but masters ending | `AtMostOneForward` |
| TunnelFaults | 2 runs of any mode, 2 hosts whose pairs share one file, every fault | `NothingLeftBehind`, `RecordedOwnerIsProof` |
| TunnelLive | 2 runs, one may wedge for ever | `EveryRunEnds` |
| TunnelSharedFile | 3 runs, 1 remote behind 2 hosts whose file names collide | violates `AtMostOneForward` |
| AuditLog | 3 processes, 2 pieces, every fault | `NeverMixed`, `FragmentsExplained`, `ShownIsRecorded`, `ImplementsTrail`, `EveryCommandEnds` |
| RowsCommand | 5 engines, timeout 4 ticks, limit 2 rows | `RunsOnceAndIsNamed`, `AttemptsShare`, `PartialIsFlagged`, `UnjudgedIsFlagged`, `RawStaysInside`, `LogAgreesWithAnswer` |
| GuardedSession | both engines, all three operations, guardrail and origins on and off, every set of known names and label | `NothingQueued`, `OnlyReadOnly`, `ArmedRight`, `FailOpenWorks`, `PlanEndsInTime`, `KeepsPromise`, `SessionEnds` |
| WriteProbe | both engines, role and name any way, deadline 2, cap 2, grace 1 | `NoSilentOrphan`, `TheirsSurvives`, `VerdictIsTrue`, `NoFalseAlarm`, `DoctorEnds` |
| Verdicts | 6 SQL, 4 MongoDB and 4 Redis policies; 1661 statements, 3290 calls, 22 lines | `SqlOnlyReads`, `SqlProtectedStaysInside`, `SqlStricterIsNarrower`, `MongoOnlyReads`, `MongoProtectedStaysInside`, `CutIsFlagged`, `RedisOnlyReads` |
| CommandFlow | 8 engines, every config one key away from a sound one, 3 environments, every kind of call | `ScopeHolds`, `PolicyIgnoresEnvironment`, `TouchedIsRecorded`, `RawIsWithheld`, `ExplainForetellsQuery`, `GrownStaysRefused` |
| ImportAliases | one import of two projects, one settings | violates `ImportKeepsItLoading` |
| SettingsLeftover | the same | violates `NoEmptyFileIsLeft` |

Type invariants (`TypeOK` of `Tunnel`, `AuditLog`, `RowsCommand`,
`GuardedSession`, `WriteProbe`) are proved and therefore not in the runs, and
so are `KeptIsRecorded`, `BudgetShared`, `RefusedNeverRuns` and `OneTunnel`.

**Bounds.** `Ports` and `Masters` bound what the kernel hands out: a pid is used
once (`spent`), so three runs can see two masters of one host in a row, which is
what it takes to replace one under a recorded forward. Three runs let one
overwrite, one adopt and one witness. Two pieces per line distinguish a whole
line, a prefix and a rolled-back one; three writers put a fragment between two
others. Two rows of limit distinguish fewer, exactly as many, and more; four
ticks with a floor of two let the second attempt be refused for lack of time
and granted with less than the whole. A session has a timeout of 6 ticks, a grace
of 2 and a reserve of 1, so the plan's budget is the remainder (3, not the flat
cap of 9), its deadline is strictly before the query's, and the transaction may
be opened within the reserve, or later. Beyond the instance, `BudgetFits` is
proved for every such choice. The probe's cap of 2 with a grace of 1 tells one cap
(3) from two (5), and its safety is proved for all values. In `RowsCommand`, MySQL takes PostgreSQL's path at this
level of detail and is left out of the instance (not of the theorems).

`CommandFlow` starts from three sound configs per engine (plain, tunnelled,
protected) and changes one key at a time to every value its checks tell apart,
a variable included; a check that looks at two keys meets them because the
sound configs differ in those. Its directories are a home with a project and a
link out of it, a served tree with a subdirectory, and one that is gone. Plans
have up to two pieces, so that `GrownStaysRefused` looks at three: a sum, a
product and a product over an unknown. Thresholds of 2 and 3 lie between what
one piece and two can reach. (479 thousand states.)

`Verdicts` judges each statement shape alone and inside each context: every
kind of expression in every clause, every source in every join, every stage
alone, after another and nested in `$facet`, `$lookup` and `$unionWith`. Two
tables, a view and a catalog of samples (three collections in MongoDB) are the
least with a protected column, an unprotected one, a renamed one and a join of
both. A row limit of 2 against up to 3 matching documents distinguishes none,
fewer, exactly and more. (97 thousand states.)

`ConfigFile` needs one import and one settings command for its two violations;
the names in `MCFound` are one of each kind that `alias_for` folds together.

**Fairness.** `TunnelLive` gives weak fairness to the steps of each run that is
not wedged: every step is a local call or an ssh command with its own
`ConnectTimeout`. Nothing is assumed of ssh children, masters or other programs;
a run that waits for a lock goes on through its deadline (`GiveUp`), which the
`give_up` fault enables. `AuditLog` gives weak fairness to every process that was not killed:
the lock is waited for without a deadline, and its holder only computes and
writes to a local file. A holder that is suspended for ever is outside this
assumption, and it does block the others.

`GuardedSession` gives weak fairness to the client's steps and to time: tokio
polls the task and its timers. Nothing is assumed of the server, so every
session ends by its deadlines alone. A due timer stops the clock (`Tick`), for the
runtime fires it; a reply that is there at the same moment may still win.

`WriteProbe` is fair to the client and to time, and to the server in one thing: it
ends a CREATE or DROP at the bound it has confirmed. That is what MySQL does with
`lock_wait_timeout` for a wait and MariaDB with `max_statement_time` for the
whole; that the rest of a DDL takes no time is an assumption of the code's
too (`src/engine.rs:3178-3193`), and messages are taken to be faster than the grace.

Symmetry is used in the safety runs of `Tunnel` only, over runs, ports and
masters that no other constant tells apart.

## 4. What is proved

TLAPS checks these for every value of the constants that satisfies the module's
assumptions; TLC checks the same definitions on the instances above.

`TunnelProofs`: `TypeOK` by itself. `NothingLeftBehind` needs to know where each
run's forward can come from: an owner that is a master was given out (`spent`),
a standalone child's forward dies with it, and a run has a forward only in the
stages after `ssh` (invariants `Stage` and `Wires`). `RecordedOwnerIsProof`
rests on `Vouched`: as long as the true owner on record lives and nobody
cancelled the forward, the forward is still there. `AtMostOneForward` and
`KeptIsRecorded` hold under the assumption `Calm` (reusing runs, injective
registry names, none of the faults); their invariant `Single` says that the
holder of a slot is the only run of its pair that is past the probe, and that
every forward of the pair is either on record or in the hands of that holder.

`RowsProofs`: `Budgeted` (work of the earlier attempt is within its clock, and
the second budget is what was left) gives `BudgetShared`; `Executed` relates the
attempts that may have run to the attempt in hand and to the statement to be
named, and gives `RunsOnceAndIsNamed` and `RefusedNeverRuns`; `Tunnelled` gives
`OneTunnel`; `Typed` is `TypeOK` in three parts; `Logged` (on `Typed`) gives
`LogAgreesWithAnswer`; `Candid` (on `Logged`) follows the reply from the engine
through net B into the answer and gives `PartialIsFlagged`, `UnjudgedIsFlagged`
and `RawStaysInside`. `RepliesAreHonest` is the fact about the engines that the
flags rest on.

`GuardedProofs`, for every timeout that exceeds grace and reserve: `BudgetFits`,
the arithmetic of the nested deadlines; `Timing` (every stage is within its own
deadline) with it gives `TypeOK` and `PlanEndsInTime`; `Conversation` gives
`OnlyReadOnly` and `NothingQueued`: question and answer alternate until the
goodbye (`Alternate`), agent text is the first statement of its message (`Lined`),
and the client goes on from `BEGIN` only on a reply that shows the transaction
was opened, be it the unknown-name error of a statement behind it (`Opened`).

`WriteProofs`, for every deadline, cap and grace: `Staged` and `Paired` say which
statement the server can be at, and that the probe's own statements are never
behind a reply that is owed, so that their answers are their own; on these rest
`Informed` (answers of CREATE, giving `VerdictIsTrue` and `TheirsSurvives`),
`Undone` and `Accounted` (where a table may exist, for PostgreSQL and MySQL,
giving `NoSilentOrphan`), and `Capped` (the client's clock in terms of the
server's, giving `NoFalseAlarm`).

And `GuardedSession` implements `StatementPromise`, as a temporal
theorem (`SessionKeepsPromise`): initial states map to initial states, and each
step of client or server is a step of the promise or a stutter. It needs
`Judged` (which verdicts go with which stage), `Permitted` (a statement on the
wire was let run, and an answer that names its result is out only once it was
executed) and `Heard` (what the client has heard of the statement is so), on top
of `Conversation`.

`ArmingProofs`: `Armed` describes what may be on the wire at each stage
(`Sent`), the server's cap before and after each message (`CapNow`), which
timeout names were tried and given up (`Learned`), that the transaction is begun
by the first message alone (`BegunOnce`) and that an aborted transaction is one
the client is about to repair (`Repaired`). It is inductive with
`Conversation`, and gives `ArmedRight` and `FailOpenWorks`.

`AuditProofs`, for any number of writers and pieces and every combination of
faults: `Shape` (types, and that only the holder of the lock writes, with its
pieces so far at the end of the file) gives `NeverMixed`; `Remembered` (a
record that is complete stays, a rollback only cuts the writer's own pieces)
gives `ShownIsRecorded`; `Accounted`, with `OwnTail`, ties every fragment to the
process that left it and gives `FragmentsExplained`. And `AuditLog` implements `AuditTrail`, as a temporal
theorem (`AppendingImplementsTrail`): the trail is the selection of complete
lines, in order; a step of the file either leaves that selection alone (a piece,
a rollback, a fragment) or appends one line to it, the writer's own, which is
not there yet.

`CommandProofs`, for every config text, environment, directory tree and kind of
plan that satisfy the named assumptions: `Governed` says that a config that is
loaded is the text with variables only where no policy stands, which gives
`PolicyIgnoresEnvironment`; `Bounded`, that whatever was touched was behind
the directory check and that only a refusal names a connection before it, gives
`ScopeHolds` (with `AllowedIsGranted`, that a
resolved prefix is the meaning of a grant); the lemma `Outcomes` classifies all
steps into those that pass on, drop out unrecorded and conclude, and on it rest
`Noted` (`TouchedIsRecorded`) and `Withheld` (`RawIsWithheld`); `Foretold` gives
`ExplainForetellsQuery` for any plan and any guardrail. `GrownStaysRefused` is
about sums, products and greatest values over plans of any length; the
lemmas it rests on say that a fold over a finite set does not depend on the
order in which its members are taken (`FoldsEqual`) and what one more member
changes (`FoldTakesOut`), then that one more node, step or table does not make
an estimate smaller, nor an unknown one small (`EstimateGrows`). Thresholds are
numbers because the texts that set them are (`ThresholdsAreNumbers`), and a plan
at hand is one its engine can answer with (`Measured`).

`VerdictProofs`, for every policy, schema, name list, statement, call and line:
`Exchange` says that a verdict is the rules' own and a reply follows from what
was let through. On it rest: `RedisRunsReads`, by the cases in which a line is
classified; `SqlRunsReads`, that each thing a server does besides reading is
seen by a hook of the walk; `SqlStricter`, that scopes, exemptions and so
objections only grow with the rules; `MongoRunsReads`, that the walk of a
document visits every node of the tree in the mode its place calls for, so that
no operator or stage that does more than read is missed at any depth;
`CutsAreFlagged`, the arithmetic of limits.

`SqlKeepsInside` relates what net A refuses to what a database computes.
Its invariant is over scopes: a column of a source is `Fine` (no protected column
is in it, or a view that is not listed hides one and a driver that
resolves it tells net B) or `Guarded` (net A knows it by the name of its source and
its own). Sources keep it from left to right, derived tables and common table
expressions through the query they come from (`SourcesBrought`, `BeneathFine`).
So a name that net A passes means `Fine` columns only (`ColumnFine`); with each
expression, star, join and key judged where it stands, outputs are `Fine` but for
the items that are masked, which stand where net B expects them (`OutputsFine`),
and nothing protected decides the rows (`DecidesClean`). `ResultFine` puts the
queries together; `OriginsFind` and `NamesFind` say what net B then lets out.

`MongoKeepsInside` does the same for MongoDB, for every call, at whatever depth
its pipelines stand in one another. Its invariant is over documents: a set of values is
`Tame` when each that comes from a protected field still has a protected name on
its path, and a set of fields is `Cold` when none is protected. The documents
of every collection a call reads are `Tame`, since its names are protected too
(`TameContents`). What the walk has refused leaves no reference, variable, filter,
order or join field that speaks a protected name (`CallIsQuiet`, `StrictIsClear`,
`StagesJudged`); so what any of them takes off a path is not the
protected part, and what they compare is `Cold`. Each stage keeps both
(`StageIsSane`), then a pipeline (`PipelineIsSane`, by the least stage that
would not) and the pipelines nested in it (`AggregatedIsSane`, by the least
depth); and what is `Tame` at the end the scan finds (`ScanShows`).

Where a proof needs an induction (the nodes of a tree, the members of a finite
set) it takes a least counterexample: `LeastNatural` follows from the library's
theorem on well-founded relations, and a recursive function is first shown to
exist and then unfolded.

The assumptions on constants are named in the modules that declare them and
checked by TLC on each instance. Those of `Verdicts` say what the parts outside
the model hand over: a parsed statement has the shape its parser gives it (one
query or two, INTO in a select only, arguments that are names, values or calls
without arguments, a first factor that joins nothing), a call's values stand under what was
opened before them, documents and servers name their fields with strings, rules name columns, and a Redis container is not itself a
command that reads (`src/redis.rs:143-145`). `PlansAssumption` of
`CommandFlow` says that a plan is made of the numbers the code reads off it.

Proving found places where the models were wrong and no instance showed it: the
single document a `count` answers with is not cut by a limit; a `$lookup` whose
`from` is not a plain text still reads somewhere else; `EXPLAIN` of a metadata
statement executes nothing; some CASE arms overlapped; a source of a FROM was known
by its name alone, so that two of one name were one; a parenthesised join that
has a name of its own hides what it is over, in the code as well (section 5, item 4);
and the meaning of MongoDB's calls was too narrow: it left out variables, the documents an
operator may return, projections in embedded documents and five stages, and it took a
literal array in a filter for stages.

`RowsProofs` also has `SharedByAttempts`, the clock the two attempts of `sample`
share, for every budget.

Only model-checked: liveness (`EveryRunEnds`, `EveryCommandEnds`, `SessionEnds`,
`DoctorEnds`), which needs ENABLED, out of the prover's reach. The violations are
runs, not theorems.

## 5. Where the code and its documents disagree

As runs:

1. `registry_name` may give the pairs of two destinations (`deploy@b`,
   `deploy_b`) one file. Reading catches it (`src/tunnel.rs:513-516`), but each
   run replaces the other pair's record, and "at most one nyet forward per pair"
   (`src/tunnel.rs:21`) fails (TunnelSharedFile).
2. `unique_alias` counts each base name by itself, so sources `a`, `a` and `a-2`
   become two sections `a-2`, which `src/datagrip.rs:216-219` says must not
   happen; a tunnelled source whose url has no port becomes a remote that
   does not parse. Either way no later command loads the config (ImportAliases).
3. `settings` whose editor does not start leaves the empty file it made, against
   `src/main.rs:3407-3409` (SettingsLeftover).

Stated in the modules, without a run of their own (naming the definition in the
cfg of the module's instance shows the trace):

4. The alias of a parenthesised join counts as that of an opaque source
   (`src/validator.rs:1820-1826`), whose columns "can only come from its own body"
   (1690-1693). Those behind it are the columns of the tables inside: qualified by
   it, a protected column is accepted in WHERE and ORDER BY, where 2168-2169 says it
   "is refused wherever it is mentioned". In the projection, net B refuses it
   where the driver says where it is from (`Verdicts.MentionIsRefused`, with
   `Statements <- Aliased` in `Verdicts.cfg`).
5. The pid that is recorded is asked for after the forward is up, and need not
   be the pid of the master that has it; the inference of `src/tunnel.rs:37-40`
   then fails (`Tunnel.AdoptedIsOurs`). `RecordedOwnerIsProof` is what does hold.
6. A standalone tunnel whose port was taken comes up on the other listener
   instead of failing (`src/tunnel.rs:950-953`; `Tunnel.CollisionFails`, with
   the jobs `StandaloneJobs`).
7. A writer that is killed half-way leaves a fragment to which the next record is
   appended (`docs/SECURITY-MODEL.md:253-255`; `AuditLog.ShownIsReadable`).
8. A ClickHouse plan that outruns its budget does not refuse the query
   (`docs/COMMANDS.md:180-182`; `RowsCommand.SlowPlanIsRefused`).
9. `explain` says of a plan that was too slow that `query` would refuse it, also
   where the guardrail is off and it would not (`CommandFlow.SlowMeansRefused`);
   `ExplainForetellsQuery` states the condition.

Met on the way, and not runs: directory scoping does not hide names, as the hint
for an unknown alias is every alias of the config, from any directory
(`src/main.rs:2709-2725`; no document says otherwise, and `ScopeHolds` is about
what succeeds or is touched); two imports at once may append one section twice,
which `ImportKeepsItLoading` forbids and its run, with one import, does not show;
a run killed between the two writes of `write_entry` leaves a forward without a
record, which ends with its master; ClickHouse and Redis give each request a deadline
of its own, so a command may take longer than its timeout (`BudgetShared` names
the engines it holds for); a late `COMMAND INFO` on Redis is reported as
DB_ERROR; the hint of AUDIT_FAILED says "the query ran" of refused ones too; the
plan's deadline (`src/engine.rs:276-279`: it "must fire STRICTLY before the
query's") is counted from the `EXPLAIN`, so when opening the transaction takes
longer than the reserve the query's deadline may fire first (`PlanEndsInTime`
states the condition); a `prepare` for column origins that fails aborts the
PostgreSQL transaction, and the statement then fails in it (`FailOpenWorks`
leaves that case out); an
open MongoDB cursor may have nothing left, so an answer may say TRUNCATED when it
is complete.

A comment of `validator.rs` (about 1089-1107) has it that each sql_mode matches
exactly one of its two scans of MySQL text; ANSI_QUOTES without
NO_BACKSLASH_ESCAPES mixes both. `doctor`'s facts about rights and settings quote
the server's words on catalogue queries also where a policy is set; those are
`catalog` in `CommandFlow`, which `RawIsWithheld` is not about. A name that a
Redis server groups commands under, and nyet does not know for a container, is
asked about as a whole once the owner allowed it by name; `RedisOnlyReads`
states that condition.

Also without a run: a timeout of MySQL's privilege queries leaves the connection
as poisoned as one of the metadata queries does, and yet it is used again, against
the rule stated at `src/engine.rs:2843-2847` ("we must NOT reuse it"). The late
error meets a metadata query, where it costs a fact and no more, since the
metadata drain it (`Paired`).

## 6. Not modelled

* `Tunnel`: reuse of pids by the kernel, two ssh that become master of one
  ControlPath at once, a `ssh -O cancel` that cannot be spawned, doctor's
  read-only `reuse_state`. A half-written record is one that does not parse.
* `RowsCommand`: the rules of layer 1 (a verdict), the text of statements,
  envelopes and hints; warnings that depend on data alone (duplicate columns,
  insecure transport); errors of masking for columns net B does not recognise.
* `GuardedSession`: the connect, which has its own deadline; the server's timing
  (a capped statement may be cut at any moment, an uncapped one never); decoding
  of values and the shape of catalogue queries; the drain of unread rows is part
  of the goodbye.
* `WriteProbe`: the connect; which of its facts the queries before the probe yield;
  `ddl_only`; the wording of the report.
* `CommandFlow`: one connection per config; how a helper or the keychain yields a
  secret; HOME is an input; what `doctor` makes of each engine's facts beyond
  whether it quotes them (`output.rs`).
* `Verdicts`: the SQL parser (a crate) and the shell text parser of MongoDB calls;
  statements nested deeper than one query in another, calls deeper than one call
  in another and parenthesised joins deeper than one (the code visits each node
  in the same way at any depth, and `VerdictProofs` has MongoDB's calls of any);
  of MongoDB, what a comparison with a whole embedded document decides beyond
  the fields it names: `CallResult` counts a value among what decides only where it
  is compared by itself.
* `ConfigFile`: XML and TOML text; a data source is a record, a section whether it
  loads.
* `secret set` (one write to the keychain), the agent skill text, rendering:
  no state of nyet's own. See the components in `PROJECT.json`.

## 7. Plan

Done: the core (`Tunnel`, `AuditLog`, `RowsCommand`), the sessions
(`GuardedSession`, `WriteProbe`), the policies (`Verdicts` and its rules), the
invocation (`CommandFlow`), the config's writers (`ConfigFile`); the safety of
all the state machines is proved but for
`ConfigFile`, whose properties the code violates; and both refinements are
(`StatementPromise`, `AuditTrail`).

Left, in this order:

1. The facts of `doctor` per engine and what its report may say of them.
2. `CommandFlow` and `RowsCommand` composed, so that one trace goes from the
   config to net B.
