----------------------------- MODULE RedisRules -----------------------------
(***************************************************************************)
(* Layer 1 for Redis (src/redis.rs, src/engine/redis.rs): the half decided     *)
(* before anything is connected, the half that asks the server what a command  *)
(* does, and the table made of a reply.                                        *)
(*                                                                          *)
(* A line is [line, words]: "ok", or "broken" (an open quote, a control          *)
(* character), and its words, the first ones folded to lower case.             *)
(***************************************************************************)
EXTENDS Refusals

Containers ==
    {"acl", "client", "cluster", "command", "config", "function", "latency", "memory",
     "object", "pubsub", "script", "slowlog", "xgroup", "xinfo"}

DeniedCommands ==
    {"eval", "eval_ro", "evalsha", "evalsha_ro", "fcall", "fcall_ro", "function", "script"}

\* A command is named with its subcommand where nyet knows it takes one.
Lookup(words) ==
    IF Len(words) > 1 /\ words[1] \in Containers THEN <<words[1], words[2]>> ELSE <<words[1]>>

Denylist(p) == ({<<name>> : name \in DeniedCommands} \ p.allow) \cup p.deny

\* Config names a command, or a whole container.
NamedIn(list, name) == name \in list \/ <<name[1]>> \in list

\* What COMMAND INFO says of a name: `known` is FALSE where the server does not
\* know it (or nothing is known yet), `error` set where it would not answer.
Unknown == [error |-> None, known |-> FALSE, flags |-> {}]

\* A bug: an allowed command is not asked for its flags.
CommandObjections_AllowIsAll(p, name, info) ==
    << When(NamedIn(Denylist(p), name), "DENIED_COMMAND"),
       When(~info.known, "WRITE_OPERATION"),
       IF NamedIn(p.allow, name) THEN {}
       ELSE FirstRefusal(<< When("write" \in info.flags, "WRITE_OPERATION"),
                            When(info.flags \cap {"admin", "blocking"} # {}, "DENIED_COMMAND"),
                            When("readonly" \notin info.flags, "WRITE_OPERATION"),
                            When("dangerous" \in info.flags, "DENIED_COMMAND") >>) >>

\* check, in order.
CommandObjections(p, name, info) ==
    << When(NamedIn(Denylist(p), name), "DENIED_COMMAND"),
       When("write" \in info.flags, "WRITE_OPERATION"),
       When(~info.known, "WRITE_OPERATION"),
       IF NamedIn(p.allow, name) THEN {}
       ELSE FirstRefusal(<< When(info.flags \cap {"admin", "blocking"} # {}, "DENIED_COMMAND"),
                            When("readonly" \notin info.flags, "WRITE_OPERATION"),
                            When("dangerous" \in info.flags, "DENIED_COMMAND") >>) >>

LineObjections(l) == When(l.line # "ok" \/ l.words = << >>, "PARSE_FAILED")

\* validate_redis: of what check says without the server, only the denylist is
\* a verdict.
CheckLine(p, l) ==
    [why |-> IF LineObjections(l) # {} THEN LineObjections(l)
             ELSE FirstRefusal(CommandObjections(p, Lookup(l.words), Unknown)) \cap {"DENIED_COMMAND"}]

\* flags and classified: the verdict with the server's answer.
Classify(p, l, info) ==
    IF LineObjections(l) # {} THEN LineObjections(l)
    ELSE IF info.error = "noperm" THEN {"UNCLASSIFIED"}
    ELSE IF info.error # None THEN {"DB_ERROR"}
    ELSE FirstRefusal(CommandObjections(p, Lookup(l.words), info))

\* shape, and the cut at what may be fetched: a map is a row per pair, a list
\* one per item, anything else one.
Shape(value, fetch) ==
    LET n == IF value.k \in {"map", "list"} THEN value.n ELSE 1
    IN  [columns |-> IF value.k = "map" THEN <<"field", "value">> ELSE <<"value">>,
         rows    |-> IF n < fetch THEN n ELSE fetch]

=============================================================================
