----------------------------- MODULE MCVerdicts -----------------------------
(***************************************************************************)
(* Verdicts on the cases of SqlCases and MongoCases, and on a small Redis.     *)
(***************************************************************************)
EXTENDS Verdicts, SqlCases, MongoCases, TLC

\* "box" groups commands on the server, and nyet does not know that.
TheServed ==
    << "get" >> :> {"readonly"} @@ << "keys" >> :> {"readonly", "dangerous"}
    @@ << "set" >> :> {"write"} @@ << "blpop" >> :> {"write", "blocking"}
    @@ << "xread" >> :> {"readonly", "blocking"} @@ << "publish" >> :> {}
    @@ << "eval_ro" >> :> {"readonly"} @@ << "config" >> :> {} @@ << "object" >> :> {}
    @@ << "config", "get" >> :> {"admin", "dangerous"} @@ << "object", "encoding" >> :> {"readonly"}
    @@ << "script" >> :> {} @@ << "script", "load" >> :> {}
    @@ << "box" >> :> {} @@ << "box", "read" >> :> {"readonly"} @@ << "box", "drop" >> :> {"write"}

RedisPolicy(allow, deny) == [engine |-> "redis", allow |-> allow, deny |-> deny]
TheRedisPolicies ==
    {RedisPolicy({}, {}), RedisPolicy({<<"keys">>, <<"set">>, <<"config">>, <<"eval_ro">>}, {}),
     RedisPolicy({<<"config", "get">>, <<"eval_ro">>, <<"publish">>}, {<<"get">>, <<"eval_ro">>}),
     RedisPolicy({<<"script">>, <<"box">>}, {<<"object">>})}

TheRedisLines ==
    {[line |-> "ok", words |-> words] :
        words \in DOMAIN TheServed \cup {<<"get", "k">>, <<"set", "k">>, <<"nosuch">>, <<"box", "k">>, << >>}}
    \cup {[line |-> "broken", words |-> <<"get">>]}

=============================================================================
