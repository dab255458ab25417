--------------------------- MODULE MCCommandFlow ---------------------------
(***************************************************************************)
(* Small inputs for CommandFlow: for every engine three sound configs (plain,  *)
(* tunnelled, protected), each with one key changed in every way that          *)
(* matters; and every kind of call on the sound ones.                          *)
(***************************************************************************)
EXTENDS CommandFlow

Home == <<"home">>
Proj == <<"home", "proj">>
Srv  == <<"srv">>

MCReal == [p \in {<< >>, Home, Proj, Srv, <<"srv", "app">>, <<"home", "link">>} |->
              IF p = <<"home", "link">> THEN Srv ELSE p]

Lit(form, value) == [form |-> form, lit |-> value, var |-> FALSE]
Var(form) == [form |-> form, lit |-> Absent, var |-> TRUE]

Dir(kind, path) == [kind |-> kind, path |-> path]
Written(value) == [source |-> "config", value |-> value]
Kept(source) == [source |-> source, value |-> None]

Cells(key) ==
    CASE key = "allowed_dirs" ->
             {Missing, Var("list"), Var("text")} \cup
             {Lit("list", d) : d \in {{}, {Dir("absolute", Srv), Dir("home", <<"proj">>)},
                 {Dir("home", <<"link">>)}, {Dir("relative", << >>)}, {Dir("absolute", <<"none">>)}}}
      [] key \in {"allow_functions", "deny_functions"} -> {Lit("list", {"f"}), Var("list")}
      [] key = "pii.columns" ->
             {Lit("list", c) : c \in {{}, {"ok"}, {"deep"}, {"bad"}}} \cup {Var("list"), Var("text")}
      [] key = "url" ->
             {Missing, Lit("text", Written("around")), Lit("table", Kept("two")),
              Lit("table", Kept("else")), Var("text"), Var("table")}
      [] key = "password" -> {Lit("text", Written("pw")), Lit("table", Kept("else")), Var("table")}
      [] key = "guardrail.max_rows" -> {Lit("number", n) : n \in {0, 1, 3}} \cup {Var("text")}
      [] key \in NumberKeys -> {Lit("number", n) : n \in {0, 1}} \cup {Var("text")}
      [] key = "engine" -> {Missing, Var("text"), Lit("text", "oracle")}
      [] key = "path" -> {Missing, Lit("text", "p"), Var("text")}
      [] key \in SshKeys -> {Missing, Lit("text", "blank"), Lit("text", "unsafe"), Var("text")}
      [] key = "guardrail.mode" ->
             {Lit("text", m) : m \in {"off", "rows", "cost", "loud"}} \cup {Var("text")}
      [] key = "pii.mode" -> {Missing, Var("text")} \cup {Lit("text", m) : m \in {"mask", "hide"}}
      [] key = "audit.path" -> {Lit("text", "log"), Var("text")}
      [] OTHER -> {Lit("switch", FALSE), Lit("switch", TRUE), Var("text")}

\* What the environment would put where a variable is read.
Puts ==
    [k \in Keys |->
        CASE k = "allowed_dirs" -> {Dir("absolute", << >>)}
          [] k \in ListKeys -> {}
          [] k = "url" -> Written("around")
          [] k = "password" -> Kept("else")
          [] k = "engine" -> "sqlite"
          [] k \in SshKeys -> "unsafe"
          [] k = "guardrail.mode" -> "off"
          [] k = "pii.mode" -> "mask"
          [] OTHER -> "other"]

Envs == {[state |-> s, puts |-> Puts] : s \in {"unset", "not_unicode", "set"}}

Plain(engine) ==
    [[k \in Keys |-> Missing] EXCEPT
        !["engine"] = Lit("text", engine),
        !["allowed_dirs"] = Lit("list", {Dir("home", <<"proj">>)}),
        !["path"] = Lit("text", "p"),
        !["url"] = Lit("text", Written("plain"))]

Sound(engine) ==
    {Plain(engine),
     [Plain(engine) EXCEPT !["ssh.host"] = Lit("text", "bastion"), !["ssh.remote"] = Lit("text", "db")],
     [Plain(engine) EXCEPT !["pii.columns"] = Lit("list", {"ok"}), !["pii.mode"] = Lit("text", "deny")]}

AllEngines == ServerEngines \cup {"sqlite"}

SoundTexts == UNION {Sound(e) : e \in AllEngines}
OneChanged == UNION {{[t EXCEPT ![k] = c] : t \in SoundTexts, c \in Cells(k)} : k \in Keys}

Call(command, stmt, known, dir, home) ==
    [command |-> command, stmt |-> stmt, known |-> known, dir |-> dir, home |-> home]

UsualCalls == {Call(c, "query", TRUE, d, Home) : c \in Commands, d \in {Proj, Srv}}
AllCalls == {Call(c, s, k, d, h) : c \in Commands, s \in {"query", "metadata", "refused"},
                k \in BOOLEAN, d \in {Proj, <<"srv", "app">>, Absent}, h \in {Home, Absent}}

Reads(text) == \E k \in Keys : text[k].var

MCInputs ==
    [call : UsualCalls, file : [readable : {TRUE}, text : {t \in OneChanged : ~Reads(t)},
                                env : {e \in Envs : e.state = "set"}]]
    \cup [call : UsualCalls, file : [readable : {TRUE}, text : {t \in OneChanged : Reads(t)}, env : Envs]]
    \cup [call : AllCalls, file : [readable : BOOLEAN, text : SoundTexts,
                                   env : {e \in Envs : e.state = "set"}]]

Node(c, r, rec) == [cost |-> c, rows |-> r, recursive |-> rec]
Step(i, t, r, d) == [id |-> i, table |-> t, rows |-> r, dependent |-> d]

MCPlans(engine) ==
    LET pieces ==
            CASE engine = "postgres" ->
                     {Node(1, 1, FALSE), Node(4, 1, FALSE), Node(4, 4, TRUE), Node(Unread, Unread, FALSE)}
              [] engine \in MySqlLike ->
                     {Step(1, TRUE, 2, FALSE), Step(1, TRUE, 1, FALSE), Step(2, TRUE, 2, TRUE), Step(2, TRUE, 1, TRUE),
                      Step(2, TRUE, Unread, TRUE), Step(3, FALSE, Unread, FALSE), Step(1, TRUE, 0, FALSE)}
              [] engine = "clickhouse" -> {[rows |-> r] : r \in {Unread, 1, 2}}
              [] OTHER -> {}
    IN  UNION {[1 .. n -> pieces] : n \in 0 .. 2}
=============================================================================
