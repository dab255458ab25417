---------------------------- MODULE ArmingProofs ----------------------------
(***************************************************************************)
(* How a session of GuardedSession is armed, and repaired after its plan, for  *)
(* both engines and any set of names the server knows.                         *)
(***************************************************************************)
EXTENDS GuardedProofs

\* The names a MySQL flavour tries, in its order.
First  == IF job.label = "mariadb" THEN "max_statement_time" ELSE "max_execution_time"
Second == IF job.label = "mariadb" THEN "max_execution_time" ELSE "max_statement_time"

\* No cap is possible here.
Capless == ~IsPostgres /\ job.knows = {}

Own   == IF Capless THEN "none" ELSE "own"
Short == IF Capless THEN "none" ELSE "short"

PgShort == SetCap("short", "statement_timeout")
PgOwn   == SetCap("own", "statement_timeout")

Settings == {"begin", "arm", "restore"}

\* One unless the name is known.
Lost == IF reply = "unknown_var" THEN 1 ELSE 0

\* The name the client counts on is one the server knows; those it gave up are not.
Learned ==
    /\ IsPostgres => unknowns = 0 /\ pc # "arm" /\ (pc = "begin" => lead)
    /\ ~IsPostgres /\ pc = "begin" =>
        /\ var = "unknown"
        /\ \/ candidates = <<First, Second>> /\ unknowns = Lost
           \/ candidates = <<Second>> /\ First \notin job.knows /\ unknowns = 1 + Lost
           \/ candidates = << >> /\ job.knows = {} /\ unknowns = 2 /\ Lost = 0 /\ ~lead
    /\ ~IsPostgres /\ pc = "begin" /\ reply = "ok" => candidates # << >> /\ Head(candidates) \in job.knows
    /\ ~IsPostgres /\ pc \in {"arm", "restore"} => candidates = Candidates(var)
    /\ ~IsPostgres /\ ~Over /\ pc # "begin" => var \in job.knows \/ (var = "neither" /\ job.knows = {})
    /\ ~Over /\ reply = "unknown_var" =>
           ~IsPostgres /\ pc = "begin" /\ candidates # << >> /\ Head(candidates) \notin job.knows
    /\ ~Over /\ pc # "begin" => ~lead
    /\ unknowns <= IF job.knows = {} THEN 2 ELSE 1

\* What is left of a message before the goodbye.
Sent ==
    /\ ~Over /\ wire # << >> =>
        /\ pc \in {"explain", "prepare", "run", "describe"} => wire = Message[pc]
        /\ IsPostgres /\ pc = "begin" /\ Plans =>
               wire \in {<<Do("begin"), Do("savepoint"), PgShort>>, <<Do("savepoint"), PgShort>>, <<PgShort>>}
        /\ IsPostgres /\ pc = "begin" /\ ~Plans => wire = <<Do("begin")>>
        /\ IsPostgres /\ pc = "restore" => wire \in {<<Do("rollback_to"), PgOwn>>, <<PgOwn>>}
        /\ ~IsPostgres /\ pc = "begin" =>
               /\ candidates # << >>
               /\ \/ lead /\ wire = <<Do("begin"), SetCap("own", Head(candidates))>>
                  \/ wire = <<SetCap("own", Head(candidates))>>
        /\ ~IsPostgres /\ pc = "arm" => var \in job.knows /\ wire = <<SetCap("short", var)>>
        /\ ~IsPostgres /\ pc = "restore" => var \in job.knows /\ wire = <<SetCap("own", var)>>
    /\ pc = "goodbye" => \A i \in 1 .. Len(wire) : wire[i].do \in {"query", "rollback"}

\* The cap of the server, by the stage the client is at.
CapNow ==
    /\ Capless => cap = "none"
    /\ IsPostgres /\ pc = "begin" /\ (wire # << >> \/ ~awaiting) => cap = "own"
    /\ IsPostgres /\ pc = "begin" /\ Plans /\ (wire = <<PgShort>> \/ reply = "ok") => saved = "own"
    /\ IsPostgres /\ pc \in {"explain", "restore"} => saved = "own"
    /\ pc = "begin" /\ reply = "ok" => cap = IF IsPostgres /\ Plans THEN Short ELSE Own
    /\ pc = "arm" /\ reply = "ok" => cap = Short
    /\ pc = "restore" /\ reply = "ok" => cap = Own
    /\ pc = "explain" => cap = Short
    /\ pc \in {"judge", "prepare", "run", "describe"} => cap = Own

\* A statement of the agent goes with a cap.
Fit(what, c) ==
    /\ what # "explain" => c # "short"
    /\ what = "explain" => c # "own"
    /\ c = "none" => Capless

SentFits == \A i \in 1 .. Len(wire) : wire[i].do \in AgentText => Fit(wire[i].do, cap)

\* Caps have names of their engine; PostgreSQL alone has savepoints to go back to.
Named ==
    \A i \in 1 .. Len(wire) :
        /\ wire[i].name \in IF wire[i].do # "set" THEN {"none"}
                            ELSE IF IsPostgres THEN {"statement_timeout"} ELSE Names
        /\ ~IsPostgres => wire[i].do # "rollback_to"

\* The transaction is begun by the first message alone.
BegunOnce ==
    /\ begun <= 1
    /\ pc = "begin" /\ lead /\ ~awaiting => begun = 0
    /\ \A i \in 1 .. Len(wire) : wire[i].do = "begin" => i = 1 /\ begun = 0

\* A transaction that is aborted is one the client knows to repair.
Repaired ==
    /\ ~IsPostgres => txn # "aborted"
    /\ pc \in {"begin", "explain"} /\ txn = "aborted" => reply \in Errors
    /\ IsPostgres /\ pc = "restore" /\ (wire = <<PgOwn>> \/ reply = "ok") => txn = "ro"
    /\ pc = "judge" => txn # "aborted"
    /\ pc = "prepare" => job.origins
    /\ pc = "prepare" /\ ~awaiting => txn # "aborted"
    /\ pc = "run" /\ ~job.origins /\ ~awaiting => txn # "aborted"

Armed == Learned /\ Sent /\ CapNow /\ SentFits /\ Named /\ BegunOnce /\ Repaired /\ CapsFit

-----------------------------------------------------------------------------
(* Beginning, and asking.                                                      *)

LEMMA JobFacts ==
    ASSUME TypeOK
    PROVE  /\ job.knows \subseteq Names /\ (IsPostgres => job.knows = {})
           /\ {First, Second} = Names /\ First # Second
           /\ IsPostgres \/ job.engine = "mysql"
  BY DEF TypeOK, ClientTypes, Jobs, PgJobs, MyJobs, IsPostgres, First, Second, Names

LEMMA ArmedInit == Init => Armed
<1> SUFFICES ASSUME Init PROVE Armed
  OBVIOUS
<1>1. Len(wire) = 0 /\ wire = << >> /\ reply = "none" /\ pc = "begin" /\ seen = {}
  BY DEF Init
<1>2. candidates = <<First, Second>>
  BY DEF Init, Candidates, First, Second
<1>3. Sent /\ SentFits /\ Named /\ CapsFit
  BY <1>1 DEF Sent, SentFits, Named, CapsFit
<1>4. Learned
  BY <1>1, <1>2 DEF Init, Learned, Lost, Over
<1>5. CapNow /\ BegunOnce /\ Repaired
  BY <1>1 DEF Init, CapNow, BegunOnce, Repaired, Capless
<1> QED
  BY <1>3, <1>4, <1>5 DEF Armed

LEMMA NothingArms ==
    ASSUME Armed, UNCHANGED vars \/ Tick
    PROVE  Armed'
<1> USE DEF Armed
<1>1. UNCHANGED <<job, pc, var, candidates, lead, wire, awaiting, reply, txn, cap, saved, begun, unknowns, seen>>
  BY DEF vars, Tick, server
<1>2. Learned'
  BY <1>1 DEF Learned, Lost, Over, First, Second, IsPostgres, Candidates
<1>3. Sent'
  BY <1>1 DEF Sent, Over, IsPostgres, Plans, PgShort, PgOwn, SetCap, Do, Message
<1>4. CapNow' /\ CapsFit'
  BY <1>1 DEF CapNow, CapsFit, Capless, Own, Short, IsPostgres, Plans, PgShort
<1>5. SentFits' /\ Named'
  BY <1>1 DEF SentFits, Named, Fit, Capless, IsPostgres
<1>6. BegunOnce' /\ Repaired'
  BY <1>1 DEF BegunOnce, Repaired, IsPostgres, PgOwn
<1> QED
  BY <1>2, <1>3, <1>4, <1>5, <1>6

\* What each stage of the plumbing sends.
LEMMA SetTimeoutIs ==
    ASSUME NEW c \in Caps, candidates \in Seq(Names), lead \in BOOLEAN
    PROVE  /\ candidates # << >> /\ lead => SetTimeout(c) = <<Do("begin"), SetCap(c, Head(candidates))>>
           /\ candidates # << >> /\ ~lead => SetTimeout(c) = <<SetCap(c, Head(candidates))>>
           /\ candidates = << >> /\ ~lead => SetTimeout(c) = << >>
<1> DEFINE set == SetCap(c, Head(candidates))
<1>1. candidates # << >> => Head(candidates) \in Names
  OBVIOUS
<1>2. Do("begin") \in Statement /\ (candidates # << >> => set \in Statement)
  BY <1>1, StatementTypes
<1>3. candidates # << >> /\ lead => SetTimeout(c) = <<Do("begin")>> \o <<set>>
  BY DEF SetTimeout
<1>4. candidates # << >> /\ ~lead => SetTimeout(c) = << >> \o <<set>>
  BY DEF SetTimeout
<1>5. candidates = << >> /\ ~lead => SetTimeout(c) = << >> \o << >>
  BY DEF SetTimeout
<1>6. << >> \o << >> = << >> /\ (candidates # << >> => << >> \o <<set>> = <<set>>)
  BY <1>2, ConcatEmptySeq
<1> HIDE DEF set
<1>7. candidates # << >> => <<Do("begin")>> \o <<set>> = Append(<<Do("begin")>>, set)
  BY <1>2, AppendIsConcat
<1>8. candidates # << >> => Append(<<Do("begin")>>, set) = <<Do("begin"), set>>
  <2> SUFFICES ASSUME candidates # << >> PROVE Append(<<Do("begin")>>, set) = <<Do("begin"), set>>
    OBVIOUS
  <2>1. <<Do("begin")>> \in Seq(Statement) /\ Len(<<Do("begin")>>) = 1
    BY <1>2
  <2>2. /\ Append(<<Do("begin")>>, set) \in Seq(Statement) /\ Len(Append(<<Do("begin")>>, set)) = 2
        /\ Append(<<Do("begin")>>, set)[1] = Do("begin") /\ Append(<<Do("begin")>>, set)[2] = set
    BY <1>2, <2>1, AppendProperties
  <2>3. /\ <<Do("begin"), set>> \in Seq(Statement) /\ Len(<<Do("begin"), set>>) = 2
        /\ <<Do("begin"), set>>[1] = Do("begin") /\ <<Do("begin"), set>>[2] = set
    BY <1>2
  <2>4. \A i \in 1 .. 2 : i = 1 \/ i = 2
    OBVIOUS
  <2> HIDE DEF set
  <2> QED
    BY <2>2, <2>3, <2>4, SeqEqual
<1> QED
  BY <1>3, <1>4, <1>5, <1>6, <1>7, <1>8 DEF set

LEMMA BeginIs ==
    ASSUME Conversation, Armed, Ask, pc = "begin"
    PROVE  /\ IsPostgres /\ Plans => Message["begin"] = <<Do("begin"), Do("savepoint"), PgShort>>
           /\ IsPostgres /\ ~Plans => Message["begin"] = <<Do("begin")>>
           /\ ~IsPostgres =>
                /\ candidates # << >>
                /\ lead => Message["begin"] = <<Do("begin"), SetCap("own", Head(candidates))>>
                /\ ~lead => Message["begin"] = <<SetCap("own", Head(candidates))>>
<1>1. Message["begin"] = Begin /\ Message["begin"] # << >>
  BY DEF Message, Ask
<1>2. candidates \in Seq(Names) /\ lead \in BOOLEAN
  BY DEF Conversation, TypeOK, ClientTypes
<1>3. ~IsPostgres /\ candidates = << >> => ~lead
  BY DEF Armed, Learned
<1> QED
  BY <1>1, <1>2, <1>3, SetTimeoutIs DEF Begin, PgShort, Caps

LEMMA CandidatesIs ==
    /\ \A v \in Names : Candidates(v) = <<v>>
    /\ Candidates("neither") = << >>
  BY DEF Candidates, Names

LEMMA SettingIs ==
    ASSUME Conversation, Armed, Ask, pc \in {"arm", "restore"}
    PROVE  /\ ~IsPostgres => var \in job.knows
           /\ pc = "arm" => ~IsPostgres /\ Message["arm"] = <<SetCap("short", var)>>
           /\ pc = "restore" =>
                Message["restore"] = IF IsPostgres THEN <<Do("rollback_to"), PgOwn>> ELSE <<SetCap("own", var)>>
<1>1. candidates \in Seq(Names) /\ lead \in BOOLEAN /\ job.knows \subseteq Names
  BY JobFacts DEF Conversation, TypeOK, ClientTypes
<1>2. pc = "arm" => ~IsPostgres
  BY DEF Armed, Learned
<1>3. CASE IsPostgres
  BY <1>2, <1>3 DEF Message, Restore, PgOwn
<1>4. CASE ~IsPostgres
  <2>1. Message[pc] = SetTimeout(IF pc = "arm" THEN "short" ELSE "own") /\ Message[pc] # << >>
    BY <1>4 DEF Message, Restore, Ask
  <2>2. candidates = Candidates(var) /\ ~lead
    BY <1>4 DEF Armed, Learned, Over
  <2>3. var \in job.knows
    <3>1. candidates # << >>
      BY <1>1, <2>1, <2>2, SetTimeoutIs DEF Caps
    <3> QED
      BY <1>4, <2>2, <3>1, CandidatesIs DEF Armed, Learned, Over
  <2>4. candidates = <<var>> /\ Head(candidates) = var /\ candidates # << >>
    BY <1>1, <2>2, <2>3, CandidatesIs
  <2> QED
    BY <1>1, <1>4, <2>1, <2>2, <2>3, <2>4, SetTimeoutIs DEF Caps
<1> QED
  BY <1>3, <1>4

\* The wire after asking, before the goodbye.
LEMMA AskedIs ==
    ASSUME Conversation, Ask, pc # "goodbye"
    PROVE  /\ wire' = Message[pc] /\ ~Over /\ reply = "none" /\ wire = << >>
           /\ Message[pc] \in Seq(Statement)
<1>1. ~Over /\ wire = << >> /\ reply = "none" /\ wire' = wire \o Message[pc]
  BY DEF Conversation, Alternate, Over, Ask, Stages
<1>2. Message[pc] \in Seq(Statement)
  BY MessageType DEF Ask, Conversation
<1> QED
  BY <1>1, <1>2, ConcatEmptySeq

LEMMA AskArms ==
    ASSUME Conversation, Armed, Ask
    PROVE  Armed'
<1> USE DEF Armed
<1>1. /\ UNCHANGED <<job, pc, var, candidates, lead, reply, txn, cap, saved, begun, unknowns, seen>>
      /\ awaiting' = TRUE /\ awaiting = FALSE /\ pc \in Stages
  BY DEF Ask, client, server, Conversation, TypeOK, LinkTypes
<1>2. Learned' /\ CapsFit'
  BY <1>1 DEF Learned, CapsFit, Lost, Over, First, Second, IsPostgres, Candidates, Capless
<1>3. CASE pc = "goodbye"
  <2>1. wire' = wire \o <<Do("rollback")>>
    BY <1>3, OtherMessages DEF Ask
  <2>2. wire \in Seq(Statement) /\ <<Do("rollback")>> \in Seq(Statement)
    BY StatementTypes DEF Conversation, TypeOK, LinkTypes
  <2>3. /\ Len(wire') = Len(wire) + 1
        /\ \A i \in 1 .. Len(wire) : wire'[i] = wire[i]
        /\ wire'[Len(wire) + 1] = Do("rollback")
    BY <2>1, <2>2, ConcatProperties
  <2>4. \A i \in 1 .. Len(wire') : i \in 1 .. Len(wire) \/ i = Len(wire) + 1
    BY <2>2, <2>3
  <2>5. Do("rollback").do = "rollback" /\ Do("rollback").name = "none"
    BY DEF Do
  <2>6. Sent'
    BY <1>1, <1>3, <2>3, <2>4, <2>5 DEF Sent, Over
  <2>7. SentFits' /\ Named' /\ BegunOnce'
    <3>1. SentFits'
      BY <1>1, <2>3, <2>4, <2>5 DEF SentFits, Fit, Capless, IsPostgres, AgentText
    <3>2. Named'
      BY <1>1, <2>3, <2>4, <2>5 DEF Named, IsPostgres
    <3>3. BegunOnce'
      BY <1>1, <1>3, <2>3, <2>4, <2>5 DEF BegunOnce
    <3> QED
      BY <3>1, <3>2, <3>3
  <2>8. CapNow' /\ Repaired'
    BY <1>1, <1>3 DEF CapNow, Repaired, Capless, IsPostgres
  <2> QED
    BY <1>2, <2>6, <2>7, <2>8
<1>4. CASE pc # "goodbye"
  <2>1. wire' = Message[pc] /\ ~Over /\ reply = "none" /\ Message[pc] # << >>
    BY <1>4, AskedIs DEF Ask
  <2>2. CASE pc \in {"explain", "prepare", "run", "describe"}
    <3>1. PICK what \in AgentText : wire' = <<Do(what)>> /\ (what = "explain" <=> pc = "explain")
      BY <2>1, <2>2, OtherMessages DEF AgentText
    <3>2. Len(wire') = 1 /\ wire'[1] = Do(what) /\ Do(what).do = what /\ Do(what).name = "none"
      BY <3>1 DEF Do
    <3>3. Sent'
      BY <1>1, <2>1, <2>2 DEF Sent, Over, Message
    <3>4. SentFits'
      BY <1>1, <2>2, <3>1, <3>2 DEF SentFits, Fit, CapNow, Own, Short, Capless, IsPostgres
    <3>5. Named' /\ BegunOnce'
      BY <1>1, <2>2, <3>1, <3>2 DEF Named, BegunOnce, AgentText, IsPostgres
    <3>6. CapNow' /\ Repaired'
      BY <1>1, <2>2 DEF CapNow, Repaired, Capless, IsPostgres, Own, Short
    <3> QED
      BY <1>2, <3>3, <3>4, <3>5, <3>6
  <2>3. CASE pc = "begin"
    <3>1. \A c \in Caps : \A name : SetCap(c, name).do = "set" /\ SetCap(c, name).name = name
      BY DEF SetCap
    <3>2. \A what : Do(what).do = what /\ Do(what).name = "none"
      BY DEF Do
    <3>3. CASE IsPostgres
      <4>1. /\ Plans => wire' = <<Do("begin"), Do("savepoint"), PgShort>>
            /\ ~Plans => wire' = <<Do("begin")>>
            /\ lead
        BY <2>1, <2>3, <3>3, BeginIs DEF Learned
      <4>2. PgShort.do = "set" /\ PgShort.name = "statement_timeout"
        BY <3>1 DEF PgShort, Caps
      <4>3. Sent'
        BY <1>1, <2>3, <3>3, <4>1 DEF Sent, Over, IsPostgres, Plans, PgShort, SetCap, Do
      <4>4. SentFits' /\ Named' /\ BegunOnce'
        <5>1. \A i \in 1 .. Len(wire') : wire'[i] \in {Do("savepoint"), PgShort} \/ (i = 1 /\ wire'[i] = Do("begin"))
          BY <4>1
        <5> QED
          BY <1>1, <2>3, <3>2, <3>3, <4>1, <4>2, <5>1 DEF SentFits, Named, BegunOnce, AgentText, IsPostgres
      <4>5. wire' # <<PgShort>>
        BY <4>1, <3>2, <4>2
      <4>6. CapNow' /\ Repaired'
        BY <1>1, <2>1, <2>3, <3>3, <4>5 DEF CapNow, Repaired, Capless, IsPostgres, Plans, PgShort
      <4> QED
        BY <1>2, <4>3, <4>4, <4>6
    <3>4. CASE ~IsPostgres
      <4> DEFINE set == SetCap("own", Head(candidates))
      <4>1. /\ lead => wire' = <<Do("begin"), set>>
            /\ ~lead => wire' = <<set>>
            /\ candidates # << >> /\ Head(candidates) \in Names
        BY <2>1, <2>3, <3>4, BeginIs DEF Conversation, TypeOK, ClientTypes
      <4>2. set.do = "set" /\ set.name \in Names
        BY <3>1, <4>1 DEF Caps
      <4>3. Sent'
        BY <1>1, <2>3, <3>4, <4>1 DEF Sent, Over, IsPostgres, SetCap, Do
      <4> HIDE DEF set
      <4>4. SentFits' /\ Named' /\ BegunOnce'
        <5>1. \A i \in 1 .. Len(wire') : wire'[i] = set \/ (i = 1 /\ lead /\ wire'[i] = Do("begin"))
          BY <4>1 DEF Conversation, TypeOK, ClientTypes
        <5> QED
          BY <1>1, <2>3, <3>2, <3>4, <4>2, <5>1 DEF SentFits, Named, BegunOnce, AgentText, IsPostgres
      <4>5. CapNow' /\ Repaired'
        BY <1>1, <2>1, <2>3, <3>4 DEF CapNow, Repaired, Capless, IsPostgres, Own
      <4> QED
        BY <1>2, <4>3, <4>4, <4>5
    <3> QED
      BY <3>3, <3>4
  <2>4. CASE pc \in {"arm", "restore"}
    <3>1. \A c \in Caps : \A name : SetCap(c, name).do = "set" /\ SetCap(c, name).name = name
      BY DEF SetCap
    <3>2. Do("rollback_to").do = "rollback_to" /\ Do("rollback_to").name = "none"
      BY DEF Do
    <3>3. /\ wire' = Message[pc]
          /\ ~IsPostgres => var \in job.knows /\ var \in Names
          /\ pc = "arm" => ~IsPostgres /\ wire' = <<SetCap("short", var)>>
          /\ pc = "restore" =>
                wire' = IF IsPostgres THEN <<Do("rollback_to"), PgOwn>> ELSE <<SetCap("own", var)>>
      BY <2>1, <2>4, SettingIs, JobFacts DEF Conversation
    <3>4. Sent'
      BY <1>1, <2>4, <3>3 DEF Sent, Over, IsPostgres, SetCap, Do, PgOwn
    <3>5. SentFits' /\ Named' /\ BegunOnce'
      <4>1. \A i \in 1 .. Len(wire') :
               \/ wire'[i] \in {SetCap("short", var), SetCap("own", var)} /\ ~IsPostgres
               \/ wire'[i] \in {Do("rollback_to"), PgOwn} /\ IsPostgres
        BY <2>4, <3>3
      <4> QED
        BY <1>1, <2>4, <3>1, <3>2, <3>3, <4>1 DEF SentFits, Named, BegunOnce, AgentText, IsPostgres, PgOwn, Caps
    <3>6. wire' # <<PgOwn>> \/ ~IsPostgres
      BY <2>4, <3>1, <3>2, <3>3 DEF PgOwn, Caps
    <3>7. CapNow' /\ Repaired'
      BY <1>1, <2>1, <2>4, <3>6 DEF CapNow, Repaired, Capless, IsPostgres, Plans, PgOwn, Own, Short
    <3> QED
      BY <1>2, <3>4, <3>5, <3>7
  <2> QED
    BY <1>1, <1>4, <2>2, <2>3, <2>4 DEF Stages
<1> QED
  BY <1>3, <1>4

-----------------------------------------------------------------------------
(* The client's steps.                                                         *)

\* The reply is read to the end, and nothing else moves but the client.
Heeded ==
    /\ UNCHANGED <<job, txn, cap, saved, begun, unknowns, seen>>
    /\ wire' = << >> /\ awaiting' = FALSE /\ reply' = "none"

LEMMA HeededKeeps ==
    ASSUME Armed, Heeded, lead' = FALSE
    PROVE  Sent' /\ SentFits' /\ Named' /\ BegunOnce' /\ CapsFit'
<1>1. Len(wire') = 0
  BY DEF Heeded
<1>2. CapsFit' /\ begun' <= 1
  BY DEF Armed, Heeded, CapsFit, BegunOnce, IsPostgres
<1> QED
  BY <1>1, <1>2 DEF Heeded, Sent, SentFits, Named, BegunOnce

\* A step that ends the phase, or comes after it.
LEMMA EndsArmed ==
    ASSUME Armed, Over', wire' = << >> \/ (wire' = wire /\ (pc' = "done" \/ wire = <<Do("query")>>)),
           UNCHANGED <<job, txn, cap, saved, begun, unknowns, seen>>
    PROVE  Armed'
<1> USE DEF Armed
<1>1. CapsFit' /\ Learned'
  BY DEF CapsFit, Learned, Over, Capless, IsPostgres
<1>2. CapNow' /\ Repaired'
  BY DEF CapNow, Repaired, Over, Capless, IsPostgres
<1>3. Len(<< >>) = 0 /\ Len(<<Do("query")>>) = 1 /\ <<Do("query")>>[1].do = "query"
  BY DEF Do
<1>4. \A i \in 1 .. 1 : i = 1
  OBVIOUS
<1>5. Sent'
  BY <1>3, <1>4 DEF Sent, Over
<1>6. SentFits' /\ Named'
  BY <1>3 DEF SentFits, Named, Fit, Capless, IsPostgres
<1>7. BegunOnce'
  BY <1>3 DEF BegunOnce, Over
<1> QED
  BY <1>1, <1>2, <1>5, <1>6, <1>7

\* A cap is set, or no name is left: the session goes on armed.
LEMMA AfterSetArms ==
    ASSUME Conversation, Armed, Heeded, pc \in Settings, AfterSet(var'),
           ~IsPostgres => var' \in job.knows \/ (var' = "neither" /\ job.knows = {}),
           pc = "begin" => cap = IF IsPostgres /\ Plans THEN Short ELSE Own,
           pc = "begin" /\ IsPostgres /\ Plans => saved = "own",
           pc = "arm" => cap = Short /\ ~IsPostgres,
           pc = "restore" => cap = Own,
           IsPostgres => txn = "ro"
    PROVE  Armed'
<1> USE DEF Armed, Heeded
<1>1. \E stage \in {"explain", "arm", "prepare", "run", "judge"} :
          /\ GotoSet(stage, var')
          /\ stage = "explain" => (pc = "begin" /\ IsPostgres /\ Plans) \/ pc = "arm"
          /\ stage = "arm" => ~IsPostgres
          /\ stage = "prepare" => job.origins
          /\ stage = "judge" => pc = "restore"
          /\ stage \in {"prepare", "run"} => pc = "begin" /\ ~Plans
  BY DEF AfterSet, FirstStage, Settings
<1>2. PICK stage \in {"explain", "arm", "prepare", "run", "judge"} :
          /\ pc' = stage /\ ~lead'
          /\ ~IsPostgres => candidates' = Candidates(var')
          /\ stage = "explain" => (pc = "begin" /\ IsPostgres /\ Plans) \/ pc = "arm"
          /\ stage = "arm" => ~IsPostgres
          /\ stage = "prepare" => job.origins
          /\ stage = "judge" => pc = "restore"
          /\ stage \in {"prepare", "run"} => pc = "begin" /\ ~Plans
  BY <1>1 DEF GotoSet, Goto
<1>3. lead' = FALSE
  BY <1>1 DEF GotoSet
<1>4. Sent' /\ SentFits' /\ Named' /\ BegunOnce' /\ CapsFit'
  BY <1>3, HeededKeeps
<1>5. Learned'
  BY <1>2 DEF Learned, Over, Lost, IsPostgres, Candidates
<1>6. CapNow'
  BY <1>2 DEF CapNow, Capless, IsPostgres, Own, Short, Plans, Settings
<1>7. Repaired'
  BY <1>2 DEF Repaired, IsPostgres, Conversation, TypeOK, ServerTypes
<1> QED
  BY <1>4, <1>5, <1>6, <1>7

LEMMA SetDoneArms ==
    ASSUME Conversation, Armed, SetDone
    PROVE  Armed'
<1> USE DEF Armed
<1>1. pc \in Settings /\ awaiting /\ reply = "ok" /\ AfterSet(var') /\ ~Over /\ pc # "judge"
  BY DEF SetDone, Hears, Settings, Over
<1>2. Heeded
  BY <1>1 DEF SetDone, Heeded, Read, server, Conversation, Alternate
<1>3. ~IsPostgres => var' = IF candidates = << >> THEN "neither" ELSE Head(candidates)
  BY DEF SetDone
<1>4. ~IsPostgres => var' \in job.knows \/ (var' = "neither" /\ job.knows = {})
  <2>1. CASE pc = "begin"
    BY <1>1, <1>3, <2>1 DEF Learned
  <2>2. CASE pc \in {"arm", "restore"} /\ ~IsPostgres
    <3>1. candidates = Candidates(var) /\ (var \in job.knows \/ (var = "neither" /\ job.knows = {}))
      BY <1>1, <2>2 DEF Learned
    <3>2. CASE var \in job.knows
      <4>1. candidates = <<var>>
        BY <3>1, <3>2, CandidatesIs, JobFacts DEF Conversation
      <4> QED
        BY <1>3, <2>2, <3>2, <4>1
    <3>3. CASE var = "neither" /\ job.knows = {}
      BY <1>3, <2>2, <3>1, <3>3, CandidatesIs
    <3> QED
      BY <3>1, <3>2, <3>3
  <2> QED
    BY <1>1, <2>1, <2>2 DEF Settings
<1>5. IsPostgres => txn = "ro"
  <2>1. txn \in {"none", "ro", "aborted"}
    BY DEF Conversation, TypeOK, ServerTypes
  <2>2. txn # "none"
    BY <1>1 DEF Conversation, Opened
  <2> QED
    BY <1>1, <2>1, <2>2 DEF Repaired, Learned, Settings, Errors
<1>6. /\ pc = "begin" => cap = IF IsPostgres /\ Plans THEN Short ELSE Own
      /\ pc = "begin" /\ IsPostgres /\ Plans => saved = "own"
      /\ pc = "arm" => cap = Short /\ ~IsPostgres
      /\ pc = "restore" => cap = Own
  BY <1>1 DEF CapNow, Learned
<1> QED
  BY <1>1, <1>2, <1>4, <1>5, <1>6, AfterSetArms

LEMMA NoNameArms ==
    ASSUME Conversation, Armed, NoName
    PROVE  Armed'
<1> USE DEF Armed
<1>1. pc \in Settings /\ ~awaiting /\ Message[pc] = << >> /\ var' = "neither" /\ AfterSet(var') /\ ~Over
  BY DEF NoName, Settings, Over
<1>2. Heeded
  BY <1>1 DEF NoName, Heeded, server, Conversation, Alternate
<1>3. ~IsPostgres
  <2>1. pc # "arm" => Message[pc] \in {Begin, Restore}
    BY <1>1 DEF Message, Settings
  <2>2. IsPostgres => Begin # << >> /\ Restore # << >>
    BY DEF Begin, Restore
  <2> QED
    BY <1>1, <2>1, <2>2 DEF Learned
<1>4. candidates = << >>
  <2>1. candidates \in Seq(Names) /\ lead \in BOOLEAN
    BY DEF Conversation, TypeOK, ClientTypes
  <2>2. PICK c \in Caps : Message[pc] = SetTimeout(c)
    BY <1>1, <1>3 DEF Message, Begin, Restore, Settings, Caps
  <2>3. candidates # << >> => SetTimeout(c) # << >>
    <3>1. \A a, b : <<a, b>> # << >> /\ <<a>> # << >>
      OBVIOUS
    <3> QED
      BY <2>1, <3>1, SetTimeoutIs
  <2> QED
    BY <1>1, <2>2, <2>3
<1>5. job.knows = {}
  <2>1. CASE pc = "begin"
    BY <1>3, <1>4, <2>1 DEF Learned
  <2>2. CASE pc \in {"arm", "restore"}
    <3>1. candidates = Candidates(var) /\ (var \in job.knows => var \in Names)
      BY <1>3, <2>2, JobFacts DEF Learned, Conversation
    <3>2. \A v : <<v>> # << >>
      OBVIOUS
    <3>3. var \notin Names
      BY <1>4, <3>1, <3>2, CandidatesIs
    <3> QED
      BY <1>1, <1>3, <2>2, <3>1, <3>3 DEF Learned
  <2> QED
    BY <1>1, <2>1, <2>2 DEF Settings
<1>6. cap = "none" /\ Own = "none" /\ Short = "none"
  BY <1>3, <1>5 DEF CapNow, Capless, Own, Short
<1> QED
  BY <1>1, <1>2, <1>3, <1>5, <1>6, AfterSetArms

LEMMA OtherNameArms ==
    ASSUME Conversation, Armed, OtherName
    PROVE  Armed'
<1> USE DEF Armed
<1>1. /\ pc \in Settings /\ awaiting /\ reply = "unknown_var" /\ ~Over /\ candidates # << >>
      /\ candidates' = Tail(candidates) /\ lead' = FALSE /\ UNCHANGED <<pc, var>>
  BY DEF OtherName, Hears, Settings, Over
<1>2. Heeded
  BY <1>1 DEF OtherName, Heeded, Read, server, Conversation, Alternate
<1>3. ~IsPostgres /\ pc = "begin" /\ Head(candidates) \notin job.knows
  BY <1>1 DEF Learned
<1>4. Sent' /\ SentFits' /\ Named' /\ BegunOnce' /\ CapsFit'
  BY <1>1, <1>2, HeededKeeps
<1>5. CapNow' /\ Repaired'
  BY <1>1, <1>2, <1>3 DEF Heeded, CapNow, Repaired, Capless, IsPostgres
<1>6. unknowns \in Nat /\ Lost = 1 /\ Lost' = 0
  BY <1>1, <1>2 DEF Heeded, Lost, Conversation, TypeOK, ServerTypes
<1>7. /\ \/ candidates' = <<Second>> /\ First \notin job.knows /\ unknowns = 1
         \/ candidates' = << >> /\ job.knows = {} /\ unknowns = 2
      /\ First' = First /\ Second' = Second
  <2>1. First' = First /\ Second' = Second
    BY <1>2 DEF Heeded, First, Second
  <2>2. CASE candidates = <<First, Second>>
    BY <1>1, <1>3, <1>6, <2>1, <2>2 DEF Learned
  <2>3. CASE candidates = <<Second>>
    BY <1>1, <1>3, <1>6, <2>1, <2>3, JobFacts DEF Learned, Conversation
  <2> QED
    BY <1>1, <1>3, <2>2, <2>3 DEF Learned
<1>8. Learned'
  BY <1>1, <1>2, <1>3, <1>6, <1>7 DEF Heeded, Learned, Over, IsPostgres
<1> QED
  BY <1>4, <1>5, <1>8

LEMMA StatementArms ==
    ASSUME Conversation, Armed, Planned \/ Prepared \/ (Judge /\ ~Over') \/ (Ran /\ ~Over')
    PROVE  Armed'
<1> USE DEF Armed
<1>1. /\ Heeded /\ ~Over /\ var' = var
      /\ \/ pc = "explain" /\ pc' = "restore"
         \/ pc = "judge" /\ pc' \in {"prepare", "run"} /\ (job.origins <=> pc' = "prepare")
         \/ pc = "prepare" /\ pc' = "run"
         \/ pc = "run" /\ pc' = "describe"
      /\ pc' = "restore" /\ ~IsPostgres => candidates' = Candidates(var)
      /\ ~lead => ~lead'
  BY DEF Heeded, Planned, Prepared, Judge, Ran, Close, Goto, GotoSet, Over, Hears, Read, Conversation,
         Alternate, server
<1>2. lead' = FALSE
  BY <1>1 DEF Learned, Conversation, TypeOK, ClientTypes, Planned, Prepared, Judge, Ran, GotoSet
<1>3. Sent' /\ SentFits' /\ Named' /\ BegunOnce' /\ CapsFit'
  BY <1>1, <1>2, HeededKeeps
<1>4. Learned'
  BY <1>1, <1>2 DEF Heeded, Learned, Over, Lost, IsPostgres, Candidates
<1>5. CapNow' /\ Repaired'
  BY <1>1 DEF Heeded, CapNow, Repaired, Capless, IsPostgres, Own, Short
<1> QED
  BY <1>3, <1>4, <1>5

LEMMA LeavingArms ==
    ASSUME Conversation, Armed, Client, ~Ask, Over'
    PROVE  Armed'
<1>1. UNCHANGED <<job, txn, cap, saved, begun, unknowns, seen>> /\ wire' = wire
  BY DEF Client, SetDone, OtherName, NoName, BeginFails, Planned, CutShort, PlanDeadline,
         Breaks, Judge, Prepared, Ran, Enough, RunFails, Described, QueryDeadline, Goodbye,
         CloseDeadline, Read, server
<1>2. pc' = "done" \/ wire \in {<< >>, <<Do("query")>>}
  <2>1. ~SetDone /\ ~OtherName /\ ~NoName /\ ~Planned /\ ~Prepared
    BY DEF SetDone, OtherName, NoName, Planned, Prepared, Over, Goto, GotoSet, AfterSet, FirstStage
  <2>2. CASE BeginFails \/ CutShort \/ Breaks \/ RunFails \/ Described \/ Ran
    <3>1. awaiting /\ reply \notin {"none", "rows"} /\ ~Over
      BY <2>2 DEF BeginFails, CutShort, Breaks, RunFails, Described, Ran, Hears, HearsError, Errors, Over,
                  Conversation, Alternate
    <3> QED
      BY <3>1 DEF Conversation, Alternate
  <2>3. CASE Judge
    BY <2>3 DEF Judge, Conversation, Alternate, Over
  <2>4. CASE Enough
    BY <2>4 DEF Enough, Hears, Conversation, Alternate, Over
  <2>5. CASE PlanDeadline \/ QueryDeadline \/ Goodbye \/ CloseDeadline
    BY <2>5 DEF PlanDeadline, QueryDeadline, Goodbye, CloseDeadline, Drop, Goto
  <2> QED
    BY <2>1, <2>2, <2>3, <2>4, <2>5 DEF Client
<1> QED
  BY <1>1, <1>2, EndsArmed

LEMMA ClientArms ==
    ASSUME Conversation, Armed, Client
    PROVE  Armed'
<1>1. CASE Ask
  BY <1>1, AskArms
<1>2. CASE ~Ask /\ Over'
  BY <1>2, LeavingArms
<1>3. CASE ~Ask /\ ~Over'
  <2>1. SetDone \/ NoName \/ OtherName \/ Planned \/ Prepared \/ Judge \/ Ran
    BY <1>3 DEF Client, BeginFails, CutShort, PlanDeadline, Breaks, Enough, RunFails, Described,
                QueryDeadline, Goodbye, CloseDeadline, Over, Goto, Close, Drop
  <2> QED
    BY <1>3, <2>1, SetDoneArms, NoNameArms, OtherNameArms, StatementArms
<1> QED
  BY <1>1, <1>2, <1>3

-----------------------------------------------------------------------------
(* The server's steps.                                                         *)

\* Agent text runs under the cap it was sent with.
LEMMA NoteFits ==
    ASSUME Conversation, Armed, wire # << >>, Note(Head(wire)), job' = job
    PROVE  CapsFit'
<1>1. wire \in Seq(Statement) /\ 1 \in 1 .. Len(wire) /\ Head(wire) = wire[1]
  BY DEF Conversation, TypeOK, LinkTypes
<1>2. Head(wire).do \in AgentText => Fit(Head(wire).do, cap)
  BY <1>1 DEF Armed, SentFits
<1> QED
  BY <1>2 DEF Note, CapsFit, Fit, Armed, Capless, IsPostgres

\* What is left of the wire after its first statement.
LEMMA RestOfWire ==
    ASSUME Conversation, Armed, wire # << >>, wire' = Tail(wire) \/ wire' = << >>,
           UNCHANGED <<job, pc>>,
           begun' = IF Head(wire).do = "begin" THEN begun + 1 ELSE begun,
           lead' = lead, awaiting' = awaiting
    PROVE  SentFits' /\ Named' /\ BegunOnce'
<1>1. wire \in Seq(Statement) /\ 1 \in 1 .. Len(wire) /\ Head(wire) = wire[1]
  BY DEF Conversation, TypeOK, LinkTypes
<1>2. \A i \in 1 .. Len(wire') : i + 1 \in 1 .. Len(wire) /\ wire'[i] = wire[i + 1] /\ i + 1 # 1
  <2>1. CASE wire' = << >>
    BY <2>1
  <2>2. CASE wire' = Tail(wire)
    BY <1>1, <2>2, HeadTailProperties
  <2> QED
    BY <2>1, <2>2
<1>3. SentFits'
  BY <1>2 DEF SentFits, Conversation, Lined
<1>4. Named'
  BY <1>2 DEF Armed, Named, IsPostgres
<1>5. begun \in Nat
  BY DEF Conversation, TypeOK, ServerTypes
<1>6. BegunOnce'
  BY <1>1, <1>2, <1>5 DEF Armed, BegunOnce, Conversation, Alternate, Over
<1> QED
  BY <1>3, <1>4, <1>6

\* The first statement, and its name.
LEMMA FirstNamed ==
    ASSUME Conversation, Armed, wire # << >>
    PROVE  LET s == Head(wire)
           IN  /\ s.name \in IF s.do # "set" THEN {"none"}
                              ELSE IF IsPostgres THEN {"statement_timeout"} ELSE Names
               /\ ~IsPostgres => s.do # "rollback_to"
               /\ s.do = "set" /\ ~IsPostgres /\ Understands(s) => ~Capless
<1>1. wire \in Seq(Statement) /\ 1 \in 1 .. Len(wire) /\ Head(wire) = wire[1]
  BY DEF Conversation, TypeOK, LinkTypes
<1> QED
  BY <1>1 DEF Armed, Named, Understands, Capless

LEMMA OverArms ==
    ASSUME Conversation, Armed, Over, wire # << >>, wire' = << >> \/ wire' = Tail(wire),
           Accepts(Head(wire)), Understands(Head(wire)), Effect(Head(wire)),
           UNCHANGED <<client, pc, awaiting, unknowns>>
    PROVE  Armed'
<1> USE DEF Armed
<1>1. UNCHANGED <<job, var, candidates, lead>>
  BY DEF client
<1>2. SentFits' /\ Named' /\ BegunOnce' /\ CapsFit'
  BY <1>1, RestOfWire, NoteFits DEF Effect
<1>3. Learned'
  BY <1>1 DEF Learned, Over, IsPostgres
<1>4. Capless' => cap' = "none"
  BY <1>1, FirstNamed DEF CapNow, Effect, Capless, IsPostgres
<1>5. CapNow'
  BY <1>1, <1>4 DEF CapNow, Over
<1>6. Repaired'
  BY <1>1 DEF Repaired, Effect, Over, IsPostgres
<1>7. Sent'
  <2>1. wire \in Seq(Statement)
    BY DEF Conversation, TypeOK, LinkTypes
  <2>2. \A i \in 1 .. Len(wire') : i + 1 \in 1 .. Len(wire) /\ wire'[i] = wire[i + 1]
    <3>1. CASE wire' = << >>
      BY <3>1
    <3>2. CASE wire' = Tail(wire)
      BY <2>1, <3>2, HeadTailProperties
    <3> QED
      BY <3>1, <3>2
  <2> QED
    BY <2>2 DEF Sent, Over
<1> QED
  BY <1>2, <1>3, <1>5, <1>6, <1>7

\* The messages before the goodbye, statement by statement.
LEMMA Messages ==
    ASSUME Conversation, Armed, ~Over, wire # << >>
    PROVE  \/ /\ pc \in {"explain", "prepare", "run", "describe"} /\ wire = <<Head(wire)>> /\ Tail(wire) = << >>
              /\ Head(wire) = Do(IF pc = "explain" THEN "explain" ELSE IF pc = "run" THEN "query" ELSE "prepare")
           \/ /\ IsPostgres /\ pc = "begin" /\ Plans /\ wire = <<Do("begin"), Do("savepoint"), PgShort>>
              /\ Head(wire) = Do("begin") /\ Tail(wire) = <<Do("savepoint"), PgShort>>
           \/ /\ IsPostgres /\ pc = "begin" /\ Plans /\ wire = <<Do("savepoint"), PgShort>>
              /\ Head(wire) = Do("savepoint") /\ Tail(wire) = <<PgShort>>
           \/ /\ IsPostgres /\ pc = "begin" /\ Plans /\ wire = <<PgShort>>
              /\ Head(wire) = PgShort /\ Tail(wire) = << >>
           \/ /\ IsPostgres /\ pc = "begin" /\ ~Plans /\ wire = <<Do("begin")>>
              /\ Head(wire) = Do("begin") /\ Tail(wire) = << >>
           \/ /\ IsPostgres /\ pc = "restore" /\ wire = <<Do("rollback_to"), PgOwn>>
              /\ Head(wire) = Do("rollback_to") /\ Tail(wire) = <<PgOwn>>
           \/ /\ IsPostgres /\ pc = "restore" /\ wire = <<PgOwn>>
              /\ Head(wire) = PgOwn /\ Tail(wire) = << >>
           \/ /\ ~IsPostgres /\ pc = "begin" /\ lead /\ candidates # << >>
              /\ wire = <<Do("begin"), SetCap("own", Head(candidates))>>
              /\ Head(wire) = Do("begin") /\ Tail(wire) = <<SetCap("own", Head(candidates))>>
           \/ /\ ~IsPostgres /\ pc = "begin" /\ candidates # << >> /\ wire = <<SetCap("own", Head(candidates))>>
              /\ Head(wire) = SetCap("own", Head(candidates)) /\ Tail(wire) = << >>
           \/ /\ ~IsPostgres /\ pc = "arm" /\ var \in job.knows /\ wire = <<SetCap("short", var)>>
              /\ Head(wire) = SetCap("short", var) /\ Tail(wire) = << >>
           \/ /\ ~IsPostgres /\ pc = "restore" /\ var \in job.knows /\ wire = <<SetCap("own", var)>>
              /\ Head(wire) = SetCap("own", var) /\ Tail(wire) = << >>
<1>1. \A a : Head(<<a>>) = a /\ Tail(<<a>>) = << >>
  OBVIOUS
<1>2. \A a, b : Head(<<a, b>>) = a /\ Tail(<<a, b>>) = <<b>>
  OBVIOUS
<1>3. \A a, b, c : Head(<<a, b, c>>) = a /\ Tail(<<a, b, c>>) = <<b, c>>
  OBVIOUS
<1>4. pc \in Stages \cup {"judge"}
  BY DEF Conversation, TypeOK, ClientTypes, Over
<1>5. pc # "judge"
  BY DEF Conversation, Alternate
<1>6. CASE pc \in {"explain", "prepare", "run", "describe"}
  <2>1. wire = Message[pc]
    BY <1>6 DEF Armed, Sent
  <2> QED
    BY <1>1, <1>6, <2>1, OtherMessages
<1>7. CASE pc = "begin" /\ IsPostgres
  <2>1. CASE Plans
    <3>1. \/ wire = <<Do("begin"), Do("savepoint"), PgShort>>
          \/ wire = <<Do("savepoint"), PgShort>>
          \/ wire = <<PgShort>>
      BY <1>7, <2>1 DEF Armed, Sent
    <3>2. CASE wire = <<Do("begin"), Do("savepoint"), PgShort>>
      BY <1>3, <1>7, <2>1, <3>2
    <3>3. CASE wire = <<Do("savepoint"), PgShort>>
      BY <1>2, <1>7, <2>1, <3>3
    <3>4. CASE wire = <<PgShort>>
      BY <1>1, <1>7, <2>1, <3>4
    <3> QED
      BY <3>1, <3>2, <3>3, <3>4
  <2>2. CASE ~Plans
    BY <1>1, <1>7, <2>2 DEF Armed, Sent, Over
  <2> QED
    BY <2>1, <2>2
<1>8. CASE pc = "begin" /\ ~IsPostgres
  BY <1>1, <1>2, <1>8 DEF Armed, Sent
<1>9. CASE pc = "arm"
  BY <1>1, <1>9 DEF Armed, Sent, Learned
<1>10. CASE pc = "restore"
  BY <1>1, <1>2, <1>10 DEF Armed, Sent
<1> QED
  BY <1>4, <1>5, <1>6, <1>7, <1>8, <1>9, <1>10 DEF Stages, Over

\* The reply to what was served: none yet, or the last one's, or the connection is lost.
Served ==
    \/ /\ wire' = Tail(wire)
       /\ wire' # << >> => reply' = "none"
       /\ wire' = << >> => reply' \in {"ok", "last_row"}
    \/ wire' = << >> /\ reply' = "db"

LEMMA ServedArms ==
    ASSUME Conversation, Armed, ~Over, wire # << >>,
           Accepts(Head(wire)), Understands(Head(wire)), Effect(Head(wire)), Served,
           UNCHANGED <<client, pc, awaiting, unknowns>>
    PROVE  Armed'
<1> USE DEF Armed
<1>1. UNCHANGED <<job, var, candidates, lead>> /\ ~Over' /\ awaiting' /\ wire' \in {<< >>, Tail(wire)}
  BY DEF client, Over, Served, Conversation, Alternate
<1>2. SentFits' /\ Named' /\ BegunOnce' /\ CapsFit'
  BY <1>1, RestOfWire, NoteFits DEF Effect, Served
<1>3. Capless' => cap' = "none"
  BY <1>1, FirstNamed DEF CapNow, Effect, Capless, IsPostgres
<1>4. reply # "unknown_var" /\ reply' # "unknown_var" /\ Lost = 0 /\ Lost' = 0
  BY DEF Served, Lost, Conversation, Alternate, Over
<1>5. ~IsPostgres => txn' # "aborted"
  BY DEF Effect, Repaired
<1>6. /\ \A what : Do(what).do = what
      /\ \A c, name : SetCap(c, name).do = "set" /\ SetCap(c, name).cap = c /\ SetCap(c, name).name = name
  BY DEF Do, SetCap
<1>7. \A a, b, c : <<a>> # << >> /\ <<a, b>> # << >> /\ <<a, b>> # <<c>>
  OBVIOUS
<1>8. /\ txn' = IF Head(wire).do \in {"begin", "rollback_to"} THEN "ro"
                ELSE IF Head(wire).do = "rollback" THEN "none" ELSE txn
      /\ cap' = IF Head(wire).do = "set" THEN Head(wire).cap
                ELSE IF Head(wire).do = "rollback_to" THEN saved ELSE cap
      /\ saved' = IF Head(wire).do = "savepoint" THEN cap ELSE saved
  BY DEF Effect
<1>9. Head(wire).do \notin {"rollback", "rollback_to"} => txn # "aborted" /\ txn' # "aborted"
  BY <1>8 DEF Accepts
<1>10. reply' \in {"none", "db", "ok", "last_row"} /\ (reply' \in {"ok", "last_row"} => wire' = << >> /\ Tail(wire) = << >>)
  BY DEF Served
<1> DEFINE Rest == Learned' /\ Sent' /\ CapNow' /\ Repaired'
<1>11. ASSUME pc \in {"explain", "prepare", "run", "describe"}, Tail(wire) = << >>,
              Head(wire) = Do(IF pc = "explain" THEN "explain" ELSE IF pc = "run" THEN "query" ELSE "prepare")
       PROVE  Rest
  <2>1. UNCHANGED <<txn, cap, saved>> /\ wire' = << >> /\ txn # "aborted"
    BY <1>1, <1>6, <1>8, <1>9, <1>11
  <2>2. Learned'
    BY <1>1, <1>4, <1>11 DEF Learned, Over, IsPostgres, First, Second, Candidates
  <2>3. Sent' /\ CapNow'
    BY <1>1, <1>11, <2>1 DEF Sent, Over, CapNow, IsPostgres, Capless, Own, Short, Plans
  <2>4. Repaired'
    BY <1>1, <1>11, <2>1 DEF Repaired, IsPostgres
  <2> QED
    BY <2>2, <2>3, <2>4
<1>12. ASSUME IsPostgres, pc = "begin", Plans, txn' # "aborted",
              \/ wire' = << >>
              \/ wire' = <<Do("savepoint"), PgShort>> /\ cap' = "own"
              \/ wire' = <<PgShort>> /\ cap' = "own" /\ saved' = "own",
              reply' = "ok" => cap' = "short" /\ saved' = "own"
       PROVE  Rest
  <2>1. PgShort' = PgShort /\ Do("savepoint") # PgShort /\ IsPostgres' /\ Plans' /\ ~Capless'
    BY <1>1, <1>6, <1>12 DEF PgShort, IsPostgres, Plans, Capless
  <2>2. Learned'
    BY <1>1, <1>4, <1>12, <2>1 DEF Learned, Over, Capless
  <2>3. Sent'
    BY <1>1, <1>12, <2>1 DEF Sent, Over, Do
  <2>4. CapNow'
    BY <1>1, <1>7, <1>12, <2>1 DEF CapNow, Short
  <2>5. Repaired'
    BY <1>1, <1>12, <2>1 DEF Repaired
  <2> QED
    BY <2>2, <2>3, <2>4, <2>5
<1>13. ASSUME IsPostgres, pc = "begin", ~Plans, wire' = << >>, txn' # "aborted", cap' = "own"
       PROVE  Rest
  <2>1. IsPostgres' /\ ~Plans' /\ ~Capless'
    BY <1>1, <1>13 DEF IsPostgres, Plans, Capless
  <2>2. Learned' /\ Sent'
    BY <1>1, <1>4, <1>13, <2>1 DEF Learned, Sent, Over, Capless
  <2>3. CapNow' /\ Repaired'
    BY <1>1, <1>13, <2>1 DEF CapNow, Repaired, Own
  <2> QED
    BY <2>2, <2>3
<1>14. ASSUME IsPostgres, pc = "restore", txn' = "ro", saved' = "own",
              wire' = << >> \/ wire' = <<PgOwn>>, reply' = "ok" => cap' = "own"
       PROVE  Rest
  <2>1. PgOwn' = PgOwn /\ IsPostgres' /\ ~Capless'
    BY <1>1, <1>14 DEF PgOwn, IsPostgres, Capless
  <2>2. Learned' /\ Sent'
    BY <1>1, <1>4, <1>14, <2>1 DEF Learned, Sent, Over, Capless
  <2>3. CapNow' /\ Repaired'
    BY <1>1, <1>14, <2>1 DEF CapNow, Repaired, Own
  <2> QED
    BY <2>2, <2>3
<1>15. ASSUME ~IsPostgres, pc = "begin", candidates # << >>,
              wire' = << >> \/ wire' = <<SetCap("own", Head(candidates))>>,
              reply' = "ok" => cap' = "own" /\ Head(candidates) \in job.knows
       PROVE  Rest
  <2>1. ~IsPostgres' /\ First' = First /\ Second' = Second
    BY <1>1, <1>15 DEF IsPostgres, First, Second
  <2>2. Learned'
    BY <1>1, <1>4, <1>15, <2>1 DEF Learned, Over
  <2>3. Sent'
    BY <1>1, <1>15, <2>1 DEF Sent, Over, SetCap
  <2>4. CapNow' /\ Repaired'
    BY <1>1, <1>3, <1>5, <1>15, <2>1 DEF CapNow, Repaired, Own, Capless
  <2> QED
    BY <2>2, <2>3, <2>4
<1>16. ASSUME ~IsPostgres, pc \in {"arm", "restore"}, wire' = << >>, ~Capless,
              reply' = "ok" => cap' = IF pc = "arm" THEN "short" ELSE "own"
       PROVE  Rest
  <2>1. ~IsPostgres' /\ First' = First /\ Second' = Second /\ ~Capless'
    BY <1>1, <1>16 DEF IsPostgres, First, Second, Capless
  <2>2. Learned' /\ Sent'
    BY <1>1, <1>4, <1>16, <2>1 DEF Learned, Sent, Over, Candidates
  <2>3. CapNow' /\ Repaired'
    BY <1>1, <1>3, <1>5, <1>16, <2>1 DEF CapNow, Repaired, Own, Short
  <2> QED
    BY <2>2, <2>3
<1>17. wire' = << >> \/ (wire' = Tail(wire) /\ reply' = "none")
  BY DEF Served
<1>18. Rest
  <2> HIDE DEF Rest
  <2>1. CASE pc \in {"explain", "prepare", "run", "describe"}
    BY <1>11, <2>1, Messages
  <2>2. CASE IsPostgres /\ pc = "begin" /\ ~Plans
    <3>1. Head(wire) = Do("begin") /\ Tail(wire) = << >> /\ cap = "own"
      BY <2>2, Messages DEF CapNow
    <3> QED
      BY <1>6, <1>8, <1>13, <1>17, <2>2, <3>1
  <2>3. CASE IsPostgres /\ pc = "begin" /\ Plans
    <3>1. cap = "own"
      BY <2>3 DEF CapNow
    <3>2. CASE Head(wire) = Do("begin") /\ Tail(wire) = <<Do("savepoint"), PgShort>>
      <4>1. Head(wire).do = "begin"
        BY <1>6, <3>2
      <4>2. reply' # "ok" /\ cap' = "own" /\ txn' # "aborted"
        BY <1>7, <1>8, <1>10, <3>1, <3>2, <4>1
      <4> QED
        BY <1>12, <1>17, <2>3, <3>2, <4>2
    <3>3. CASE Head(wire) = Do("savepoint") /\ Tail(wire) = <<PgShort>>
      <4>1. Head(wire).do = "savepoint"
        BY <1>6, <3>3
      <4>2. reply' # "ok" /\ cap' = "own" /\ saved' = "own" /\ txn' # "aborted"
        BY <1>7, <1>8, <1>9, <1>10, <3>1, <3>3, <4>1
      <4> QED
        BY <1>12, <1>17, <2>3, <3>3, <4>2
    <3>4. CASE wire = <<PgShort>> /\ Head(wire) = PgShort /\ Tail(wire) = << >>
      <4>1. saved = "own"
        BY <2>3, <3>4 DEF CapNow
      <4>2. PgShort.do = "set" /\ PgShort.cap = "short"
        BY <1>6 DEF PgShort
      <4> QED
        BY <1>8, <1>9, <1>12, <1>17, <2>3, <3>4, <4>1, <4>2
    <3> QED
      BY <2>3, <3>2, <3>3, <3>4, Messages
  <2>4. CASE IsPostgres /\ pc = "restore"
    <3>1. saved = "own" /\ PgOwn.do = "set" /\ PgOwn.cap = "own"
      BY <1>6, <2>4 DEF CapNow, PgOwn
    <3>2. CASE Head(wire) = Do("rollback_to") /\ Tail(wire) = <<PgOwn>>
      <4>1. Head(wire).do = "rollback_to"
        BY <1>6, <3>2
      <4>2. reply' # "ok" /\ saved' = "own" /\ txn' = "ro"
        BY <1>7, <1>8, <1>10, <3>1, <3>2, <4>1
      <4> QED
        BY <1>14, <1>17, <2>4, <3>2, <4>2
    <3>3. CASE wire = <<PgOwn>> /\ Head(wire) = PgOwn /\ Tail(wire) = << >>
      <4>1. txn = "ro"
        BY <2>4, <3>3 DEF Repaired
      <4> QED
        BY <1>8, <1>14, <1>17, <2>4, <3>1, <3>3, <4>1
    <3> QED
      BY <2>4, <3>2, <3>3, Messages
  <2>5. CASE ~IsPostgres /\ pc = "begin"
    <3>1. CASE candidates # << >> /\ Tail(wire) = <<SetCap("own", Head(candidates))>>
      BY <1>7, <1>10, <1>15, <1>17, <2>5, <3>1
    <3>2. CASE candidates # << >> /\ Head(wire) = SetCap("own", Head(candidates)) /\ Tail(wire) = << >>
      <4>1. Head(candidates) \in Names
        BY <3>2 DEF Conversation, TypeOK, ClientTypes
      <4>2. Head(candidates) \in job.knows /\ cap' = "own"
        BY <1>6, <1>8, <3>2, <4>1 DEF Understands
      <4> QED
        BY <1>15, <1>17, <2>5, <3>2, <4>2
    <3> QED
      BY <2>5, <3>1, <3>2, Messages
  <2>6. CASE ~IsPostgres /\ pc \in {"arm", "restore"}
    <3>1. /\ var \in job.knows /\ Tail(wire) = << >>
          /\ Head(wire) = SetCap(IF pc = "arm" THEN "short" ELSE "own", var)
      BY <2>6, Messages
    <3> QED
      BY <1>6, <1>8, <1>16, <1>17, <2>6, <3>1 DEF Capless
  <2> QED
    BY <2>1, <2>2, <2>3, <2>4, <2>5, <2>6, Messages
<1> QED
  BY <1>2, <1>18

\* A statement fails, and the rest of its message is skipped.
LEMMA FailsArms ==
    ASSUME Conversation, Armed, Fails, conn = "open"
    PROVE  Armed'
<1> USE DEF Armed
<1>1. /\ UNCHANGED <<job, pc, var, candidates, lead, awaiting, cap, saved, begun>>
      /\ wire # << >> /\ wire' = << >> /\ Len(wire') = 0
      /\ ~IsPostgres => txn' = txn
      /\ reply' \in Errors \/ (reply' = "unknown_var" /\ ~Understands(Head(wire)))
      /\ unknowns' = IF reply' = "unknown_var" THEN unknowns + 1 ELSE unknowns
  BY DEF Fails, client, Errors
<1>2. wire \in Seq(Statement) /\ 1 \in 1 .. Len(wire) /\ Head(wire) = wire[1]
  BY <1>1 DEF Conversation, TypeOK, LinkTypes
<1>3. CapsFit'
  BY <1>1, NoteFits DEF Fails, CapsFit, IsPostgres
<1>4. Sent' /\ SentFits' /\ Named' /\ BegunOnce'
  BY <1>1 DEF Sent, SentFits, Named, BegunOnce
<1>5. reply' # "unknown_var" => reply' \in Errors
  BY <1>1
<1>6. CASE Over
  <2>1. Head(wire).do \in {"query", "rollback"}
    BY <1>2, <1>6 DEF Sent, Over, Conversation, Alternate
  <2>2. Understands(Head(wire))
    BY <1>1, <2>1, FirstNamed DEF Understands, Names
  <2>3. unknowns' = unknowns
    BY <1>1, <2>2 DEF Errors
  <2>4. Learned' /\ CapNow' /\ Repaired'
    BY <1>1, <1>6, <2>3 DEF Learned, CapNow, Repaired, Over, IsPostgres, Capless
  <2> QED
    BY <1>3, <1>4, <2>4
<1>7. CASE ~Over
  <2>1. reply \in {"none", "rows"} /\ awaiting
    BY <1>1, <1>7 DEF Conversation, Alternate
  <2>2. reply' = "unknown_var" =>
            ~IsPostgres /\ pc = "begin" /\ candidates # << >> /\ Head(candidates) \notin job.knows
    <3> SUFFICES ASSUME ~Understands(Head(wire))
                 PROVE  ~IsPostgres /\ pc = "begin" /\ candidates # << >> /\ Head(candidates) \notin job.knows
      BY <1>1 DEF Errors
    <3>1. ~IsPostgres /\ Head(wire).do = "set" /\ Head(wire).name \notin job.knows
      BY <1>1, FirstNamed DEF Understands, Names
    <3>2. /\ \A what : Do(what).do = what
          /\ \A c, name : SetCap(c, name).name = name
      BY DEF Do, SetCap
    <3> QED
      BY <1>1, <1>7, <3>1, <3>2, Messages
  <2>3. Lost = 0 /\ Lost' = (IF reply' = "unknown_var" THEN 1 ELSE 0) /\ unknowns \in Nat
    BY <2>1 DEF Lost, Conversation, TypeOK, ServerTypes
  <2>4. First' = First /\ Second' = Second /\ ~Over'
    BY <1>1, <1>7 DEF First, Second, Over
  <2>5. Learned'
    <3>1. CASE reply' # "unknown_var"
      BY <1>1, <1>5, <1>7, <2>3, <2>4, <3>1 DEF Learned, IsPostgres, Candidates, Errors
    <3>2. CASE reply' = "unknown_var"
      <4>1. \/ candidates = <<First, Second>> /\ First \notin job.knows /\ unknowns' = 1
            \/ candidates = <<Second>> /\ First \notin job.knows /\ Second \notin job.knows /\ unknowns' = 2
        BY <1>1, <2>2, <2>3, <3>2 DEF Learned
      <4>2. candidates = <<Second>> => job.knows = {}
        BY <4>1, JobFacts DEF Conversation
      <4>3. First # Second /\ <<First, Second>> # <<Second>>
        BY JobFacts DEF Conversation
      <4> QED
        BY <1>1, <2>2, <2>3, <2>4, <3>2, <4>1, <4>2, <4>3 DEF Learned, IsPostgres
    <3> QED
      BY <3>1, <3>2
  <2>6. CapNow'
    BY <1>1, <1>7, <2>1 DEF CapNow, IsPostgres, Capless, Own, Short, Plans, Errors
  <2>7. Repaired'
    BY <1>1, <1>5, <1>7, <2>1, <2>2 DEF Repaired, IsPostgres, Errors, Conversation, Alternate
  <2> QED
    BY <1>3, <1>4, <2>5, <2>6, <2>7
<1> QED
  BY <1>6, <1>7

LEMMA StreamsArms ==
    ASSUME Conversation, Armed, Streams
    PROVE  Armed'
<1> USE DEF Armed
<1>1. /\ UNCHANGED <<job, pc, var, candidates, lead, awaiting, wire, txn, cap, saved, begun, unknowns>>
      /\ wire # << >> /\ reply = "none" /\ reply' = "rows"
  BY DEF Streams, client
<1>2. CapsFit'
  BY <1>1, NoteFits DEF Streams
<1>3. pc \in {"run", "goodbye", "done"}
  BY DEF Streams, Conversation, Lined, TypeOK, LinkTypes, Over
<1>4. Learned' /\ CapNow' /\ Repaired'
  BY <1>1, <1>3 DEF Learned, CapNow, Repaired, Over, Lost, IsPostgres, Capless, Own, First, Second, Candidates
<1>5. Sent'
  BY <1>1, <1>3 DEF Sent, Over, Message
<1>6. SentFits' /\ Named' /\ BegunOnce'
  BY <1>1 DEF SentFits, Named, BegunOnce, Fit, Capless, IsPostgres
<1> QED
  BY <1>2, <1>4, <1>5, <1>6

LEMMA ServerArms ==
    ASSUME Conversation, Armed, Server \/ Orphan
    PROVE  Armed'
<1>1. CASE Streams
  BY <1>1, StreamsArms
<1>2. CASE Fails /\ conn = "open"
  BY <1>2, FailsArms
<1>3. CASE Done \/ Breaking
  <2>1. /\ wire # << >> /\ Accepts(Head(wire)) /\ Understands(Head(wire)) /\ Effect(Head(wire))
        /\ UNCHANGED <<client, pc, awaiting, unknowns>>
        /\ wire' = << >> \/ wire' = Tail(wire)
    BY <1>3 DEF Done, Breaking
  <2>2. ASSUME ~Over PROVE Served
    <3>1. CASE Breaking
      BY <3>1 DEF Breaking, Served
    <3>2. CASE Done
      <4>1. /\ awaiting /\ reply \in {"none", "rows"} /\ (reply = "rows" => wire = <<Do("query")>>)
            /\ wire' = Tail(wire)
        BY <2>1, <2>2, <3>2 DEF Conversation, Alternate, Done
      <4>2. Len(wire) \in Nat /\ Len(wire) >= 1 /\ (Len(wire) > 1 <=> Tail(wire) # << >>)
        <5>1. wire \in Seq(Statement)
          BY DEF Conversation, TypeOK, LinkTypes
        <5>2. Tail(wire) \in Seq(Statement) /\ Len(Tail(wire)) = Len(wire) - 1
          BY <2>1, <5>1, HeadTailProperties
        <5>3. Tail(wire) = << >> <=> Len(Tail(wire)) = 0
          BY <5>2, EmptySeq
        <5> QED
          BY <2>1, <5>1, <5>2, <5>3
      <4>3. reply = "rows" => Len(wire) = 1
        BY <4>1
      <4> QED
        BY <3>2, <4>1, <4>2, <4>3 DEF Done, Served
    <3> QED
      BY <1>3, <3>1, <3>2
  <2> QED
    BY <2>1, <2>2, OverArms, ServedArms
<1> QED
  BY <1>1, <1>2, <1>3 DEF Server, Orphan

LEMMA ArmedStep ==
    ASSUME Conversation, Armed, [Next]_vars
    PROVE  Armed'
  BY NothingArms, ClientArms, ServerArms DEF Next, Finished

LEMMA ArmedHolds == Spec => [](Conversation /\ Armed)
<1>1. Init => Armed
  BY ArmedInit
<1>2. Conversation /\ Armed /\ [Next]_vars => Armed'
  BY ArmedStep
<1> QED
  BY <1>1, <1>2, ConversationHolds, PTL DEF Spec

-----------------------------------------------------------------------------
(* What follows.                                                               *)

\* Statement and plan each run under a cap of their own wherever the server knows
\* one, and the flavour is learned once per connection, whichever names are known and
\* whatever fails, is late or is lost (set_statement_timeout and the guarded plans).
THEOREM SessionsAreArmed == Spec => []ArmedRight
<1>1. Armed => ArmedRight
  BY DEF Armed, ArmedRight, FlavourLearnedOnce, BegunOnce, Learned
<1> QED
  BY <1>1, ArmedHolds, PTL

\* A plan that failed leaves a transaction the statement can run in, for every server
\* and timeout: the repair of pg_guarded_plan is enough.
THEOREM RepairWorks == Spec => []FailOpenWorks
<1>1. Conversation /\ Armed => FailOpenWorks
  BY DEF Conversation, TypeOK, ServerTypes, Opened, Over, Armed, Repaired, FailOpenWorks
<1> QED
  BY <1>1, ArmedHolds, PTL

=============================================================================
