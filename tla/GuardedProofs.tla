---------------------------- MODULE GuardedProofs ----------------------------
(***************************************************************************)
(* Theorems about GuardedSession for every timeout, cap and grace that       *)
(* satisfies SessionAssumption.                                             *)
(***************************************************************************)
EXTENDS GuardedSession, SequenceTheorems, TLAPS

\* Every stage is within its own deadline.
Timing ==
    /\ since <= clock
    /\ pc \notin {"goodbye", "done"} => clock <= Timeout
    /\ pc = "explain" => clock <= since + ExplainDeadline
    /\ pc = "goodbye" => since <= Timeout /\ clock <= since + CloseGrace

\* The budget of a plan is what the comment on explain_budget_ms says: at least
\* one, at most the flat cap, and with its grace inside the query's deadline less
\* the reserve.
THEOREM BudgetFits ==
    /\ ExplainBudget \in 1 .. ExplainCap
    /\ ExplainDeadline \in Nat
    /\ ExplainDeadline + ExplainReserve <= Timeout
  BY SessionAssumption DEF ExplainBudget, ExplainDeadline, Less, AtLeast1

LEMMA CandidatesType ==
    ASSUME NEW v \in Names \cup {"unknown", "neither"}
    PROVE  Candidates(v) \in Seq(Names)
<1>1. CASE v \in Names
  <2>1. Candidates(v) = <<v>>
    BY <1>1 DEF Candidates, Names
  <2> QED
    BY <1>1, <2>1
<1>2. CASE v = "unknown"
  <2>1. CASE job.label = "mariadb"
    BY <1>2, <2>1 DEF Candidates, Names
  <2>2. CASE job.label # "mariadb"
    BY <1>2, <2>2 DEF Candidates, Names
  <2> QED
    BY <2>1, <2>2
<1>3. CASE v = "neither"
  <2>1. Candidates(v) = << >>
    BY <1>3 DEF Candidates
  <2> QED
    BY <2>1
<1> QED
  BY <1>1, <1>2, <1>3

LEMMA StatementTypes ==
    /\ \A what \in {"begin", "savepoint", "explain", "rollback_to", "prepare", "query",
                    "rollback"} : Do(what) \in Statement
    /\ \A c \in Caps, name \in Names \cup {"statement_timeout"} : SetCap(c, name) \in Statement
  BY DEF Do, SetCap, Statement, Caps, Names

LEMMA SetTimeoutType ==
    ASSUME TypeOK, NEW c \in Caps
    PROVE  SetTimeout(c) \in Seq(Statement)
<1>1. Do("begin") \in Statement
  BY StatementTypes
<1>2. candidates # << >> => SetCap(c, Head(candidates)) \in Statement
  BY StatementTypes DEF TypeOK, ClientTypes
<1> QED
  BY <1>1, <1>2 DEF SetTimeout

LEMMA MessageType ==
    ASSUME TypeOK, NEW stage \in Stages
    PROVE  Message[stage] \in Seq(Statement)
<1>1. \A c \in Caps : SetTimeout(c) \in Seq(Statement)
  BY SetTimeoutType
<1>2. Begin \in Seq(Statement)
  BY <1>1, StatementTypes DEF Begin, Caps
<1>3. Restore \in Seq(Statement)
  BY <1>1, StatementTypes DEF Restore, Caps
<1>4. SetTimeout("short") \in Seq(Statement)
  BY <1>1 DEF Caps
<1>5. CASE stage \in {"begin", "arm", "restore"}
  BY <1>2, <1>3, <1>4, <1>5 DEF Message
<1>6. CASE stage \in {"explain", "prepare", "run", "describe", "goodbye"}
  <2>1. \E what \in {"explain", "prepare", "query", "rollback"} : Message[stage] = <<Do(what)>>
    BY <1>6 DEF Message
  <2> QED
    BY <2>1, StatementTypes
<1> QED
  BY <1>5, <1>6 DEF Stages

-----------------------------------------------------------------------------
(* Types.                                                                   *)

\* Only the server's steps change the server, and they leave the client alone.
LEMMA Frames ==
    ASSUME [Next]_vars
    PROVE  /\ UNCHANGED server \/ Done \/ Streams \/ Fails \/ Breaking
           /\ UNCHANGED <<client, pc>> \/ Tick \/ (Client /\ ~Ask)
  BY DEF Next, Client, Server, Orphan, Finished, vars, client, server, Tick, Ask, Done, Streams,
         Fails, Breaking, SetDone, OtherName, NoName, BeginFails, Planned, CutShort,
         PlanDeadline, Breaks, Judge, Prepared, Ran, Enough, RunFails, Described,
         QueryDeadline, Goodbye, CloseDeadline

LEMMA ServerTypesStep ==
    ASSUME TypeOK, [Next]_vars
    PROVE  ServerTypes'
<1>1. CASE UNCHANGED server
  BY <1>1 DEF TypeOK, ServerTypes, server
<1>2. ASSUME NEW s \in Statement, Note(s) PROVE
        seen' \subseteq [do : AgentText, txn : {"none", "ro", "aborted"}, cap : Caps]
  BY <1>2 DEF Note, TypeOK, ServerTypes
<1>3. ASSUME NEW s \in Statement, Effect(s), unknowns' = unknowns PROVE ServerTypes'
  BY <1>2, <1>3 DEF Effect, TypeOK, ServerTypes, Statement, Caps
<1>4. wire # << >> => Head(wire) \in Statement
  BY DEF TypeOK, LinkTypes
<1>5. CASE Done
  BY <1>3, <1>4, <1>5 DEF Done
<1>6. CASE Breaking
  BY <1>3, <1>4, <1>6 DEF Breaking
<1>7. CASE Streams
  BY <1>2, <1>4, <1>7 DEF Streams, TypeOK, ServerTypes
<1>8. CASE Fails
  BY <1>2, <1>4, <1>8 DEF Fails, TypeOK, ServerTypes
<1> QED
  BY <1>1, <1>5, <1>6, <1>7, <1>8, Frames

LEMMA LinkTypesStep ==
    ASSUME TypeOK, [Next]_vars
    PROVE  LinkTypes'
<1>1. CASE UNCHANGED <<wire, awaiting, reply>>
  BY <1>1 DEF TypeOK, LinkTypes
<1>2. CASE Ask
  <2>1. Message[pc] \in Seq(Statement)
    BY <1>2, MessageType DEF Ask
  <2> QED
    BY <1>2, <2>1 DEF Ask, TypeOK, LinkTypes
<1>3. CASE Read
  BY <1>3 DEF Read, TypeOK, LinkTypes
<1>4. wire # << >> => Tail(wire) \in Seq(Statement)
  BY DEF TypeOK, LinkTypes
<1>5. << >> \in Seq(Statement)
  OBVIOUS
<1>6. CASE Done
  BY <1>4, <1>6 DEF Done, TypeOK, LinkTypes
<1>7. CASE Streams \/ Fails \/ Breaking
  BY <1>5, <1>7 DEF Streams, Fails, Breaking, TypeOK, LinkTypes, Errors
<1>8. UNCHANGED <<wire, awaiting, reply>> \/ Ask \/ Read \/ Done \/ Streams \/ Fails \/ Breaking
  BY DEF Next, Client, Server, Orphan, Finished, vars, Tick, SetDone, OtherName, NoName,
         BeginFails, Planned, CutShort, PlanDeadline, Breaks, Judge, Prepared, Ran, Enough,
         RunFails, Described, QueryDeadline, Goodbye, CloseDeadline
<1> QED
  BY <1>1, <1>2, <1>3, <1>6, <1>7, <1>8

LEMMA ClientTypesStep ==
    ASSUME TypeOK, [Next]_vars
    PROVE  ClientTypes'
<1> USE DEF TypeOK, ClientTypes, Goto, Close, Drop, Errors, Stages
<1>1. CASE UNCHANGED <<client, pc>> \/ Tick
  BY <1>1 DEF client, Tick
<1>2. ASSUME NEW stage \in Stages \cup {"judge"}, NEW v \in Names \cup {"unknown", "neither"},
             GotoSet(stage, v)
      PROVE  pc' = stage /\ candidates' \in Seq(Names) /\ lead' \in BOOLEAN
  BY <1>2, CandidatesType DEF GotoSet
<1>3. ASSUME NEW v \in Names \cup {"unknown", "neither"}, AfterSet(v),
             pc \in {"begin", "arm", "restore"}
      PROVE  /\ pc' \in Stages \cup {"judge"}
             /\ candidates' \in Seq(Names) /\ lead' \in BOOLEAN
  <2>1. \E stage \in {"explain", "arm", "prepare", "run", "judge"} : GotoSet(stage, v)
    BY <1>3 DEF AfterSet, FirstStage
  <2> QED
    BY <1>2, <2>1
<1>4. CASE SetDone
  <2>1. var' \in Names \cup {"unknown", "neither"}
    BY <1>4 DEF SetDone
  <2> QED
    BY <1>3, <1>4, <2>1 DEF SetDone
<1>5. CASE OtherName
  <2>1. candidates' \in Seq(Names)
    BY <1>5 DEF OtherName
  <2> QED
    BY <1>5, <2>1 DEF OtherName
<1>6. CASE NoName
  BY <1>3, <1>6 DEF NoName
<1>7. CASE BeginFails
  BY <1>7 DEF BeginFails, HearsError
<1>8. CASE Planned
  BY <1>2, <1>8 DEF Planned
<1>9. CASE CutShort \/ PlanDeadline
  BY <1>9 DEF CutShort, PlanDeadline
<1>10. CASE Breaks
  BY <1>10 DEF Breaks, HearsError
<1>11. CASE Judge
  BY <1>11 DEF Judge
<1>12. CASE Prepared \/ Ran \/ Enough \/ Described
  BY <1>12 DEF Prepared, Ran, Enough, Described
<1>13. CASE RunFails
  BY <1>13 DEF RunFails, HearsError
<1>14. CASE QueryDeadline \/ Goodbye \/ CloseDeadline
  BY <1>14 DEF QueryDeadline, Goodbye, CloseDeadline
<1> QED
  BY <1>1, <1>4, <1>5, <1>6, <1>7, <1>8, <1>9, <1>10, <1>11, <1>12, <1>13, <1>14, Frames
     DEF Client

-----------------------------------------------------------------------------
(* Time.                                                                    *)

Unanswered == pc \notin {"goodbye", "done"} => answer = "none"

Timed == TypeOK /\ Timing /\ Unanswered

LEMMA TimedInit == Init => Timed
<1> SUFFICES ASSUME Init PROVE Timed
  OBVIOUS
<1>1. Candidates("unknown") \in Seq(Names)
  BY CandidatesType
<1>2. << >> \in Seq(Statement)
  OBVIOUS
<1>3. plan \in {"none", "off"} /\ cap \in {"own", "none"}
  BY DEF Init
<1>4. 0 \in 0 .. Timeout + CloseGrace
  BY SessionAssumption
<1>5. ClientTypes
  BY <1>1, <1>3 DEF Init, ClientTypes, Stages
<1>6. LinkTypes /\ ServerTypes
  BY <1>2, <1>3 DEF Init, LinkTypes, ServerTypes, Caps
<1> QED
  BY <1>4, <1>5, <1>6, SessionAssumption DEF Init, Timed, Timing, Unanswered, TypeOK

\* A stage ends within its deadline, and the next one starts.
LEMMA StageEnds ==
    ASSUME Timed, clock' = clock, since' = clock,
           pc \notin {"goodbye", "done"}
    PROVE  Timing' /\ since' \in Nat /\ clock' \in 0 .. Timeout + CloseGrace
  BY BudgetFits, SessionAssumption DEF Timed, Timing, TypeOK

LEMMA TickTimes ==
    ASSUME Timed, Tick
    PROVE  Timing' /\ Unanswered' /\ since' \in Nat /\ clock' \in 0 .. Timeout + CloseGrace
<1>1. /\ pc = "explain" => clock < since + ExplainDeadline
      /\ pc \notin {"goodbye", "done"} => clock < Timeout
      /\ pc = "goodbye" => clock < since + CloseGrace
      /\ pc # "done"
  BY BudgetFits, SessionAssumption DEF Tick, PlanDue, QueryDue, CloseDue, Timed, TypeOK
<1> QED
  BY <1>1, BudgetFits, SessionAssumption DEF Tick, Timed, Timing, Unanswered, TypeOK

\* An answer is given only by a step that ends the phase.
LEMMA PhaseSteps ==
    ASSUME Timed, Client, ~Ask
    PROVE  /\ clock' = clock
           /\ \/ pc' = pc /\ since' = since /\ answer' = answer
              \/ since' = clock /\ pc \notin {"goodbye", "done"} /\ Unanswered'
              \/ pc = "goodbye" /\ pc' = "done" /\ since' = clock
<1> USE DEF Timed, Unanswered, Goto, Close, Drop
<1>1. ASSUME NEW v, AfterSet(v), pc \in {"begin", "arm", "restore"}
      PROVE  since' = clock
  BY <1>1 DEF AfterSet, GotoSet
<1>2. CASE SetDone
  BY <1>1, <1>2 DEF SetDone
<1>3. CASE NoName
  BY <1>1, <1>3 DEF NoName
<1>4. CASE OtherName
  BY <1>4 DEF OtherName
<1>5. CASE BeginFails \/ Breaks \/ RunFails
  BY <1>5 DEF BeginFails, Breaks, RunFails
<1>6. CASE Planned \/ CutShort \/ PlanDeadline
  BY <1>6 DEF Planned, CutShort, PlanDeadline, PlanDue, GotoSet
<1>7. CASE Judge
  BY <1>7 DEF Judge
<1>8. CASE Prepared \/ Ran \/ Enough \/ Described
  BY <1>8 DEF Prepared, Ran, Enough, Described
<1>9. CASE QueryDeadline \/ Goodbye \/ CloseDeadline
  BY <1>9 DEF QueryDeadline, QueryDue, Goodbye, CloseDeadline, CloseDue
<1> QED
  BY <1>2, <1>3, <1>4, <1>5, <1>6, <1>7, <1>8, <1>9 DEF Client

LEMMA TimedStep ==
    ASSUME Timed, [Next]_vars
    PROVE  Timed'
<1>1. ClientTypes' /\ LinkTypes' /\ ServerTypes'
  BY ClientTypesStep, LinkTypesStep, ServerTypesStep DEF Timed
<1>2. Timing' /\ Unanswered' /\ since' \in Nat /\ clock' \in 0 .. Timeout + CloseGrace
  <2>1. CASE UNCHANGED <<client, pc>>
    BY <2>1 DEF client, Timed, Timing, Unanswered, TypeOK
  <2>2. CASE Tick
    BY <2>2, TickTimes
  <2>3. CASE Client /\ ~Ask
    <3>1. CASE since' = clock /\ pc \notin {"goodbye", "done"} /\ Unanswered' /\ clock' = clock
      BY <3>1, StageEnds
    <3>2. CASE pc' = pc /\ since' = since /\ answer' = answer /\ clock' = clock
      BY <3>2 DEF Timed, Timing, Unanswered, TypeOK
    <3>3. CASE pc = "goodbye" /\ pc' = "done" /\ since' = clock /\ clock' = clock
      BY <3>3 DEF Timed, Timing, Unanswered, TypeOK
    <3> QED
      BY <2>3, <3>1, <3>2, <3>3, PhaseSteps
  <2> QED
    BY <2>1, <2>2, <2>3, Frames
<1> QED
  BY <1>1, <1>2 DEF Timed, TypeOK

\* Type correctness: no clock, message or cap leaves its range.
THEOREM TypeCorrect == Spec => []TypeOK
<1>1. Init => Timed
  BY TimedInit
<1>2. Timed /\ [Next]_vars => Timed'
  BY TimedStep
<1>3. Timed => TypeOK
  BY DEF Timed
<1> QED
  BY <1>1, <1>2, <1>3, PTL DEF Spec

\* The deadline of a plan fires before the query's whenever the transaction was
\* opened within the reserve, for every timeout that leaves room for the grace and
\* the reserve (explain_budget_ms, explain_deadline_ms and the three constants).
THEOREM PlanIsInTime == Spec => PlanEndsInTime
<1>1. Init => Timed
  BY TimedInit
<1>2. Timed /\ [Next]_vars => Timed'
  BY TimedStep
<1>3. ASSUME Timed, [Next]_vars, pc = "explain", answer' = "timeout"
      PROVE  since >= ExplainReserve
  <2>1. answer = "none"
    BY <1>3 DEF Timed, Unanswered
  <2>2. QueryDeadline
    BY <1>3, <2>1, Frames DEF Client, client, Tick, SetDone, OtherName, NoName, BeginFails,
       Planned, CutShort, PlanDeadline, Breaks, Judge, Prepared, Ran, Enough, RunFails, Described,
       Goodbye, CloseDeadline, CloseDue, Drop
  <2>3. clock >= Timeout /\ clock <= since + ExplainDeadline
    BY <1>3, <2>2 DEF QueryDeadline, QueryDue, Timed, Timing
  <2> QED
    BY <1>3, <2>3, BudgetFits, SessionAssumption DEF Timed, TypeOK
<1>4. Timed /\ [Next]_vars => [pc = "explain" /\ answer' = "timeout" => since >= ExplainReserve]_vars
  BY <1>3
<1> QED
  BY <1>1, <1>2, <1>4, PTL DEF Spec, PlanEndsInTime

-----------------------------------------------------------------------------
(* Messages.                                                                *)

\* The statements a message of the plumbing is made of.
Plumbing == {"begin", "savepoint", "set", "rollback_to"}

LEMMA SetTimeoutStatements ==
    ASSUME TypeOK, NEW c \in Caps
    PROVE  /\ \A i \in 1 .. Len(SetTimeout(c)) : SetTimeout(c)[i].do \in Plumbing
           /\ lead => SetTimeout(c) # << >> /\ Head(SetTimeout(c)) = Do("begin")
<1> DEFINE first == IF lead THEN <<Do("begin")>> ELSE << >>
           second == IF candidates = << >> THEN << >> ELSE <<SetCap(c, Head(candidates))>>
<1>1. SetTimeout(c) = first \o second
  BY DEF SetTimeout
<1>2. first \in Seq(Statement) /\ second \in Seq(Statement)
  <2>1. Do("begin") \in Statement
    BY StatementTypes
  <2>2. candidates # << >> => SetCap(c, Head(candidates)) \in Statement
    BY StatementTypes DEF TypeOK, ClientTypes
  <2> QED
    BY <2>1, <2>2
<1>3. /\ \A i \in 1 .. Len(first) : first[i].do \in Plumbing
      /\ \A i \in 1 .. Len(second) : second[i].do \in Plumbing
  BY DEF Do, SetCap, Plumbing
<1>4. lead => first = <<Do("begin")>>
  OBVIOUS
<1> HIDE DEF first, second
<1> QED
  BY <1>1, <1>2, <1>3, <1>4, ConcatProperties

LEMMA PlumbingMessages ==
    ASSUME TypeOK, NEW stage \in {"begin", "arm", "restore"}
    PROVE  \A i \in 1 .. Len(Message[stage]) : Message[stage][i].do \in Plumbing
<1>1. \A c \in Caps : \A i \in 1 .. Len(SetTimeout(c)) : SetTimeout(c)[i].do \in Plumbing
  BY SetTimeoutStatements
<1>2. \A i \in 1 .. Len(Begin) : Begin[i].do \in Plumbing
  BY <1>1 DEF Begin, Caps, Do, SetCap, Plumbing
<1>3. \A i \in 1 .. Len(Restore) : Restore[i].do \in Plumbing
  BY <1>1 DEF Restore, Caps, Do, SetCap, Plumbing
<1> QED
  BY <1>1, <1>2, <1>3 DEF Message, Caps

LEMMA OtherMessages ==
    /\ Message["explain"] = <<Do("explain")>>
    /\ Message["prepare"] = <<Do("prepare")>>
    /\ Message["describe"] = <<Do("prepare")>>
    /\ Message["run"] = <<Do("query")>>
    /\ Message["goodbye"] = <<Do("rollback")>>
  BY DEF Message

\* The first message opens the transaction before anything else.
LEMMA BeginMessage ==
    ASSUME TypeOK, lead
    PROVE  Message["begin"] # << >> /\ Head(Message["begin"]) = Do("begin")
<1>1. CASE IsPostgres
  BY <1>1 DEF Message, Begin
<1>2. CASE ~IsPostgres
  <2>1. Message["begin"] = SetTimeout("own")
    BY <1>2 DEF Message, Begin
  <2> QED
    BY <2>1, SetTimeoutStatements DEF Caps
<1> QED
  BY <1>1, <1>2

-----------------------------------------------------------------------------
(* The conversation.                                                        *)

Over == pc \in {"goodbye", "done"}

\* The server has opened the transaction when the client goes on from BEGIN.
Opened ==
    /\ ~Over /\ pc # "begin" => txn # "none"
    /\ pc = "begin" /\ (~lead \/ reply \in {"ok", "unknown_var"}) => txn # "none"
    /\ pc = "begin" /\ wire # << >> /\ txn = "none" => Head(wire) = Do("begin")

\* Question and answer alternate until the goodbye.
Alternate ==
    /\ conn = "open" <=> pc # "done"
    /\ ~Over =>
        /\ ~awaiting => wire = << >> /\ reply = "none"
        /\ reply \notin {"none", "rows"} => wire = << >>
        /\ reply = "rows" => pc = "run"
        /\ pc = "judge" => ~awaiting
        /\ pc = "run" /\ awaiting /\ reply \in {"none", "rows"} => wire = <<Do("query")>>
    /\ pc = "goodbye" /\ ~awaiting =>
        \/ wire = << >> /\ reply = "none"
        \/ wire \in {<< >>, <<Do("query")>>} /\ answer \in {"ran", "db"}

\* The agent's text is a message of its own; the rollback comes last.
Lined ==
    \A i \in 1 .. Len(wire) :
        /\ wire[i].do \in AgentText => i = 1 /\ txn # "none"
        /\ wire[i].do = "query" => pc = "run" \/ Over
        /\ wire[i].do = "rollback" => Over

Conversation == TypeOK /\ Opened /\ Alternate /\ Lined /\ OnlyReadOnly

LEMMA ConversationInit == Init => Conversation
<1> SUFFICES ASSUME Init PROVE Conversation
  OBVIOUS
<1>1. TypeOK
  BY TimedInit DEF Timed
<1>2. Len(wire) = 0
  BY DEF Init
<1> QED
  BY <1>1, <1>2 DEF Init, Conversation, Opened, Alternate, Lined, Over, OnlyReadOnly

\* Asking: the wire is empty, or the client is leaving.
LEMMA AskKeeps ==
    ASSUME Conversation, Ask, TypeOK'
    PROVE  Conversation'
<1> USE DEF Conversation
<1>1. /\ UNCHANGED <<pc, conn, answer, lead, reply, txn, seen>>
      /\ awaiting' = TRUE
      /\ Message[pc] \in Seq(Statement) /\ pc \in Stages /\ Message[pc] # << >>
  BY MessageType DEF Ask, client, server
<1>2. OnlyReadOnly'
  BY <1>1 DEF OnlyReadOnly
<1>3. CASE pc = "goodbye"
  <2>1. wire' = wire \o <<Do("rollback")>>
    BY <1>3, OtherMessages DEF Ask
  <2>2. wire \in Seq(Statement) /\ <<Do("rollback")>> \in Seq(Statement)
    BY StatementTypes DEF TypeOK, LinkTypes
  <2>3. /\ Len(wire') = Len(wire) + 1
        /\ \A i \in 1 .. Len(wire) : wire'[i] = wire[i]
        /\ wire'[Len(wire) + 1] = Do("rollback")
    BY <2>1, <2>2, ConcatProperties
  <2>4. Lined'
    BY <1>1, <1>3, <2>2, <2>3 DEF Lined, Over, Do, AgentText
  <2> QED
    BY <1>1, <1>2, <1>3, <2>4 DEF Opened, Alternate, Over
<1>4. CASE pc # "goodbye"
  <2>1. ~Over /\ wire = << >> /\ reply = "none"
    BY <1>1, <1>4 DEF Alternate, Over, Ask, Stages
  <2>2. wire' = Message[pc]
    BY <1>1, <2>1, ConcatEmptySeq DEF Ask
  <2>3. CASE pc \in {"begin", "arm", "restore"}
    <3>1. \A i \in 1 .. Len(wire') : wire'[i].do \in Plumbing
      BY <2>2, <2>3, PlumbingMessages
    <3>2. Lined'
      BY <3>1 DEF Lined, Plumbing, AgentText
    <3>3. pc = "begin" /\ txn = "none" => Head(wire') = Do("begin")
      BY <2>2, BeginMessage DEF Opened, TypeOK, ClientTypes
    <3> QED
      BY <1>1, <1>2, <2>1, <2>3, <3>2, <3>3 DEF Opened, Alternate, Over
  <2>4. CASE pc \in {"explain", "prepare", "run", "describe"}
    <3>1. \E what \in AgentText : wire' = <<Do(what)>> /\ (what = "query" => pc = "run")
      BY <2>2, <2>4, OtherMessages DEF AgentText
    <3>2. pc = "run" => wire' = <<Do("query")>>
      BY <2>2, OtherMessages
    <3>3. txn # "none"
      BY <2>1, <2>4 DEF Opened
    <3>4. Lined'
      BY <1>1, <3>1, <3>3 DEF Lined, Do, AgentText
    <3> QED
      BY <1>1, <1>2, <2>1, <2>4, <3>2, <3>3, <3>4 DEF Opened, Alternate, Over
  <2> QED
    BY <1>1, <1>4, <2>3, <2>4 DEF Stages
<1> QED
  BY <1>3, <1>4

\* What the client does when it has heard enough, or has waited enough.
LEMMA ClientKeeps ==
    ASSUME Conversation, Client, ~Ask, TypeOK'
    PROVE  Conversation'
<1> USE DEF Conversation, Over, Goto, Close, Drop, Hears, HearsError, Errors
<1>1. UNCHANGED server /\ wire' = wire
  BY DEF Client, SetDone, OtherName, NoName, BeginFails, Planned, CutShort, PlanDeadline,
         Breaks, Judge, Prepared, Ran, Enough, RunFails, Described, QueryDeadline, Goodbye,
         CloseDeadline, Read
<1>2. txn' = txn /\ OnlyReadOnly' /\ (Over' \/ wire' = << >> => Lined')
  <2>1. Len(<< >>) = 0
    OBVIOUS
  <2> QED
    BY <1>1, <2>1 DEF server, OnlyReadOnly, Lined
<1>3. ASSUME pc \notin {"goodbye", "done", "begin"} \/ txn # "none",
             ~Over, pc' \notin {"goodbye", "done", "begin"},
             wire' = << >>, reply' = "none", ~awaiting', conn' = conn
      PROVE  Conversation'
  BY <1>2, <1>3 DEF Opened, Alternate
<1>4. ASSUME NEW v, AfterSet(v), pc \in {"begin", "arm", "restore"}
      PROVE  pc' \notin {"goodbye", "done", "begin"}
  BY <1>4 DEF AfterSet, GotoSet, FirstStage
<1>5. CASE SetDone
  BY <1>3, <1>4, <1>5 DEF SetDone, Opened, Alternate, Read
<1>6. CASE NoName
  <2>1. pc = "begin" => ~lead
    BY <1>6, BeginMessage DEF NoName
  <2> QED
    BY <1>3, <1>4, <1>6, <2>1 DEF NoName, Opened, Alternate
<1>7. CASE OtherName
  <2>1. wire' = << >> /\ reply' = "none" /\ awaiting' = FALSE /\ UNCHANGED <<pc, conn, answer>>
    BY <1>7 DEF OtherName, Alternate, Read
  <2>2. pc = "begin" => txn # "none"
    BY <1>7 DEF OtherName, Opened
  <2> QED
    BY <1>2, <1>7, <2>1, <2>2 DEF OtherName, Opened, Alternate
<1>8. CASE Planned
  BY <1>3, <1>8 DEF Planned, GotoSet, Alternate, Read
<1>9. CASE Prepared
  BY <1>3, <1>9 DEF Prepared, Alternate, Read
<1>10. CASE Judge /\ pc' \in {"prepare", "run"}
  BY <1>3, <1>10 DEF Judge, Alternate
<1>11. CASE Ran /\ pc' = "describe"
  BY <1>3, <1>11 DEF Ran, Alternate, Read
<1>12. CASE pc' = "done" /\ conn' # "open"
  BY <1>2, <1>12 DEF Opened, Alternate
<1>13. ASSUME pc' = "goodbye", conn' = conn, ~Over, ~awaiting', reply' = "none", wire' = << >>
       PROVE  Conversation'
  BY <1>2, <1>13 DEF Opened, Alternate
<1>14. CASE Enough
  BY <1>2, <1>14 DEF Enough, Opened, Alternate, Read
<1>15. CASE BeginFails \/ RunFails \/ Described \/ (Ran /\ pc' # "describe")
  BY <1>12, <1>13, <1>15 DEF BeginFails, RunFails, Described, Ran, Alternate, Read
<1>16. CASE Judge /\ pc' \notin {"prepare", "run"}
  BY <1>13, <1>16 DEF Judge, Alternate
<1>17. CASE CutShort \/ PlanDeadline \/ Breaks \/ QueryDeadline \/ Goodbye \/ CloseDeadline
  BY <1>12, <1>17 DEF CutShort, PlanDeadline, Breaks, QueryDeadline, Goodbye, CloseDeadline
<1> QED
  BY <1>5, <1>6, <1>7, <1>8, <1>9, <1>10, <1>11, <1>14, <1>15, <1>16, <1>17 DEF Client

\* The server takes the first statement; what follows it is neither agent text nor,
\* before the goodbye, a rollback.
LEMMA HeadFacts ==
    ASSUME Conversation, wire # << >>
    PROVE  /\ Head(wire) \in Statement
           /\ Tail(wire) \in Seq(Statement)
           /\ \A i \in 1 .. Len(Tail(wire)) : Tail(wire)[i].do \notin AgentText
           /\ Head(wire).do \in AgentText => txn # "none"
           /\ ~Over => /\ Head(wire).do # "rollback"
                       /\ \A i \in 1 .. Len(Tail(wire)) : Tail(wire)[i].do # "rollback"
<1>1. wire \in Seq(Statement) /\ 1 \in 1 .. Len(wire) /\ Head(wire) = wire[1]
  BY DEF Conversation, TypeOK, LinkTypes
<1>2. /\ Head(wire) \in Statement /\ Tail(wire) \in Seq(Statement)
      /\ Len(Tail(wire)) = Len(wire) - 1
      /\ \A i \in 1 .. Len(Tail(wire)) : Tail(wire)[i] = wire[i + 1]
  BY <1>1, HeadTailProperties
<1>3. \A i \in 1 .. Len(Tail(wire)) : i + 1 \in 1 .. Len(wire) /\ i + 1 # 1
  BY <1>1, <1>2
<1> QED
  BY <1>1, <1>2, <1>3 DEF Conversation, Lined

\* Agent text is executed in the read-only transaction.
LEMMA NoteKeeps ==
    ASSUME Conversation, wire # << >>, Accepts(Head(wire)), Note(Head(wire))
    PROVE  OnlyReadOnly'
<1>1. Head(wire).do \in AgentText => txn = "ro"
  BY HeadFacts DEF Accepts, AgentText, Conversation, TypeOK, ServerTypes
<1> QED
  BY <1>1 DEF Note, OnlyReadOnly, Conversation

\* The transaction goes away only with the goodbye.
LEMMA EffectKeeps ==
    ASSUME Conversation, wire # << >>, Effect(Head(wire))
    PROVE  /\ ~Over /\ txn # "none" => txn' # "none"
           /\ ~Over /\ Head(wire).do = "begin" => txn' # "none"
  BY HeadFacts DEF Effect

LEMMA DoneKeeps ==
    ASSUME Conversation, Done, TypeOK'
    PROVE  Conversation'
<1> USE DEF Conversation, Over
<1>1. /\ wire # << >> /\ wire' = Tail(wire)
      /\ Accepts(Head(wire)) /\ Note(Head(wire)) /\ Effect(Head(wire))
      /\ UNCHANGED <<pc, conn, answer, lead, awaiting>>
  BY DEF Done, Effect, client
<1>2. OnlyReadOnly'
  BY <1>1, NoteKeeps
<1>3. Lined'
  BY <1>1, HeadFacts DEF Lined
<1>4. Len(wire) \in Nat /\ Len(wire) >= 1 /\ (Len(wire) = 1 => wire' = << >>)
  BY <1>1 DEF TypeOK, LinkTypes
<1>5. CASE Over
  <2>1. wire = <<Do("query")>> => Len(wire) = 1
    OBVIOUS
  <2> QED
    BY <1>1, <1>2, <1>3, <1>4, <1>5, <2>1 DEF Opened, Alternate, Done
<1>6. CASE ~Over
  <2>1. awaiting /\ reply \in {"none", "rows"}
    BY <1>1, <1>6 DEF Alternate
  <2>2. txn # "none" => txn' # "none"
    BY <1>1, <1>6, EffectKeeps
  <2>3. pc = "begin" => txn' # "none"
    BY <1>1, <1>6, <2>2, EffectKeeps DEF Opened, Do
  <2>4. Opened'
    BY <1>1, <1>6, <2>2, <2>3 DEF Opened
  <2>5. wire' = << >> \/ reply' = reply
    BY <1>4 DEF Done
  <2>6. pc = "run" => wire' = << >> /\ reply' \in {"ok", "last_row"}
    <3>1. pc = "run" => Len(wire) = 1
      BY <2>1, <1>6 DEF Alternate
    <3> QED
      BY <1>4, <2>1, <3>1 DEF Done
  <2>7. reply' = "rows" => pc = "run"
    BY <1>6, <2>1 DEF Done, Alternate
  <2>8. Alternate'
    BY <1>1, <1>6, <2>1, <2>5, <2>6, <2>7 DEF Alternate
  <2> QED
    BY <1>2, <1>3, <2>4, <2>8
<1> QED
  BY <1>5, <1>6

LEMMA StreamsKeeps ==
    ASSUME Conversation, Streams, TypeOK'
    PROVE  Conversation'
<1> USE DEF Conversation, Over
<1>1. OnlyReadOnly'
  BY NoteKeeps DEF Streams
<1>2. Lined' /\ Opened'
  BY DEF Streams, client, Lined, Opened
<1>3. pc = "run" \/ Over
  BY DEF Streams, Lined, TypeOK, LinkTypes
<1> QED
  BY <1>1, <1>2, <1>3 DEF Streams, client, Alternate

LEMMA FailsKeeps ==
    ASSUME Conversation, Fails \/ Breaking, TypeOK'
    PROVE  Conversation'
<1> USE DEF Conversation, Over
<1>1. /\ wire # << >> /\ wire' = << >> /\ reply' \notin {"none", "rows"}
      /\ UNCHANGED <<pc, conn, answer, lead, awaiting>>
  BY DEF Fails, Breaking, client, Errors
<1>2. Lined' /\ Len(wire') = 0
  <2>1. Len(<< >>) = 0
    OBVIOUS
  <2> QED
    BY <1>1, <2>1 DEF Lined
<1>3. OnlyReadOnly' /\ (~Over /\ txn # "none" => txn' # "none")
  <2>1. CASE Breaking
    BY <2>1, NoteKeeps, EffectKeeps DEF Breaking, Effect
  <2>2. CASE Fails
    <3>1. OnlyReadOnly'
      BY <2>2, NoteKeeps DEF Fails, OnlyReadOnly
    <3> QED
      BY <2>2, <3>1 DEF Fails
  <2> QED
    BY <2>1, <2>2
<1>4. ~Over => awaiting
  BY <1>1 DEF Alternate
<1>5. Alternate'
  BY <1>1, <1>4 DEF Alternate
<1>6. reply' = "unknown_var" /\ pc = "begin" => txn # "none"
  <2>1. ~Understands(Do("begin")) => FALSE
    BY DEF Understands, Do, Names
  <2>2. reply' = "unknown_var" => ~Understands(Head(wire))
    BY DEF Fails, Breaking, Errors
  <2> QED
    BY <1>1, <2>1, <2>2 DEF Opened
<1>7. reply' # "ok"
  BY DEF Fails, Breaking, Errors
<1> QED
  BY <1>1, <1>2, <1>3, <1>5, <1>6, <1>7 DEF Opened

LEMMA ConversationStep ==
    ASSUME Conversation, [Next]_vars, TypeOK'
    PROVE  Conversation'
<1>1. CASE Tick \/ UNCHANGED vars
  BY <1>1 DEF Tick, vars, server, Conversation, Opened, Alternate, Lined, Over, OnlyReadOnly
<1>2. CASE Client
  BY <1>2, AskKeeps, ClientKeeps
<1>3. CASE Server \/ Orphan
  BY <1>3, DoneKeeps, StreamsKeeps, FailsKeeps DEF Server, Orphan
<1> QED
  BY <1>1, <1>2, <1>3 DEF Next, Finished

LEMMA ConversationHolds == Spec => []Conversation
<1>1. Init => Timed /\ Conversation
  BY TimedInit, ConversationInit
<1>2. Timed /\ Conversation /\ [Next]_vars => (Timed /\ Conversation)'
  BY TimedStep, ConversationStep DEF Timed
<1> QED
  BY <1>1, <1>2, PTL DEF Spec

\* Layer 2: no text of the agent is executed outside a read-only transaction, on
\* either engine, whatever names the server knows, and whatever fails, is late or is
\* lost (begin_read_only, set_statement_timeout and the guarded plans).
THEOREM AgentTextIsReadOnly == Spec => []OnlyReadOnly
<1>1. Conversation => OnlyReadOnly
  BY DEF Conversation
<1> QED
  BY <1>1, ConversationHolds, PTL

\* The client never speaks to a connection that may still be busy, but for the
\* goodbye (Plan::discard, pg_finish and mysql_finish).
THEOREM NothingIsQueued == Spec => []NothingQueued
<1>1. Conversation => NothingQueued
  BY DEF Conversation, TypeOK, ClientTypes, Alternate, Over, NothingQueued
<1> QED
  BY <1>1, ConversationHolds, PTL

-----------------------------------------------------------------------------
(***************************************************************************)
(* GuardedSession implements StatementPromise, for every timeout, cap and      *)
(* grace, both engines and any set of names the server knows.                  *)
(***************************************************************************)

\* The server has the statement, or has had it.
Executed == \E e \in seen : e.do = "query"

\* Verdicts that let the statement run.
Lets == {"off", "accepted", "unknown", "failed"}

\* The plan is judged between the stages that need the verdict and those that
\* follow it.
Judged ==
    /\ Plans <=> plan # "off"
    /\ pc \in {"begin", "arm", "explain"} => plan \in {"none", "off"}
    /\ pc \in {"arm", "explain"} => plan = "none"
    /\ pc \in {"restore", "judge"} => plan \in {"accepted", "over", "unknown", "failed"}
    /\ pc \in {"prepare", "run", "describe"} => plan \in Lets /\ job.mode # "explain"

\* A statement on its way was let run, and its answer is not out before it ran.
Permitted ==
    \A i \in 1 .. Len(wire) : wire[i].do = "query" =>
        /\ plan \in Lets /\ job.mode # "explain"
        /\ answer \in {"none", "timeout"} \/ (answer \in {"ran", "db"} /\ Executed)

\* What the client has heard of the statement is so.
Heard ==
    /\ pc = "run" /\ reply \in {"ok", "rows", "last_row"} => Executed
    /\ pc = "describe" => Executed
    /\ Over <=> answer # "none"

Session == TypeOK /\ Conversation /\ Unanswered

Kept == Judged /\ Permitted /\ Heard

LEMMA SessionAlways == Spec => []Session
<1>1. Init => Timed /\ Conversation
    BY TimedInit, ConversationInit
<1>2. Timed /\ Conversation /\ [Next]_vars => (Timed /\ Conversation)'
    BY TimedStep, ConversationStep DEF Timed
<1>3. Timed /\ Conversation => Session
    BY DEF Timed, Session
<1> QED
    BY <1>1, <1>2, <1>3, PTL DEF Spec

LEMMA KeptInit == Init => Kept
<1> SUFFICES ASSUME Init PROVE Kept
    OBVIOUS
<1>1. Len(wire) = 0
    BY DEF Init
<1> QED
    BY <1>1 DEF Init, Kept, Judged, Permitted, Heard, Over, Plans, Jobs, PgJobs, MyJobs

-----------------------------------------------------------------------------
(* Asking.                                                                     *)

LEMMA AskPermits ==
    ASSUME Session, Kept, Ask
    PROVE  Kept'
<1>1. /\ UNCHANGED <<pc, job, plan, answer, seen, reply>>
      /\ wire' = wire \o Message[pc] /\ pc \in Stages
      /\ wire \in Seq(Statement) /\ Message[pc] \in Seq(Statement)
    BY MessageType DEF Ask, client, server, Session, TypeOK, LinkTypes
<1>2. ASSUME NEW i \in 1 .. Len(Message[pc]), Message[pc][i].do = "query"
      PROVE  pc = "run"
  <2>1. CASE pc \in {"begin", "arm", "restore"}
    BY <1>2, <2>1, PlumbingMessages DEF Plumbing, Session
  <2>2. CASE pc \in {"explain", "prepare", "describe", "goodbye"}
    <3>1. \E what \in {"explain", "prepare", "rollback"} : Message[pc] = <<Do(what)>>
        BY <2>2, OtherMessages
    <3> QED
        BY <1>2, <3>1 DEF Do
  <2> QED
    BY <1>1, <2>1, <2>2 DEF Stages
<1>3. ASSUME NEW i \in 1 .. Len(wire'), wire'[i].do = "query"
      PROVE  /\ plan \in Lets /\ job.mode # "explain"
             /\ answer \in {"none", "timeout"} \/ (answer \in {"ran", "db"} /\ Executed)
  <2>1. CASE i \in 1 .. Len(wire)
    <3>1. wire'[i] = wire[i]
        BY <1>1, <2>1, ConcatProperties
    <3> QED
        BY <1>3, <2>1, <3>1 DEF Kept, Permitted
  <2>2. CASE i \notin 1 .. Len(wire)
    <3>1. i - Len(wire) \in 1 .. Len(Message[pc]) /\ wire'[i] = Message[pc][i - Len(wire)]
        BY <1>1, <1>3, <2>2, ConcatProperties, LenProperties
    <3>2. pc = "run"
        BY <1>2, <1>3, <3>1
    <3> QED
        BY <3>2 DEF Kept, Judged, Session, Unanswered
  <2> QED
    BY <2>1, <2>2
<1> QED
    BY <1>1, <1>3 DEF Kept, Judged, Permitted, Heard, Executed, Over, Plans

-----------------------------------------------------------------------------
(* The client's steps.                                                         *)

\* What the caller was promised changes by a promised step, or not at all.
Promised == [Promise!Next]_(Promise!promiseVars)

\* Nothing the caller was promised changes.
Silent == UNCHANGED <<job, plan, answer, seen>>

LEMMA SilentIsPromised == Silent => Promised
    BY DEF Silent, Promised, Promise!promiseVars

\* The wire is as it was, or read to the end.
LEMMA WireKept ==
    ASSUME Session, Kept, wire' = wire, UNCHANGED <<job, seen>>,
           \A i \in 1 .. Len(wire) : wire[i].do = "query" =>
               /\ plan' = plan
               /\ answer' \in {"none", "timeout"} \/ (answer' \in {"ran", "db"} /\ Executed)
    PROVE  Permitted'
    BY DEF Kept, Permitted, Executed

LEMMA EmptyWire == Len(<< >>) = 0
    OBVIOUS

\* Before the goodbye, a message that was answered is gone from the wire.
LEMMA AnsweredIsGone ==
    ASSUME Session, ~Over, ~awaiting \/ reply \notin {"none", "rows"}
    PROVE  wire = << >>
    BY DEF Session, Conversation, Alternate, Over

LEMMA SettingKeeps ==
    ASSUME Session, Kept, SetDone \/ OtherName \/ NoName
    PROVE  Kept' /\ Promised
<1>1. /\ UNCHANGED <<job, plan, answer, seen>> /\ wire' = wire
      /\ pc \in {"begin", "arm", "restore"}
    BY DEF SetDone, OtherName, NoName, Read, server
<1>2. Promised
    BY <1>1, SilentIsPromised DEF Silent
<1>3. ~Over /\ answer = "none"
    BY <1>1 DEF Over, Session, Unanswered
<1>4. Permitted'
    BY <1>1, <1>3, WireKept
<1>5. \/ pc' = pc
      \/ pc = "begin" /\ Plans /\ pc' \in {"explain", "arm"}
      \/ pc = "begin" /\ ~Plans /\ pc' \in {"prepare", "run"}
      \/ pc = "arm" /\ pc' = "explain"
      \/ pc = "restore" /\ pc' = "judge"
    BY <1>1 DEF SetDone, OtherName, NoName, AfterSet, GotoSet, Goto, FirstStage
<1>6. reply' \in {"none", reply}
    BY DEF SetDone, OtherName, NoName, Read
<1>7. ~Plans => job.mode # "explain"
    BY DEF Plans
<1>8. Judged'
    BY <1>1, <1>5, <1>7 DEF Kept, Judged, Plans, Lets
<1>9. pc' = "run" => reply' = "none"
  <2>1. CASE SetDone \/ OtherName
    BY <2>1 DEF SetDone, OtherName, Read
  <2>2. CASE NoName
    BY <1>3, <2>2 DEF NoName, Session, Conversation, Alternate
  <2> QED
    BY <2>1, <2>2
<1>10. Heard'
    BY <1>1, <1>3, <1>5, <1>9 DEF Heard, Over
<1> QED
    BY <1>2, <1>4, <1>8, <1>10 DEF Kept

\* A step that ends with an answer, or on an empty wire.
LEMMA EndingKeeps ==
    ASSUME Session, Kept, ~Over, pc' \in {"goodbye", "done"}, UNCHANGED <<job, seen>>, wire' = wire,
           plan' \in {plan, "slow"}, plan' # "off" <=> plan # "off",
           answer' # "none",
           wire = << >> \/ (plan' = plan /\ (answer' = "timeout" \/ (answer' \in {"ran", "db"} /\ Executed)))
    PROVE  Kept'
<1>1. Permitted'
    BY EmptyWire DEF Kept, Permitted, Executed
<1>2. Judged'
    BY DEF Kept, Judged, Plans
<1>3. Heard'
    BY DEF Heard, Over
<1> QED
    BY <1>1, <1>2, <1>3 DEF Kept

LEMMA FailingKeeps ==
    ASSUME Session, Kept, BeginFails \/ Breaks \/ RunFails
    PROVE  Kept' /\ Promised
<1> USE DEF BeginFails, Breaks, RunFails, HearsError, Errors, Drop, Close, Goto, Read, server
<1>1. /\ UNCHANGED <<job, plan, seen>> /\ wire' = wire /\ pc' \in {"goodbye", "done"} /\ ~Over
      /\ answer' \in {"db", "timeout"} /\ reply \in {"db", "timeout"}
    BY DEF Over
<1>2. wire = << >> /\ answer = "none"
    BY <1>1, AnsweredIsGone DEF Session, Unanswered, Over
<1>3. Promised
    BY <1>1, <1>2 DEF Promised, Promise!Next, Promise!Answer, Promise!promiseVars
<1> QED
    BY <1>1, <1>2, <1>3, EndingKeeps

LEMMA PlanningKeeps ==
    ASSUME Session, Kept, Planned \/ CutShort \/ PlanDeadline
    PROVE  Kept' /\ Promised
<1>1. UNCHANGED <<job, seen>> /\ wire' = wire /\ pc = "explain" /\ plan = "none" /\ answer = "none" /\ ~Over
    BY DEF Planned, CutShort, PlanDeadline, PlanDue, Read, server, Kept, Judged, Session, Unanswered, Over
<1>2. \A i \in 1 .. Len(wire) : wire[i].do # "query"
    BY <1>1 DEF Kept, Permitted, Lets
<1>3. CASE Planned
  <2>1. /\ plan' \in {"accepted", "over", "unknown", "failed"} /\ answer' = answer
        /\ pc' = "restore" /\ reply' = "none"
    BY <1>3 DEF Planned, GotoSet, Goto, Read
  <2>2. Promised
    BY <1>1, <2>1 DEF Promised, Promise!Next, Promise!Judge, Promise!promiseVars
  <2>3. Permitted'
    BY <1>1, <1>2 DEF Permitted
  <2>4. Judged' /\ Heard'
    BY <1>1, <2>1 DEF Kept, Judged, Heard, Over, Plans
  <2> QED
    BY <2>2, <2>3, <2>4 DEF Kept
<1>4. CASE CutShort \/ PlanDeadline
  <2>1. plan' = "slow" /\ answer' = "too_slow" /\ pc' = "done"
    BY <1>4 DEF CutShort, PlanDeadline, Drop, Goto
  <2>2. Promised
    BY <1>1, <2>1 DEF Promised, Promise!Next, Promise!GiveUp, Promise!promiseVars
  <2>3. Permitted'
    BY <1>1, <1>2 DEF Permitted
  <2>4. Judged' /\ Heard'
    BY <1>1, <2>1 DEF Kept, Judged, Heard, Over, Plans
  <2> QED
    BY <2>2, <2>3, <2>4 DEF Kept
<1> QED
    BY <1>3, <1>4

LEMMA JudgingKeeps ==
    ASSUME Session, Kept, Judge
    PROVE  Kept' /\ Promised
<1>1. /\ UNCHANGED <<job, plan, seen, reply>> /\ wire' = wire /\ pc = "judge" /\ answer = "none" /\ ~Over
      /\ plan \in {"accepted", "over", "unknown", "failed"}
    BY DEF Judge, server, Kept, Judged, Session, Unanswered, Over
<1>2. wire = << >> /\ reply = "none"
    BY <1>1 DEF Session, Conversation, Alternate, Over
<1>3. CASE pc' = "goodbye"
  <2>1. \/ answer' = "db"
        \/ answer' = "plan" /\ plan # "failed" /\ job.mode = "explain"
        \/ answer' = "refused" /\ plan = "over" /\ job.mode # "explain"
    BY <1>1, <1>3 DEF Judge, Close, Goto
  <2>2. Promised
    BY <1>1, <2>1 DEF Promised, Promise!Next, Promise!Answer, Promise!promiseVars
  <2> QED
    BY <1>1, <1>2, <1>3, <2>1, <2>2, EndingKeeps
<1>4. CASE pc' # "goodbye"
  <2>1. /\ pc' \in {"prepare", "run"} /\ answer' = answer
        /\ job.mode # "explain" /\ plan # "over"
    BY <1>4 DEF Judge, Close, Goto
  <2>2. Promised
    BY <1>1, <2>1, SilentIsPromised DEF Silent
  <2>3. Permitted'
    BY <1>1, <1>2, EmptyWire DEF Permitted
  <2>4. Judged' /\ Heard'
    BY <1>1, <1>2, <2>1 DEF Kept, Judged, Heard, Over, Plans, Lets
  <2> QED
    BY <2>2, <2>3, <2>4 DEF Kept
<1> QED
    BY <1>3, <1>4

LEMMA RunningKeeps ==
    ASSUME Session, Kept, Prepared \/ Ran \/ Enough \/ Described
    PROVE  Kept' /\ Promised
<1> USE DEF Prepared, Ran, Enough, Described, Hears, Close, Goto, Read, server
<1>1. /\ UNCHANGED <<job, plan, seen>> /\ wire' = wire /\ pc \in {"prepare", "run", "describe"}
      /\ reply' = "none" /\ plan \in Lets /\ job.mode # "explain" /\ answer = "none" /\ ~Over
    BY DEF Kept, Judged, Session, Unanswered, Over
<1>2. CASE pc' \in {"run", "describe"}
  <2>1. answer' = answer /\ (pc' = "describe" => Executed)
    BY <1>2 DEF Kept, Heard
  <2>2. Promised
    BY <1>1, <2>1, SilentIsPromised DEF Silent
  <2>3. Permitted'
    BY <1>1, <2>1, WireKept DEF Kept, Permitted
  <2>4. Judged' /\ Heard'
    BY <1>1, <1>2, <2>1 DEF Kept, Judged, Heard, Over, Plans, Executed
  <2> QED
    BY <2>2, <2>3, <2>4 DEF Kept
<1>3. CASE pc' \notin {"run", "describe"}
  <2>1. pc' = "goodbye" /\ answer' \in {"ran", "db"} /\ Executed
    BY <1>1, <1>3 DEF Kept, Heard
  <2>2. Promised
    BY <1>1, <2>1 DEF Promised, Promise!Next, Promise!Answer, Promise!promiseVars, Executed
  <2> QED
    BY <1>1, <2>1, <2>2, EndingKeeps
<1> QED
    BY <1>2, <1>3

LEMMA LeavingKeeps ==
    ASSUME Session, Kept, QueryDeadline \/ Goodbye \/ CloseDeadline
    PROVE  Kept' /\ Promised
<1>1. CASE QueryDeadline
  <2>1. /\ UNCHANGED <<job, plan, seen>> /\ wire' = wire /\ pc' = "done" /\ ~Over
        /\ answer = "none" /\ answer' = "timeout"
    BY <1>1 DEF QueryDeadline, QueryDue, Drop, Goto, server, Over, Session, Unanswered
  <2>2. Promised
    BY <2>1 DEF Promised, Promise!Next, Promise!Answer, Promise!promiseVars
  <2> QED
    BY <2>1, <2>2, EndingKeeps
<1>2. CASE Goodbye \/ CloseDeadline
  <2>1. UNCHANGED <<job, plan, answer, seen>> /\ wire' = wire /\ pc = "goodbye" /\ pc' = "done"
    BY <1>2 DEF Goodbye, CloseDeadline, CloseDue, Goto, Read, server
  <2>2. Permitted'
    BY <2>1, WireKept DEF Kept, Permitted
  <2>3. Judged' /\ Heard'
    BY <2>1 DEF Kept, Judged, Heard, Over, Plans
  <2> QED
    BY <2>1, <2>2, <2>3, SilentIsPromised DEF Kept, Silent
<1> QED
    BY <1>1, <1>2

-----------------------------------------------------------------------------
(* The server's steps.                                                         *)

\* What the server executes of the statement was let run, and nobody has been
\* told otherwise.
LEMMA NoteIsPromised ==
    ASSUME Session, Kept, wire # << >>, Note(Head(wire)), UNCHANGED <<job, plan, answer>>
    PROVE  /\ Promised
           /\ Executed => Executed'
           /\ Head(wire).do = "query" => Executed'
<1>1. Head(wire) = wire[1] /\ 1 \in 1 .. Len(wire)
    BY DEF Session, TypeOK, LinkTypes
<1>2. CASE Head(wire).do = "query"
  <2>1. /\ plan \in Lets /\ job.mode # "explain"
        /\ answer \in {"none", "timeout"} \/ Executed
    BY <1>1, <1>2 DEF Kept, Permitted
  <2>2. Executed'
    <3> DEFINE entry == [do |-> Head(wire).do, txn |-> txn, cap |-> cap]
    <3>1. entry \in seen' /\ entry.do = "query"
        BY <1>2 DEF Note, AgentText
    <3> QED
        BY <3>1 DEF Executed
  <2>3. Promised
    BY <2>1, <2>2 DEF Promised, Promise!Next, Promise!Run, Promise!promiseVars, Lets, Executed
  <2> QED
    BY <2>2, <2>3
<1>3. CASE Head(wire).do # "query"
  <2>1. Executed' <=> Executed
    BY <1>3 DEF Note, Executed
  <2>2. Promised
    BY <2>1 DEF Promised, Promise!promiseVars, Executed
  <2> QED
    BY <1>3, <2>1, <2>2
<1> QED
    BY <1>2, <1>3

LEMMA ServerKeeps ==
    ASSUME Session, Kept, Done \/ Streams \/ Fails \/ Breaking
    PROVE  Kept' /\ Promised
<1>1. UNCHANGED <<job, plan, answer, pc>> /\ wire # << >>
    BY DEF Done, Streams, Fails, Breaking, client
<1>2. Note(Head(wire)) \/ UNCHANGED seen
    BY DEF Done, Streams, Fails, Breaking, Effect
<1>3. Promised /\ (Executed => Executed') /\ (Note(Head(wire)) /\ Head(wire).do = "query" => Executed')
  <2>1. CASE Note(Head(wire))
    BY <1>1, <2>1, NoteIsPromised
  <2>2. CASE ~Note(Head(wire))
    <3>1. UNCHANGED seen
        BY <1>2, <2>2
    <3> QED
        BY <1>1, <2>2, <3>1, SilentIsPromised DEF Silent, Executed
  <2> QED
    BY <2>1, <2>2
<1>4. Judged'
    BY <1>1 DEF Kept, Judged, Plans
<1>5. Permitted'
  <2>1. wire \in Seq(Statement)
    BY DEF Session, TypeOK, LinkTypes
  <2>2. ASSUME NEW i \in 1 .. Len(wire'), wire'[i].do = "query"
        PROVE  \E k \in 1 .. Len(wire) : wire[k].do = "query"
    <3>1. wire' = Tail(wire) \/ wire' = << >> \/ wire' = wire
        BY DEF Done, Streams, Fails, Breaking
    <3>2. CASE wire' = Tail(wire)
        <4>1. i + 1 \in 1 .. Len(wire) /\ wire'[i] = wire[i + 1]
            BY <1>1, <2>1, <3>2, HeadTailProperties
        <4> QED
            BY <2>2, <4>1
    <3> QED
        BY <2>2, <3>1, <3>2, EmptyWire
  <2> QED
    BY <1>1, <1>3, <2>2 DEF Kept, Permitted
<1>6. Heard'
  <2>1. ASSUME pc = "run", reply' \in {"ok", "rows", "last_row"}, reply' # reply PROVE Executed'
    <3>1. Done \/ Streams
        BY <2>1 DEF Fails, Breaking, Errors
    <3>2. Note(Head(wire)) /\ awaiting /\ reply \in {"none", "rows"}
        BY <2>1, <3>1 DEF Done, Streams, Effect, Session, Conversation, Alternate, Over
    <3>3. wire = <<Do("query")>>
        BY <2>1, <3>2 DEF Session, Conversation, Alternate, Over
    <3> QED
        BY <1>3, <3>2, <3>3 DEF Do
  <2> QED
    BY <1>1, <1>3, <2>1 DEF Kept, Heard, Over
<1> QED
    BY <1>3, <1>4, <1>5, <1>6 DEF Kept

LEMMA KeptStep ==
    ASSUME Session, Kept, [Next]_vars
    PROVE  Kept' /\ Promised
<1>1. CASE Tick \/ UNCHANGED vars
  <2>1. UNCHANGED <<job, pc, plan, answer, seen, wire, reply>>
    BY <1>1 DEF Tick, server, vars
  <2> QED
    BY <2>1, SilentIsPromised DEF Silent, Kept, Judged, Permitted, Heard, Over, Plans, Executed
<1>2. CASE Ask
  <2>1. Silent
    BY <1>2 DEF Ask, client, server, Silent
  <2> QED
    BY <1>2, <2>1, AskPermits, SilentIsPromised
<1> QED
    BY <1>1, <1>2, SettingKeeps, FailingKeeps, PlanningKeeps, JudgingKeeps, RunningKeeps, LeavingKeeps,
       ServerKeeps
    DEF Next, Client, Server, Orphan, Finished

\* Verdict, statement and answer come in the order the caller was promised, for
\* every server, and the answer is never taken back (the comments on Plan and
\* QueryOutcome).
THEOREM SessionKeepsPromise == Spec => KeepsPromise
<1>1. Init => Promise!Init
    BY DEF Init, Promise!Init
<1>2. Session /\ Kept /\ [Next]_vars => Kept' /\ [Promise!Next]_(Promise!promiseVars)
    BY KeptStep DEF Promised
<1> QED
    BY <1>1, <1>2, KeptInit, SessionAlways, PTL DEF Spec, KeepsPromise, Promise!Spec

=============================================================================
