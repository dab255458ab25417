----------------------------- MODULE WriteProofs -----------------------------
(***************************************************************************)
(* Theorems about WriteProbe for every deadline, bound and grace that        *)
(* satisfies ProbeAssumption, and for every role and database.               *)
(***************************************************************************)
EXTENDS WriteProbe, TLAPS

\* Each engine has statements of its own, and they come in order.
Staged ==
    /\ IF IsMysql THEN pc \notin {"views", "begin", "rollback"}
                  ELSE pc \notin Arming \cup {"drop"}
    /\ running = "create" => pc \in {"create", "done"} \/ (~IsMysql /\ pc = "rollback")
    /\ running = "drop" => IsMysql /\ pc \in {"drop", "done"}
    /\ running = "begin" => ~IsMysql
    /\ running = "rollback" => pc \in {"rollback", "done"}

\* A statement and its reply belong together: the probe's own statements never
\* stand behind a reply that is owed, and while the connection is up the server is at
\* the statement the client is waiting for.
Paired ==
    /\ asked = "sent" => ~stale
    /\ asked = "behind" => stale
    /\ stale => pc \in {"pii", "views", "metadata", "done"}
    /\ pc = "done" => asked = "no"
    /\ reply \in {"ok", "refused", "other"} => running = "none"
    /\ reply = "io" => link = "broken"
    /\ asked = "no" /\ reply # "none" => stale
    /\ asked = "no" /\ ~stale /\ pc # "done" /\ link # "broken" => running = "none"
    /\ asked = "sent" /\ reply = "none" /\ link = "up" => running = pc

\* What the answers to CREATE and the facts made of them say.
Informed ==
    /\ created => job.writable /\ ~job.taken
    /\ pc = "drop" \/ running = "drop" => created
    /\ pc = "create" /\ asked = "sent" /\ reply = "ok" => created
    /\ pc = "create" /\ asked = "sent" /\ reply = "refused" => ~job.writable
    /\ made = "ok" => created
    /\ made = "refused" => ~job.writable

\* PostgreSQL's table exists in a transaction only.
Undone ==
    ~IsMysql =>
        /\ ~ours
        /\ running = "create" => open
        /\ link = "up" /\ pc = "create" => open
        /\ link = "up" /\ pc = "begin" /\ asked = "sent" /\ reply = "ok" => open

\* MySQL's table exists, or may yet come to exist, in the midst of the probe or
\* with its name in the report.
Accounted ==
    IsMysql =>
        /\ ~open
        /\ ours \/ running = "create" =>
              pc \in {"create", "drop"} \/ (pc = "done" /\ report.named)
        /\ pc = "create" /\ asked = "no" => ~ours /\ running # "create"
        /\ pc = "create" /\ (running = "create" \/ reply \in {"refused", "other"}) => ~ours
        /\ pc = "drop" /\ asked = "sent" /\ reply = "ok" => ~ours

\* On a connection that is up the two statements take a cap each.
Capped ==
    InProbe =>
        /\ Bounded
        /\ pc = "create" /\ link = "up" =>
              /\ waited <= Cap
              /\ asked = "no" => waited = 0
              /\ asked = "sent" /\ reply = "none" => waited <= ran
        /\ pc = "drop" /\ link = "up" =>
              /\ asked = "no" => waited <= Cap
              /\ asked = "sent" /\ reply = "none" => waited <= Cap + ran

-----------------------------------------------------------------------------
(* The steps.                                                               *)

\* No statement of the other engine, and none out of its turn.
LEMMA StagedStep ==
    ASSUME TypeOK, Staged, Paired, [Next]_vars
    PROVE  Staged'
<1>1. CASE Ask
  BY <1>1 DEF Staged, IsMysql, Ask, Send
<1>2. CASE Drained
  BY <1>2 DEF Staged, IsMysql, Drained, Send
<1>3. CASE Pii
  BY <1>3 DEF Staged, IsMysql, Arming, Pii, Hears, GotoTimed, AfterPii
<1>4. CASE PiiViews
  BY <1>4 DEF Staged, IsMysql, Arming, PiiViews, Hears, GotoTimed
<1>5. CASE Metadata
  BY <1>5 DEF Staged, IsMysql, Arming, Metadata, Hears, Goto, GotoTimed
<1>6. CASE Arm
  BY <1>6 DEF Staged, IsMysql, Arm, Hears, Goto, GotoTimed, Finish
<1>7. CASE Begin
  BY <1>7 DEF Staged, IsMysql, Arming, Begin, Hears, Goto, Finish
<1>8. CASE PgCreate
  BY <1>8 DEF Staged, IsMysql, Arming, PgCreate, Hears, Goto
<1>9. CASE PgRollback
  BY <1>9 DEF Staged, IsMysql, Arming, PgRollback, Hears, Finish
<1>10. CASE MyCreate
  BY <1>10 DEF Staged, Paired, IsMysql, MyCreate, Hears, Goto, Finish
<1>11. CASE MyDrop
  BY <1>11 DEF Staged, IsMysql, MyDrop, Hears, Finish
<1>12. CASE QueryExpires
  BY <1>12 DEF Staged, IsMysql, Arming, QueryExpires, GiveUp, GotoTimed, AfterPii
<1>13. CASE GroupExpires
  BY <1>13 DEF Staged, IsMysql, Arming, GroupExpires, GiveUp, Finish
<1>14. CASE BackstopExpires
  BY <1>14 DEF Staged, IsMysql, Arming, BackstopExpires, GiveUp, Finish
<1>15. CASE Serve
  BY <1>15 DEF Staged, IsMysql, Serve
<1>16. CASE SessionEnds
  BY <1>16 DEF Staged, IsMysql, SessionEnds
<1>17. CASE LinkFails
  BY <1>17 DEF Staged, IsMysql, LinkFails
<1>18. CASE Tick
  BY <1>18 DEF Staged, IsMysql, Tick
<1>19. CASE UNCHANGED vars
  BY <1>19 DEF vars, Staged, IsMysql
<1> QED
  BY <1>1, <1>2, <1>3, <1>4, <1>5, <1>6, <1>7, <1>8, <1>9, <1>10, <1>11, <1>12, <1>13,
     <1>14, <1>15, <1>16, <1>17, <1>18, <1>19 DEF Next, Client

\* Every fact of the code is one of Facts.
LEMMA FactTypes ==
    \A what \in {"none", "wrote", "blocked", "unknown"} :
       /\ Fact(what) \in Facts /\ NamedFact(what) \in Facts
       /\ Fact(what).fact = what /\ NamedFact(what).fact = what
       /\ [NamedFact(what) EXCEPT !.expired = TRUE] \in Facts
       /\ [NamedFact(what) EXCEPT !.expired = TRUE].fact = what
  BY DEF Fact, NamedFact, Facts

\* The deadlines are times.
LEMMA Times == Deadline \in Nat /\ Backstop \in Nat
  BY ProbeAssumption DEF Backstop

\* Every assignment is of a legal value, and doctor ends with a fact.
LEMMA ValuesStep ==
    ASSUME TypeOK, Staged, Paired, [Next]_vars
    PROVE  Values'
<1>1. CASE Ask
  BY <1>1 DEF TypeOK, Values, Answers, Errors, Ask, Send
<1>2. CASE Drained
  BY <1>2 DEF TypeOK, Paired, Values, Answers, Errors, Drained, Send
<1>3. CASE Pii
  BY <1>3 DEF TypeOK, Values, Statements, Pii, Hears, GotoTimed, AfterPii
<1>4. CASE PiiViews
  BY <1>4 DEF TypeOK, Values, Statements, PiiViews, Hears, GotoTimed
<1>5. CASE Metadata
  BY <1>5 DEF TypeOK, Values, Statements, Arming, Metadata, Hears, Goto, GotoTimed
<1>6. CASE Arm
  BY FactTypes, <1>6 DEF TypeOK, Values, Statements, Arming, Arm, Hears, Goto, GotoTimed,
     Finish
<1>7. CASE Begin
  BY FactTypes, <1>7 DEF TypeOK, Values, Statements, Begin, Hears, Goto, Finish
<1>8. CASE PgCreate
  BY <1>8 DEF TypeOK, Values, Statements, PgCreate, Hears, Goto
<1>9. CASE PgRollback
  BY FactTypes, <1>9 DEF TypeOK, Values, PgRollback, Hears, Finish
<1>10. CASE MyCreate
  BY FactTypes, <1>10 DEF TypeOK, Values, Statements, MyCreate, Hears, Goto, Finish
<1>11. CASE MyDrop
  BY FactTypes, <1>11 DEF TypeOK, Values, MyDrop, Hears, Finish
<1>12. CASE QueryExpires
  BY <1>12 DEF TypeOK, Values, Statements, QueryExpires, GiveUp, GotoTimed, AfterPii
<1>13. CASE GroupExpires
  BY FactTypes, <1>13 DEF TypeOK, Values, GroupExpires, GiveUp, Finish
<1>14. CASE BackstopExpires
  BY FactTypes, <1>14 DEF TypeOK, Values, BackstopExpires, GiveUp, Finish
<1>15. CASE Serve
  BY <1>15 DEF TypeOK, Values, Answers, Errors, Serve
<1>16. CASE SessionEnds
  BY <1>16 DEF TypeOK, Values, SessionEnds
<1>17. CASE LinkFails
  BY <1>17 DEF TypeOK, Values, Answers, Errors, LinkFails
<1>18. CASE Tick
  BY <1>18 DEF TypeOK, Values, Tick
<1>19. CASE UNCHANGED vars
  BY <1>19 DEF vars, TypeOK, Values
<1> QED
  BY <1>1, <1>2, <1>3, <1>4, <1>5, <1>6, <1>7, <1>8, <1>9, <1>10, <1>11, <1>12, <1>13,
     <1>14, <1>15, <1>16, <1>17, <1>18, <1>19 DEF Next, Client

\* Flags stay flags.
LEMMA FlagsStep ==
    ASSUME TypeOK, [Next]_vars
    PROVE  Flags'
<1>1. CASE Ask
  BY <1>1 DEF TypeOK, Flags, database, Ask
<1>2. CASE Drained
  BY <1>2 DEF TypeOK, Flags, database, Drained
<1>3. CASE Pii
  BY <1>3 DEF TypeOK, Flags, database, Pii, Hears, GotoTimed
<1>4. CASE PiiViews
  BY <1>4 DEF TypeOK, Flags, database, PiiViews, Hears
<1>5. CASE Metadata
  BY <1>5 DEF TypeOK, Flags, database, Metadata, Hears, Goto
<1>6. CASE Arm
  BY <1>6 DEF TypeOK, Flags, database, Arm, Arming, Hears, Goto, GotoTimed
<1>7. CASE Begin
  BY <1>7 DEF TypeOK, Flags, database, Begin, Hears, Goto
<1>8. CASE PgCreate
  BY <1>8 DEF TypeOK, Flags, database, PgCreate, Hears
<1>9. CASE PgRollback
  BY <1>9 DEF TypeOK, Flags, database, PgRollback, Hears
<1>10. CASE MyCreate
  BY <1>10 DEF TypeOK, Flags, database, MyCreate, Hears
<1>11. CASE MyDrop
  BY <1>11 DEF TypeOK, Flags, database, MyDrop, Hears
<1>12. CASE QueryExpires
  BY <1>12 DEF TypeOK, Flags, database, QueryExpires, GiveUp
<1>13. CASE GroupExpires
  BY <1>13 DEF TypeOK, Flags, database, GroupExpires, GiveUp
<1>14. CASE BackstopExpires
  BY <1>14 DEF TypeOK, Flags, database, BackstopExpires, GiveUp
<1>15. CASE Serve
  BY <1>15 DEF TypeOK, Flags, database, Serve, Effect
<1>16. CASE SessionEnds
  BY <1>16 DEF TypeOK, Flags, SessionEnds
<1>17. CASE LinkFails
  BY <1>17 DEF TypeOK, Flags, database, LinkFails
<1>18. CASE Tick
  BY <1>18 DEF TypeOK, Flags, database, Tick
<1>19. CASE UNCHANGED vars
  BY <1>19 DEF vars, TypeOK, Flags, database
<1> QED
  BY <1>1, <1>2, <1>3, <1>4, <1>5, <1>6, <1>7, <1>8, <1>9, <1>10, <1>11, <1>12, <1>13,
     <1>14, <1>15, <1>16, <1>17, <1>18, <1>19 DEF Next, Client

\* The deadlines hold because a reply that is late is not waited for.
LEMMA TimesStep ==
    ASSUME TypeOK, Staged, [Next]_vars
    PROVE  (waited \in Nat /\ ran \in 0 .. Cap /\ (pc # "done" => waited <= Allowed))'
<1>1. CASE Ask
  BY ProbeAssumption, <1>1 DEF TypeOK, IsMysql, InProbe, Allowed, Ask, Send
<1>2. CASE Drained
  BY ProbeAssumption, <1>2 DEF TypeOK, IsMysql, InProbe, Allowed, Drained, Send
<1>3. CASE Pii
  BY Times, <1>3 DEF TypeOK, Allowed, Pii, Hears, GotoTimed
<1>4. CASE PiiViews
  BY Times, <1>4 DEF TypeOK, Allowed, PiiViews, Hears, GotoTimed
<1>5. CASE Metadata
  BY ProbeAssumption, <1>5 DEF TypeOK, InProbe, Allowed, Metadata, Hears, Goto, GotoTimed
<1>6. CASE Arm
  BY Times, <1>6 DEF TypeOK, InProbe, Allowed, Arm, Hears, Goto, GotoTimed, Finish
<1>7. CASE Begin
  BY <1>7 DEF TypeOK, Staged, IsMysql, InProbe, Allowed, Begin, Hears, Goto, Finish
<1>8. CASE PgCreate
  BY <1>8 DEF TypeOK, InProbe, Allowed, PgCreate, Hears, Goto
<1>9. CASE PgRollback
  BY <1>9 DEF TypeOK, PgRollback, Hears, Finish
<1>10. CASE MyCreate
  BY <1>10 DEF TypeOK, IsMysql, InProbe, Allowed, MyCreate, Hears, Goto, Finish
<1>11. CASE MyDrop
  BY <1>11 DEF TypeOK, MyDrop, Hears, Finish
<1>12. CASE QueryExpires
  BY Times, <1>12 DEF TypeOK, Allowed, QueryExpires, GiveUp, GotoTimed
<1>13. CASE GroupExpires
  BY <1>13 DEF TypeOK, GroupExpires, GiveUp, Finish
<1>14. CASE BackstopExpires
  BY <1>14 DEF TypeOK, BackstopExpires, GiveUp, Finish
<1>15. CASE Serve
  BY ProbeAssumption, <1>15 DEF TypeOK, IsMysql, InProbe, Allowed, Serve
<1>16. CASE SessionEnds
  BY <1>16 DEF TypeOK, IsMysql, InProbe, Allowed, SessionEnds
<1>17. CASE LinkFails
  BY <1>17 DEF TypeOK, IsMysql, InProbe, Allowed, LinkFails
<1>18. CASE Tick
  BY ProbeAssumption, Times, <1>18 DEF TypeOK, IsMysql, InProbe, Allowed, Tick, Due
<1>19. CASE UNCHANGED vars
  BY <1>19 DEF vars, TypeOK, IsMysql, InProbe, Allowed
<1> QED
  BY <1>1, <1>2, <1>3, <1>4, <1>5, <1>6, <1>7, <1>8, <1>9, <1>10, <1>11, <1>12, <1>13,
     <1>14, <1>15, <1>16, <1>17, <1>18, <1>19 DEF Next, Client

LEMMA TypeStep == ASSUME TypeOK, Staged, Paired, [Next]_vars PROVE TypeOK'
  BY ValuesStep, FlagsStep, TimesStep DEF TypeOK

\* A statement is sent only when nothing is owed, and given up only for good.
LEMMA PairedStep ==
    ASSUME TypeOK, Staged, Paired, [Next]_vars
    PROVE  Paired'
<1>1. CASE Ask
  BY <1>1 DEF Paired, Ask, Send
<1>2. CASE Drained
  BY <1>2 DEF Paired, Drained, Send
<1>3. CASE Pii
  BY <1>3 DEF Paired, Answers, Errors, Pii, Hears
<1>4. CASE PiiViews
  BY <1>4 DEF Paired, Answers, Errors, PiiViews, Hears
<1>5. CASE Metadata
  BY <1>5 DEF Paired, Answers, Errors, Metadata, Hears
<1>6. CASE Arm
  BY <1>6 DEF Paired, Answers, Errors, Arm, Hears
<1>7. CASE Begin
  BY <1>7 DEF Paired, Errors, Begin, Hears
<1>8. CASE PgCreate
  BY <1>8 DEF Paired, Answers, Errors, PgCreate, Hears
<1>9. CASE PgRollback
  BY <1>9 DEF Paired, Answers, Errors, PgRollback, Hears
<1>10. CASE MyCreate
  BY <1>10 DEF Paired, MyCreate, Hears
<1>11. CASE MyDrop
  BY <1>11 DEF Paired, Errors, MyDrop, Hears
<1>12. CASE QueryExpires
  BY <1>12 DEF Paired, QueryExpires, GiveUp, GotoTimed, AfterPii
<1>13. CASE GroupExpires
  BY <1>13 DEF Paired, GroupExpires, GiveUp, Finish
<1>14. CASE BackstopExpires
  BY <1>14 DEF Paired, BackstopExpires, GiveUp, Finish
<1>15. CASE Serve
  BY <1>15 DEF Paired, Serve
<1>16. CASE SessionEnds
  BY <1>16 DEF Paired, SessionEnds
<1>17. CASE LinkFails
  BY <1>17 DEF Paired, LinkFails
<1>18. CASE Tick
  BY <1>18 DEF Paired, Tick
<1>19. CASE UNCHANGED vars
  BY <1>19 DEF vars, Paired
<1> QED
  BY <1>1, <1>2, <1>3, <1>4, <1>5, <1>6, <1>7, <1>8, <1>9, <1>10, <1>11, <1>12, <1>13,
     <1>14, <1>15, <1>16, <1>17, <1>18, <1>19 DEF Next, Client

\* The answer to CREATE is the server's own.
LEMMA InformedStep ==
    ASSUME TypeOK, Staged, Paired, Informed, theirs = job.taken, [Next]_vars
    PROVE  Informed' /\ (theirs = job.taken)'
<1>1. CASE Ask
  BY <1>1 DEF Informed, database, Ask, Send
<1>2. CASE Drained
  BY <1>2 DEF Informed, database, Drained, Send
<1>3. CASE Pii
  BY <1>3 DEF Informed, database, Pii, Hears, GotoTimed, AfterPii
<1>4. CASE PiiViews
  BY <1>4 DEF Informed, database, PiiViews, Hears, GotoTimed
<1>5. CASE Metadata
  BY <1>5 DEF Informed, database, Metadata, Hears, Goto, GotoTimed
<1>6. CASE Arm
  BY <1>6 DEF Informed, database, Arm, Hears, Goto, GotoTimed, Finish
<1>7. CASE Begin
  BY <1>7 DEF Informed, database, Begin, Hears, Goto, Finish
<1>8. CASE PgCreate
  BY <1>8 DEF Informed, Paired, database, PgCreate, Hears, Goto
<1>9. CASE PgRollback
  BY <1>9 DEF Informed, database, PgRollback, Hears, Finish
<1>10. CASE MyCreate
  BY <1>10 DEF Informed, database, MyCreate, Hears, Finish
<1>11. CASE MyDrop
  BY ProbeAssumption, <1>11 DEF Informed, Staged, Paired, TypeOK, IsMysql, Answers,
     Errors, Jobs, database, InProbe, Values, Flags, MyDrop, Hears
<1>12. CASE QueryExpires
  BY <1>12 DEF Informed, database, QueryExpires, GiveUp, GotoTimed, AfterPii
<1>13. CASE GroupExpires
  BY <1>13 DEF Informed, database, GroupExpires, GiveUp, Finish
<1>14. CASE BackstopExpires
  BY <1>14 DEF Informed, database, BackstopExpires, GiveUp, Finish
<1>15. CASE Serve
  BY <1>15 DEF Informed, Paired, TypeOK, Answers, Errors, Jobs, database, Values, Flags,
     Serve, Effect, MaySay
<1>16. CASE SessionEnds
  BY <1>16 DEF Informed, SessionEnds
<1>17. CASE LinkFails
  BY <1>17 DEF Informed, database, LinkFails
<1>18. CASE Tick
  BY <1>18 DEF Informed, database, Tick
<1>19. CASE UNCHANGED vars
  BY <1>19 DEF vars, Informed, database
<1> QED
  BY <1>1, <1>2, <1>3, <1>4, <1>5, <1>6, <1>7, <1>8, <1>9, <1>10, <1>11, <1>12, <1>13,
     <1>14, <1>15, <1>16, <1>17, <1>18, <1>19 DEF Next, Client

\* PostgreSQL's transaction is open from the answer to BEGIN to the end.
LEMMA UndoneStep ==
    ASSUME TypeOK, Staged, Paired, Undone, [Next]_vars
    PROVE  Undone'
<1>1. CASE Ask
  BY <1>1 DEF Undone, IsMysql, database, Ask, Send
<1>2. CASE Drained
  BY <1>2 DEF Undone, IsMysql, database, Drained, Send
<1>3. CASE Pii
  BY <1>3 DEF Undone, IsMysql, database, Pii, Hears, GotoTimed, AfterPii
<1>4. CASE PiiViews
  BY <1>4 DEF Undone, Staged, database, PiiViews, Hears, GotoTimed
<1>5. CASE Metadata
  BY <1>5 DEF Undone, IsMysql, database, Metadata, Hears, Goto
<1>6. CASE Arm
  BY <1>6 DEF Undone, Staged, IsMysql, Arm, Hears
<1>7. CASE Begin
  BY <1>7 DEF Undone, Staged, database, Begin, Hears, Finish
<1>8. CASE PgCreate
  BY <1>8 DEF Undone, database, PgCreate, Hears
<1>9. CASE PgRollback
  BY <1>9 DEF Undone, Staged, database, PgRollback, Hears, Finish
<1>10. CASE MyCreate
  BY <1>10 DEF Undone, IsMysql, MyCreate, Hears
<1>11. CASE MyDrop
  BY <1>11 DEF Undone, Staged, IsMysql, MyDrop, Hears
<1>12. CASE QueryExpires
  BY <1>12 DEF Undone, IsMysql, database, QueryExpires, GiveUp, GotoTimed, AfterPii
<1>13. CASE GroupExpires
  BY <1>13 DEF Undone, IsMysql, database, GroupExpires, GiveUp, Finish
<1>14. CASE BackstopExpires
  BY <1>14 DEF Undone, IsMysql, InProbe, BackstopExpires, GiveUp
<1>15. CASE Serve
  BY ProbeAssumption, <1>15 DEF Undone, Staged, Paired, TypeOK, IsMysql, InProbe,
     Answers, Errors, database, Values, Flags, Serve, Effect
<1>16. CASE SessionEnds
  BY <1>16 DEF Undone, IsMysql, SessionEnds
<1>17. CASE LinkFails
  BY <1>17 DEF Undone, IsMysql, database, LinkFails
<1>18. CASE Tick
  BY <1>18 DEF Undone, IsMysql, database, Tick
<1>19. CASE UNCHANGED vars
  BY <1>19 DEF vars, Undone, IsMysql, database
<1> QED
  BY <1>1, <1>2, <1>3, <1>4, <1>5, <1>6, <1>7, <1>8, <1>9, <1>10, <1>11, <1>12, <1>13,
     <1>14, <1>15, <1>16, <1>17, <1>18, <1>19 DEF Next, Client

\* Every way out of MySQL's probe names the table or knows it gone.
LEMMA AccountedStep ==
    ASSUME TypeOK, Staged, Paired, Accounted, [Next]_vars
    PROVE  Accounted'
<1>1. CASE Ask
  BY <1>1 DEF Accounted, IsMysql, database, Ask, Send
<1>2. CASE Drained
  BY <1>2 DEF Accounted, Paired, IsMysql, database, Drained, Send
<1>3. CASE Pii
  BY <1>3 DEF Accounted, IsMysql, database, Pii, Hears
<1>4. CASE PiiViews
  BY <1>4 DEF Accounted, Staged, IsMysql, PiiViews, Hears
<1>5. CASE Metadata
  BY <1>5 DEF Accounted, IsMysql, database, Metadata, Hears
<1>6. CASE Arm
  BY <1>6 DEF Accounted, Staged, database, Arm, Hears
<1>7. CASE Begin
  BY <1>7 DEF Accounted, Staged, IsMysql, Begin, Hears
<1>8. CASE PgCreate
  BY <1>8 DEF Accounted, IsMysql, PgCreate, Hears
<1>9. CASE PgRollback
  BY <1>9 DEF Accounted, Staged, IsMysql, PgRollback, Hears
<1>10. CASE MyCreate
  BY <1>10 DEF Accounted, Paired, database, MyCreate, Hears, Goto, Finish, Fact, NamedFact
<1>11. CASE MyDrop
  BY <1>11 DEF Accounted, Staged, database, MyDrop, Hears, Finish, Fact, NamedFact
<1>12. CASE QueryExpires
  BY <1>12 DEF Accounted, IsMysql, database, QueryExpires, GiveUp
<1>13. CASE GroupExpires
  BY <1>13 DEF Accounted, IsMysql, InProbe, database, GroupExpires, GiveUp
<1>14. CASE BackstopExpires
  BY <1>14 DEF Accounted, IsMysql, database, BackstopExpires, GiveUp, Finish, NamedFact
<1>15. CASE Serve
  <2> SUFFICES ASSUME IsMysql PROVE Accounted'
    BY <1>15 DEF Serve, Accounted, IsMysql
  <2>1. /\ UNCHANGED <<job, pc, asked, link, report>>
        /\ running # "none" /\ running' = "none"
    BY <1>15 DEF Serve
  <2>2. reply \notin {"ok", "refused", "other"}
    BY <2>1 DEF Paired
  <2>3. PICK what \in {"ok", "refused", "other"} :
          /\ reply' = IF link = "up" /\ pc # "done" THEN what ELSE reply
          /\ IF what = "ok" THEN Effect ELSE UNCHANGED database
    BY <1>15 DEF Serve
  <2>4. ~open'
    BY <2>3 DEF Effect, database, Accounted, Staged
  <2>5. ours' => ours \/ (running = "create" /\ what = "ok")
    BY <2>3 DEF Effect, database
  <2>6. what = "ok" /\ ours' => running # "drop"
    BY <2>3, <2>1 DEF Effect
  <2>7. IsMysql'
    BY <2>1 DEF IsMysql
  <2>8. running = "create" => pc \in {"create", "done"}
    BY DEF Staged
  <2>9. reply \in {"none", "io"}
    BY <2>2 DEF TypeOK, Values, Answers, Errors
  <2>10. pc = "create" /\ asked # "no" /\ link = "up" => ~ours
    BY <2>2, <2>9 DEF Accounted, Paired, TypeOK, Values
  <2>11. ours' => pc' \in {"create", "drop"} \/ (pc' = "done" /\ report'.named)
    BY <2>1, <2>5 DEF Accounted
  <2>12. pc' = "create" /\ (asked' = "no" \/ reply' \in {"refused", "other"}) => ~ours'
    BY <2>1, <2>2, <2>3, <2>5, <2>9, <2>10 DEF Accounted
  <2>13. pc' = "drop" /\ asked' = "sent" /\ reply' = "ok" => ~ours'
    BY <2>1, <2>2, <2>3, <2>5, <2>6, <2>9 DEF Paired
  <2> QED
    BY <2>1, <2>4, <2>11, <2>12, <2>13 DEF Accounted
<1>16. CASE SessionEnds
  BY <1>16 DEF Accounted, IsMysql, SessionEnds
<1>17. CASE LinkFails
  BY <1>17 DEF Accounted, IsMysql, database, LinkFails
<1>18. CASE Tick
  BY <1>18 DEF Accounted, IsMysql, database, Tick
<1>19. CASE UNCHANGED vars
  BY <1>19 DEF vars, Accounted, IsMysql, database
<1> QED
  BY <1>1, <1>2, <1>3, <1>4, <1>5, <1>6, <1>7, <1>8, <1>9, <1>10, <1>11, <1>12, <1>13,
     <1>14, <1>15, <1>16, <1>17, <1>18, <1>19 DEF Next, Client

\* The server's bound paces the client's clock.
LEMMA CappedStep ==
    ASSUME TypeOK, Staged, Paired, Capped, [Next]_vars
    PROVE  Capped'
<1>1. CASE Ask
  BY ProbeAssumption, <1>1 DEF Capped, IsMysql, InProbe, Bounded, Ask, Send
<1>2. CASE Drained
  BY <1>2 DEF Capped, Paired, InProbe, Drained
<1>3. CASE Pii
  BY <1>3 DEF Capped, InProbe, Pii, GotoTimed, AfterPii
<1>4. CASE PiiViews
  BY <1>4 DEF Capped, Staged, IsMysql, InProbe, PiiViews, Hears
<1>5. CASE Metadata
  BY <1>5 DEF Capped, IsMysql, InProbe, Metadata, Hears, GotoTimed
<1>6. CASE Arm
  BY ProbeAssumption, <1>6 DEF Capped, InProbe, Arm, Hears, Goto, GotoTimed, Finish
<1>7. CASE Begin
  BY <1>7 DEF Capped, Staged, IsMysql, InProbe, Begin, Hears
<1>8. CASE PgCreate
  BY <1>8 DEF Capped, IsMysql, InProbe, PgCreate, Hears
<1>9. CASE PgRollback
  BY <1>9 DEF Capped, Staged, IsMysql, InProbe, PgRollback, Hears
<1>10. CASE MyCreate
  BY <1>10 DEF Capped, InProbe, Bounded, MyCreate, Hears, Goto, Finish
<1>11. CASE MyDrop
  BY <1>11 DEF Capped, InProbe, MyDrop, Finish
<1>12. CASE QueryExpires
  BY <1>12 DEF Capped, InProbe, QueryExpires, GotoTimed, AfterPii
<1>13. CASE GroupExpires
  BY <1>13 DEF Capped, InProbe, GroupExpires, Finish
<1>14. CASE BackstopExpires
  BY <1>14 DEF Capped, InProbe, BackstopExpires, Finish
<1>15. CASE Serve
  BY <1>15 DEF Capped, IsMysql, InProbe, Bounded, Serve
<1>16. CASE SessionEnds
  BY <1>16 DEF Capped, IsMysql, InProbe, Bounded, SessionEnds
<1>17. CASE LinkFails
  BY <1>17 DEF Capped, IsMysql, InProbe, Bounded, LinkFails
<1>18. CASE Tick
  BY ProbeAssumption, <1>18 DEF Capped, Paired, TypeOK, IsMysql, InProbe, Bounded,
     Values, Tick, CutNow
<1>19. CASE UNCHANGED vars
  BY <1>19 DEF vars, Capped, IsMysql, InProbe, Bounded
<1> QED
  BY <1>1, <1>2, <1>3, <1>4, <1>5, <1>6, <1>7, <1>8, <1>9, <1>10, <1>11, <1>12, <1>13,
     <1>14, <1>15, <1>16, <1>17, <1>18, <1>19 DEF Next, Client

\* A verdict is read off the answer to CREATE.
LEMMA VerdictStep ==
    ASSUME TypeOK, Staged, Paired, Informed, VerdictIsTrue, [Next]_vars
    PROVE  VerdictIsTrue'
<1>1. CASE Ask
  BY <1>1 DEF VerdictIsTrue, database, Ask
<1>2. CASE Drained
  BY <1>2 DEF VerdictIsTrue, database, Drained
<1>3. CASE Pii
  BY <1>3 DEF VerdictIsTrue, TypeOK, Values, Pii, GotoTimed
<1>4. CASE PiiViews
  BY <1>4 DEF VerdictIsTrue, TypeOK, Values, PiiViews, GotoTimed
<1>5. CASE Metadata
  BY <1>5 DEF VerdictIsTrue, TypeOK, Values, Metadata, Goto, GotoTimed
<1>6. CASE Arm
  BY <1>6 DEF VerdictIsTrue, TypeOK, Values, Arm, Goto, GotoTimed, Finish, Fact
<1>7. CASE Begin
  BY <1>7 DEF VerdictIsTrue, TypeOK, Values, Begin, Goto, Finish, Fact
<1>8. CASE PgCreate
  BY <1>8 DEF VerdictIsTrue, TypeOK, Values, PgCreate, Goto
<1>9. CASE PgRollback
  BY <1>9 DEF VerdictIsTrue, Informed, database, PgRollback, Hears, Finish, Fact
<1>10. CASE MyCreate
  BY <1>10 DEF VerdictIsTrue, Informed, Paired, database, MyCreate, Hears, Goto, Finish,
     Fact, NamedFact
<1>11. CASE MyDrop
  <2>1. created /\ UNCHANGED created
    BY <1>11 DEF MyDrop, Hears, Informed, database
  <2>2. report'.fact = "wrote"
    BY <1>11, FactTypes DEF MyDrop, Finish
  <2> QED
    BY <2>1, <2>2 DEF VerdictIsTrue
<1>12. CASE QueryExpires
  BY <1>12 DEF VerdictIsTrue, TypeOK, Values, QueryExpires, GotoTimed
<1>13. CASE GroupExpires
  BY <1>13 DEF VerdictIsTrue, GroupExpires, Finish, Fact
<1>14. CASE BackstopExpires
  BY <1>14 DEF VerdictIsTrue, BackstopExpires, Finish, Fact, NamedFact
<1>15. CASE Serve
  BY <1>15 DEF VerdictIsTrue, TypeOK, database, Flags, Serve, Effect
<1>16. CASE SessionEnds
  BY <1>16 DEF VerdictIsTrue, SessionEnds
<1>17. CASE LinkFails
  BY <1>17 DEF VerdictIsTrue, database, LinkFails
<1>18. CASE Tick
  BY <1>18 DEF VerdictIsTrue, database, Tick
<1>19. CASE UNCHANGED vars
  BY <1>19 DEF vars, VerdictIsTrue, database
<1> QED
  BY <1>1, <1>2, <1>3, <1>4, <1>5, <1>6, <1>7, <1>8, <1>9, <1>10, <1>11, <1>12, <1>13,
     <1>14, <1>15, <1>16, <1>17, <1>18, <1>19 DEF Next, Client

\* On a connection that is up the two caps are over before the backstop.
LEMMA AlarmStep ==
    ASSUME TypeOK, Staged, Paired, Capped, NoFalseAlarm, [Next]_vars
    PROVE  NoFalseAlarm'
<1>1. CASE Ask
  BY <1>1 DEF NoFalseAlarm, Ask
<1>2. CASE Drained
  BY <1>2 DEF NoFalseAlarm, Drained
<1>3. CASE Pii
  BY <1>3 DEF NoFalseAlarm, Pii, Hears, GotoTimed
<1>4. CASE PiiViews
  BY <1>4 DEF NoFalseAlarm, PiiViews, Hears, GotoTimed
<1>5. CASE Metadata
  BY <1>5 DEF NoFalseAlarm, Metadata, Hears, Goto, GotoTimed
<1>6. CASE Arm
  BY <1>6 DEF NoFalseAlarm, Arm, Hears, Goto, GotoTimed, Finish, Fact
<1>7. CASE Begin
  BY <1>7 DEF NoFalseAlarm, Begin, Hears, Goto, Finish, Fact
<1>8. CASE PgCreate
  BY <1>8 DEF NoFalseAlarm, PgCreate, Hears, Goto
<1>9. CASE PgRollback
  BY <1>9 DEF NoFalseAlarm, PgRollback, Finish, Fact
<1>10. CASE MyCreate
  BY <1>10 DEF NoFalseAlarm, Paired, MyCreate, Hears, Goto, Finish, Fact
<1>11. CASE MyDrop
  BY <1>11 DEF NoFalseAlarm, MyDrop, Finish, Fact, NamedFact
<1>12. CASE QueryExpires
  BY <1>12 DEF NoFalseAlarm, QueryExpires, GiveUp, GotoTimed
<1>13. CASE GroupExpires
  BY <1>13 DEF NoFalseAlarm, GroupExpires, Finish, Fact
<1>14. CASE BackstopExpires
  BY ProbeAssumption, <1>14 DEF NoFalseAlarm, Capped, Paired, TypeOK, InProbe, Allowed,
     Backstop, Values, BackstopExpires, GiveUp, Due
<1>15. CASE Serve
  BY <1>15 DEF NoFalseAlarm, Serve
<1>16. CASE SessionEnds
  BY <1>16 DEF NoFalseAlarm, SessionEnds
<1>17. CASE LinkFails
  BY <1>17 DEF NoFalseAlarm, LinkFails
<1>18. CASE Tick
  BY <1>18 DEF NoFalseAlarm, Tick
<1>19. CASE UNCHANGED vars
  BY <1>19 DEF vars, NoFalseAlarm
<1> QED
  BY <1>1, <1>2, <1>3, <1>4, <1>5, <1>6, <1>7, <1>8, <1>9, <1>10, <1>11, <1>12, <1>13,
     <1>14, <1>15, <1>16, <1>17, <1>18, <1>19 DEF Next, Client

-----------------------------------------------------------------------------
(* The theorems.                                                            *)

IInv ==
    /\ TypeOK /\ Staged /\ Paired
    /\ Informed /\ TheirsSurvives /\ Undone /\ Accounted /\ Capped
    /\ VerdictIsTrue /\ NoFalseAlarm

LEMMA Initially == ASSUME Init PROVE IInv
<1>1. TypeOK
  <2>1. Values
    BY FactTypes DEF Init, Values, Statements
  <2>2. Flags
    <3>1. job.taken \in BOOLEAN
      BY DEF Init, Jobs
    <3> QED
      BY <3>1 DEF Init, Flags
  <2>3. waited \in Nat /\ ran \in 0 .. Cap /\ waited <= Allowed
    BY Times, ProbeAssumption DEF Init, Allowed
  <2> QED
    BY <2>1, <2>2, <2>3 DEF TypeOK
<1>2. Staged /\ Paired
  BY DEF Init, Staged, Paired, Arming
<1>3. Informed /\ TheirsSurvives /\ Undone /\ Accounted /\ Capped
  BY DEF Init, Informed, TheirsSurvives, Undone, Accounted, Capped, InProbe
<1>4. VerdictIsTrue /\ NoFalseAlarm
  BY DEF Init, VerdictIsTrue, NoFalseAlarm, Fact
<1> QED
  BY <1>1, <1>2, <1>3, <1>4 DEF IInv

LEMMA Invariance == Spec => []IInv
<1>1. ASSUME IInv, [Next]_vars PROVE IInv'
  BY <1>1, TypeStep, StagedStep, PairedStep, InformedStep, UndoneStep, AccountedStep,
     CappedStep, VerdictStep, AlarmStep DEF IInv, TheirsSurvives
<1> QED
  BY <1>1, Initially, PTL DEF Spec

\* No wait of doctor outlives its deadline, and it ends with a fact.
THEOREM TypeCorrect == Spec => []TypeOK
<1>1. IInv => TypeOK
  BY DEF IInv
<1> QED
  BY <1>1, Invariance, PTL

\* Whatever fails, is late or is lost, a table of the probe that is left behind, or
\* that the server makes later, is named (mysql_probe, pg_probe).
THEOREM OrphansAreNamed == Spec => []NoSilentOrphan
<1>1. IInv => NoSilentOrphan
  BY DEF IInv, NoSilentOrphan, Undone, Accounted
<1> QED
  BY <1>1, Invariance, PTL

\* A table of somebody else with the probe's name is never dropped.
THEOREM OthersSurvive == Spec => []TheirsSurvives
<1>1. IInv => TheirsSurvives
  BY DEF IInv
<1> QED
  BY <1>1, Invariance, PTL

\* What doctor says of the role is what the server said of CREATE.
THEOREM VerdictsAreTrue == Spec => []VerdictIsTrue
<1>1. IInv => VerdictIsTrue
  BY DEF IInv
<1> QED
  BY <1>1, Invariance, PTL

\* The backstop of 2 * Cap + Grace is not reached on a connection that is up.
THEOREM AlarmsAreTrue == Spec => []NoFalseAlarm
<1>1. IInv => NoFalseAlarm
  BY DEF IInv
<1> QED
  BY <1>1, Invariance, PTL
=============================================================================
