---------------------------- MODULE CommandProofs ----------------------------
(***************************************************************************)
(* Theorems about CommandFlow for every config file, environment, directory    *)
(* tree and kind of plan.                                                      *)
(***************************************************************************)
EXTENDS CommandFlow, FiniteSetTheorems, WellFoundedInduction, TLAPS

\* What has one reason among three checks has none of them raised, if it has none.
LEMMA NoneOfThree ==
    ASSUME NEW a, NEW b, NEW c, FirstRefusal(<<a, b, c>>) = {}
    PROVE  a = {} /\ b = {} /\ c = {}
<1> DEFINE checks == <<a, b, c>>
           raised == {i \in DOMAIN checks : checks[i] # {}}
<1>1. DOMAIN checks = 1 .. 3 /\ checks[1] = a /\ checks[2] = b /\ checks[3] = c
    OBVIOUS
<1> SUFFICES ASSUME raised # {} PROVE FALSE
    BY <1>1
<1>2. \E i \in raised : \A j \in raised : i <= j
  <2>1. CASE 1 \in raised
    BY <1>1, <2>1
  <2>2. CASE 1 \notin raised /\ 2 \in raised
    BY <1>1, <2>2
  <2>3. CASE 1 \notin raised /\ 2 \notin raised
    BY <1>1, <2>3
  <2> QED
    BY <2>1, <2>2, <2>3
<1>3. (CHOOSE i \in raised : \A j \in raised : i <= j) \in raised
    BY <1>2
<1> QED
    BY <1>1, <1>3 DEF FirstRefusal

-----------------------------------------------------------------------------
(* The config that governs.                                                    *)

\* Call and file are one of the inputs.
Given == \E input \in Inputs : call = input.call /\ file = input.file

\* What a config is when it loads.
Known ==
    /\ conf = Substituted(file.text, file.env)
    /\ ~RejectsVariable(file.text) /\ ~WrongForm(file.text)

Loaded ==
    /\ pc \in {"read", "load"} => conf = Absent
    /\ conf # Absent => Known
    /\ pc \notin {"read", "load", "done"} => Known

Governed == Given /\ Loaded

\* Every step but the first two leaves the config alone, and leads on.
Onward ==
    /\ call' = call /\ file' = file /\ conf' = conf
    /\ pc \notin {"read", "load"} /\ pc' \notin {"read", "load"}
    /\ pc = "done" => pc' = "done"

LEMMA LaterSteps == [Next]_vars => ReadConfig \/ LoadConfig \/ Onward \/ UNCHANGED vars
<1> SUFFICES ASSUME [Next]_vars PROVE ReadConfig \/ LoadConfig \/ Onward \/ UNCHANGED vars
    OBVIOUS
<1>1. ASSUME ResolveCwd \/ ListConnections \/ LookupAlias \/ CheckScope \/ EnterCommand
      PROVE  Onward
    BY <1>1 DEF ResolveCwd, ListConnections, LookupAlias, CheckScope, EnterCommand, Onward, Goto,
                GivesUp, Leaves
<1>2. ASSUME BuildEngine PROVE Onward
    BY <1>2 DEF BuildEngine, Onward, Goto, Leaves
<1>3. ASSUME ResolveUrl \/ ResolvePassword PROVE Onward
    BY <1>3 DEF ResolveUrl, ResolvePassword, SecretFails, Onward, Goto, Leaves
<1>4. ASSUME Layer1 PROVE Onward
    BY <1>4 DEF Layer1, Onward, Goto, Ends
<1>5. ASSUME OpenTunnel \/ StartRuntime \/ Connect PROVE Onward
    BY <1>5 DEF OpenTunnel, StartRuntime, Connect, CannotReach, Onward, Goto, Ends, Leaves
<1>6. ASSUME AskPlan \/ RunQuery \/ Catalogue \/ Diagnose PROVE Onward
    BY <1>6 DEF AskPlan, RunQuery, Catalogue, Diagnose, Onward, Ends
<1>7. ASSUME Record \/ Emit PROVE Onward
    BY <1>7 DEF Record, Emit, Onward
<1> QED
    BY <1>1, <1>2, <1>3, <1>4, <1>5, <1>6, <1>7 DEF Next, Over

LEMMA InitGoverned == Init => Governed
    BY DEF Init, Governed, Given, Loaded

LEMMA NextGoverned == Governed /\ [Next]_vars => Governed'
<1> SUFFICES ASSUME Governed, [Next]_vars PROVE Governed'
    OBVIOUS
<1>1. CASE ReadConfig
    BY <1>1 DEF ReadConfig, Goto, GivesUp, Leaves, Governed, Given, Loaded
<1>2. CASE LoadConfig
  <2>1. call' = call /\ file' = file /\ conf = Absent
    BY <1>2 DEF LoadConfig, Goto, GivesUp, Leaves, Governed, Loaded
  <2>2. CASE Load(file.text, file.env).why = {}
    <3>1. FirstRefusal(<<
              When(RejectsVariable(file.text), "ENV_VAR_IN_POLICY"),
              When(MissingVariable(file.text, file.env), "MISSING_ENV_VAR"),
              When(WrongForm(file.text) \/ file.text["engine"].form = "absent", "INVALID") >>) = {}
        BY <2>2 DEF Load
    <3>2. ~RejectsVariable(file.text) /\ ~WrongForm(file.text)
        BY <3>1, NoneOfThree DEF When
    <3>3. conf' = Substituted(file.text, file.env) /\ pc' = "cwd"
        BY <1>2, <2>2 DEF LoadConfig, Load, Goto
    <3> QED
        BY <2>1, <3>2, <3>3 DEF Governed, Given, Loaded, Known
  <2>3. CASE Load(file.text, file.env).why # {}
    <3>1. pc' = "done" /\ conf' = conf
        BY <1>2, <2>3 DEF LoadConfig, GivesUp, Leaves
    <3> QED
        BY <2>1, <3>1 DEF Governed, Given, Loaded
  <2> QED
    BY <2>2, <2>3
<1>3. CASE Onward
    BY <1>3 DEF Onward, Governed, Given, Loaded, Known
<1>4. CASE UNCHANGED vars
    BY <1>4 DEF vars, Governed, Given, Loaded, Known
<1> QED
    BY <1>1, <1>2, <1>3, <1>4, LaterSteps

LEMMA GovernedAlways == Spec => []Governed
    BY InitGoverned, NextGoverned, PTL DEF Spec

\* A value of policy in a config that loads is the one that is written.
LEMMA PolicyIsLiteral ==
    ASSUME Given, Known, NEW k \in PolicyKeys PROVE conf[k] = file.text[k].lit
<1>1. k \in Keys
    BY DEF PolicyKeys, Keys, ListKeys, DirKeys, SwitchKeys, NumberKeys, TextKeys
<1>2. file.text[k].var => file.text[k].form \in {"text", "list", "table"}
    BY <1>1, InputsAssumption DEF Given
<1>3. file.text[k].form \in Forms(k)
    BY <1>1 DEF Known, WrongForm
<1>4. file.text[k].var => file.text[k].form # LiteralForm(k)
    BY <1>1 DEF Known, RejectsVariable
<1>5. ~file.text[k].var
  <2>1. CASE k \in ListKeys
    <3>1. /\ k \notin SecretKeys \cup NumberKeys \cup SwitchKeys
          /\ k \notin {"guardrail.mode", "pii.mode", "audit.path"}
        BY <2>1 DEF ListKeys, DirKeys, SecretKeys, NumberKeys, SwitchKeys
    <3>2. Forms(k) = {"absent"} \cup {"list"}
        BY <2>1, <3>1 DEF Forms
    <3>3. LiteralForm(k) = "list"
        BY <2>1, <3>1 DEF LiteralForm
    <3> QED
        BY <1>2, <1>3, <1>4, <3>2, <3>3
  <2>2. CASE k \notin ListKeys
    BY <1>2, <1>3, <1>4, <2>2
    DEF Forms, LiteralForm, PolicyKeys, ListKeys, DirKeys, SwitchKeys, NumberKeys, SecretKeys
  <2> QED
    BY <2>1, <2>2
<1> QED
    BY <1>1, <1>5 DEF Known, Substituted

\* No environment decides a value of policy, whatever the file says and in
\* whatever form (reject_env_vars_in_policy before substitute).
THEOREM PolicyIsWritten == Spec => []PolicyIgnoresEnvironment
<1>1. Governed => PolicyIgnoresEnvironment
    BY PolicyIsLiteral DEF Governed, Loaded, PolicyIgnoresEnvironment
<1> QED
    BY <1>1, GovernedAlways, PTL

-----------------------------------------------------------------------------
(* The directory.                                                              *)

\* A directory that is found allowed is granted by the text.
LEMMA AllowedIsGranted ==
    ASSUME Given, Known, call.dir # Absent, Allowed PROVE Granted
<1> DEFINE dirs == file.text["allowed_dirs"]
<1>1. PICK input \in Inputs : call = input.call /\ file = input.file
    BY DEF Given
<1>2. /\ call.dir \in Seq(STRING)
      /\ call.home \in Seq(STRING) \cup {Absent}
      /\ dirs.form = "absent" => dirs = Missing
      /\ dirs.form = "list" /\ ~dirs.var => \A d \in dirs.lit : d.path \in Seq(STRING)
    BY <1>1, InputsAssumption DEF Keys, ListKeys, DirKeys
<1>3. "allowed_dirs" \in PolicyKeys /\ "allowed_dirs" \in ListKeys /\ "allowed_dirs" \in Keys
    BY DEF PolicyKeys, Keys, ListKeys, DirKeys
<1>4. conf["allowed_dirs"] = dirs.lit
    BY <1>3, PolicyIsLiteral
<1>5. dirs.lit # Absent
    BY <1>4 DEF Allowed, IsAllowed
<1>6. dirs.form = "list"
  <2>1. Forms("allowed_dirs") = {"absent"} \cup {"list"}
    BY DEF Forms, ListKeys, DirKeys, SecretKeys, NumberKeys, SwitchKeys
  <2>2. dirs.form \in Forms("allowed_dirs")
    BY <1>3 DEF Known, WrongForm
  <2> QED
    BY <1>2, <1>5, <2>1, <2>2 DEF Missing
<1>7. ~dirs.var
  <2>1. LiteralForm("allowed_dirs") = "list"
    BY DEF LiteralForm, ListKeys, DirKeys, SecretKeys
  <2> QED
    BY <1>3, <1>6, <2>1 DEF Known, RejectsVariable
<1>8. PICK d \in dirs.lit :
          LET path == Expanded(d, call.home)
          IN  path \in DOMAIN Real /\ IsPrefix(Real[path], call.dir)
    BY <1>4 DEF Allowed, IsAllowed
<1> DEFINE place == (IF d.kind = "home" THEN call.home ELSE << >>) \o d.path
<1>9. d.path \in Seq(STRING) /\ << >> \o d.path = d.path
    BY <1>2, <1>6, <1>7, <1>8
<1>10. /\ d.kind \in {"absolute", "home"} /\ (d.kind = "home" => call.home # Absent)
       /\ Expanded(d, call.home) = place
  <2>1. Expanded(d, call.home) # Absent
    BY <1>8, RealAssumption
  <2> QED
    BY <1>9, <2>1 DEF Expanded
<1>11. /\ place \in DOMAIN Real
       /\ Len(Real[place]) \in 0 .. Len(call.dir)
       /\ Real[place] = SubSeq(call.dir, 1, Len(Real[place]))
  <2>1. place \in DOMAIN Real /\ IsPrefix(Real[place], call.dir)
    BY <1>8, <1>10
  <2>2. Real[place] \in Seq(STRING)
    BY <2>1, RealAssumption
  <2>3. SubSeq(Real[place], 1, Len(Real[place])) = Real[place]
    BY <2>2
  <2> QED
    BY <1>2, <2>1, <2>2, <2>3 DEF IsPrefix
<1> QED
    BY <1>6, <1>7, <1>10, <1>11 DEF Granted

\* Steps before the world is touched, and what they lead to.
Early == {"read", "load", "cwd", "route", "scope"}

\* The invocation may touch what the alias names.
Served == call.command = "diagnose" \/ Granted

Bounded ==
    /\ pc \in {"route", "scope"} => call.dir # Absent
    /\ pc \in Early => did = {} /\ answer = Absent
    /\ outcome # Absent => ~outcome.shown
    /\ pc \notin Early \cup {"done"} => Served /\ answer = Absent
    /\ did # {} => Served
    /\ answer # Absent /\ answer.code = "OK" /\ answer.shown => Granted

\* A result that does not name connections, and one that at most does so in a
\* refusal.
Quiet(result) == ~result.shown
Reserved(result) == result.code = "OK" => ~result.shown

LEMMA RefusalsAreReserved ==
    \A names : /\ Reserved(Telling("CONFIG_INVALID", names)) /\ Reserved(Failure("INTERNAL"))
               /\ Reserved(Telling("DIR_NOT_ALLOWED", names))
               /\ Reserved(Failure("CONFIG_INVALID")) /\ Reserved(Success)
    BY DEF Reserved, Telling, Failure, Success

LEMMA QuietResults ==
    /\ Quiet(Success) /\ \A code : Quiet(Failure(code))
    /\ \A answered : Quiet(Explained(answered))
<1>1. Quiet(Success) /\ \A code : Quiet(Failure(code))
    BY DEF Quiet, Success, Failure
<1>2. \A plan : Quiet(Judged(plan))
    BY DEF Quiet, Success, Judged
<1>3. Quiet(Rejected)
    BY DEF Quiet, Success, Failure, Rejected
<1>4. ASSUME NEW answered PROVE Quiet(Explained(answered))
    BY <1>1, <1>2, <1>3 DEF Explained, Quiet, Success, Failure
<1> QED
    BY <1>1, <1>4

LEMMA NextBounded == Governed /\ Bounded /\ [Next]_vars => Bounded'
<1> SUFFICES ASSUME Governed, Bounded, [Next]_vars PROVE Bounded'
    OBVIOUS
<1>0. call' = call /\ file' = file /\ (Granted => Granted')
  <2>1. call' = call /\ file' = file
    BY LaterSteps DEF ReadConfig, LoadConfig, Onward, Goto, GivesUp, Leaves, vars
  <2> QED
    BY <2>1 DEF Granted
<1>1. CASE ReadConfig \/ LoadConfig \/ ResolveCwd
  <2>1. CASE \E next \in {"load", "cwd", "route"} : Goto(next)
    BY <1>0, <1>1, <2>1 DEF ReadConfig, LoadConfig, ResolveCwd, Goto, GivesUp, Leaves, Bounded, Early
  <2>2. CASE \E result : Reserved(result) /\ Leaves(result)
    BY <1>0, <1>1, <2>2 DEF ReadConfig, LoadConfig, ResolveCwd, Leaves, Bounded, Early, Reserved
  <2>3. (\E next \in {"load", "cwd", "route"} : Goto(next)) \/ (\E result : Reserved(result) /\ Leaves(result))
    BY <1>1, RefusalsAreReserved DEF ReadConfig, LoadConfig, ResolveCwd, GivesUp
  <2> QED
    BY <2>1, <2>2, <2>3
<1>2. CASE ListConnections
    BY <1>0, <1>2, AllowedIsGranted
    DEF ListConnections, Leaves, Bounded, Early, Served, Governed, Loaded
<1>3. CASE LookupAlias
    BY <1>0, <1>3, RefusalsAreReserved DEF LookupAlias, Goto, Leaves, Bounded, Early, Reserved
<1>4. CASE CheckScope
    BY <1>0, <1>4, RefusalsAreReserved, AllowedIsGranted
    DEF CheckScope, Goto, Leaves, Bounded, Early, Reserved, Served, Governed, Loaded
<1>5. CASE BuildEngine
    BY <1>0, <1>5, QuietResults DEF BuildEngine, Goto, Leaves, Bounded, Early, Quiet, Served
<1>6. CASE ResolveUrl \/ ResolvePassword
    BY <1>0, <1>6, QuietResults
    DEF ResolveUrl, ResolvePassword, SecretFails, Goto, Leaves, Bounded, Early, Quiet, Served
<1>7. CASE EnterCommand \/ StartRuntime
    BY <1>0, <1>7, QuietResults
    DEF EnterCommand, StartRuntime, Goto, Leaves, Ends, Bounded, Early, Quiet, Served
<1>8. CASE Layer1
  <2>1. Quiet([Success EXCEPT !.verdict = "no_estimate", !.warns = {"NO_PLAN"}])
    BY DEF Quiet, Success
  <2> QED
    BY <1>0, <1>8, <2>1, QuietResults DEF Layer1, Goto, Ends, Bounded, Early, Quiet, Served
<1>9. CASE OpenTunnel \/ Connect
  <2>1. /\ Quiet([Success EXCEPT !.raw = "connect"])
        /\ Quiet([Failure("CONNECTION_FAILED") EXCEPT !.raw = "connect"])
    BY DEF Quiet, Success, Failure
  <2> QED
    BY <1>0, <1>9, <2>1
    DEF OpenTunnel, Connect, CannotReach, Goto, Ends, Bounded, Early, Quiet, Served
<1>10. ASSUME NEW result, Quiet(result), pc = "ask", Ends(result), did' = did PROVE Bounded'
    BY <1>0, <1>10 DEF Ends, Bounded, Early, Quiet, Served
<1>11. CASE AskPlan
    BY <1>10, <1>11, QuietResults DEF AskPlan
<1>12. CASE RunQuery
  <2>1. Quiet(Rejected)
    BY DEF Quiet, Success, Failure, Rejected
  <2> QED
    BY <1>10, <1>12, <2>1, QuietResults DEF RunQuery
<1>13. CASE Catalogue \/ Diagnose
  <2>1. Quiet(Rejected) /\ \A raw : Quiet([Success EXCEPT !.raw = raw])
    BY DEF Quiet, Success, Failure, Rejected
  <2> QED
    BY <1>10, <1>13, <2>1, QuietResults DEF Catalogue, Diagnose
<1>14. CASE Record \/ Emit
    BY <1>0, <1>14, QuietResults DEF Record, Emit, Bounded, Early, Quiet, Served
<1>15. CASE UNCHANGED vars
    BY <1>0, <1>15 DEF vars, Bounded, Served
<1> QED
    BY <1>1, <1>2, <1>3, <1>4, <1>5, <1>6, <1>7, <1>8, <1>9, <1>11, <1>12, <1>13, <1>14, <1>15,
       QuietResults
    DEF Next, Over

\* From a directory the text does not grant nothing is touched and no answer of
\* a command that succeeds names a connection, for every directory tree,
\* environment and config (check_scope, the filters of list and doctor).
THEOREM ScopeIsKept == Spec => []ScopeHolds
<1>1. Init => Bounded
    BY DEF Init, Bounded, Early
<1>2. Bounded => ScopeHolds
    BY DEF Bounded, ScopeHolds, Served
<1> QED
    BY <1>1, NextBounded, GovernedAlways, <1>2, PTL DEF Spec

-----------------------------------------------------------------------------
(* What comes out, and what is on record of it.                                *)

LEMMA ResultTypes ==
    /\ Success \in Results /\ Success.raw = None
    /\ \A code \in Codes : Failure(code) \in Results /\ Failure(code).raw = None
    /\ \A code, names : Telling(code, names).raw = None
    /\ \A raw \in Quotes : [Success EXCEPT !.raw = raw] \in Results
    /\ [Failure("CONNECTION_FAILED") EXCEPT !.raw = "connect"] \in Results
    /\ [Success EXCEPT !.verdict = "no_estimate", !.warns = {"NO_PLAN"}] \in Results
    /\ Rejected \in Results
    /\ \A answered : Explained(answered) \in Results
<1>1. /\ Success \in Results /\ Success.raw = None
      /\ \A code \in Codes : Failure(code) \in Results /\ Failure(code).raw = None
      /\ \A code, names : Telling(code, names).raw = None
      /\ \A raw \in Quotes : [Success EXCEPT !.raw = raw] \in Results
      /\ [Failure("CONNECTION_FAILED") EXCEPT !.raw = "connect"] \in Results
    BY DEF Success, Failure, Telling, Results, Codes, Quotes, Judgements, None
<1>2. Rejected \in Results
    BY DEF Rejected, Success, Failure, Results, Codes, Quotes, Warnings, Judgements, None
<1>3. \A warning \in Warnings :
          [Success EXCEPT !.verdict = "no_estimate", !.warns = {warning}] \in Results
    BY DEF Success, Results, Codes, Quotes, Warnings, Judgements, None
<1>4. ASSUME NEW plan PROVE Judged(plan) \in Results
  <2>1. \A guardrail, estimate : Verdict(guardrail, estimate) \in Judgements
    BY DEF Verdict, Compare, Judgements
  <2>2. \A condition \in BOOLEAN : When(condition, "SKIPPED") \in SUBSET Warnings
    BY DEF When, Warnings
  <2>3. \A verdict \in Judgements, warns \in SUBSET Warnings :
            [Success EXCEPT !.verdict = verdict, !.warns = warns] \in Results
    BY DEF Success, Results, Codes, Quotes, Warnings, Judgements, None
  <2> QED
    BY <2>1, <2>2, <2>3 DEF Judged, PlansFirst
<1>5. ASSUME NEW answered PROVE Explained(answered) \in Results
    BY <1>1, <1>2, <1>3, <1>4 DEF Explained, Codes, Warnings
<1> QED
    BY <1>1, <1>2, <1>3, <1>5 DEF Warnings

Ending == {"finish", "emit", "done"}

\* There is an outcome where it is recorded, and an answer is it, or says nothing
\* of the world.
Replied ==
    /\ outcome \in Results \cup {Absent}
    /\ pc \in {"finish", "emit"} => outcome \in Results
    /\ pc \notin Ending => outcome = Absent /\ record = None
    /\ pc # "done" => answer = Absent
    /\ pc = "done" => answer = outcome \/ answer.raw = None

\* The log knows what is about to be shown.
Noted ==
    /\ pc \notin Ending \cup {"ask"} => "session" \notin did
    /\ pc = "emit" /\ AuditEnabled(conf) => record = outcome.code
    /\ TouchedIsRecorded

\* A step that leads to the next stage, one that ends unrecorded, one that has an
\* outcome, or one of the last two.
Passes == pc' \notin Ending /\ UNCHANGED <<outcome, record, answer>>

Drops ==
    /\ pc \notin Ending /\ pc' = "done" /\ UNCHANGED <<outcome, record>>
    /\ answer'.raw = None

Concludes ==
    /\ pc \notin Ending /\ pc' = "finish" /\ UNCHANGED <<record, answer>>
    /\ outcome' \in Results

LEMMA Outcomes ==
    ASSUME [Next]_vars
    PROVE  \/ pc \notin Ending /\ (Passes \/ Drops \/ Concludes)
           \/ Record \/ Emit \/ UNCHANGED vars
<1> DEFINE Goal == pc \notin Ending /\ (Passes \/ Drops \/ Concludes)
<1>1. \A code \in Codes : pc \notin Ending /\ Leaves(Failure(code)) => Drops
    BY ResultTypes DEF Leaves, Drops
<1>2. \A code, names : pc \notin Ending /\ Leaves(Telling(code, names)) => Drops
    BY ResultTypes DEF Leaves, Drops
<1>2a. \A code \in Codes : pc \notin Ending /\ GivesUp(Failure(code)) => Drops
    BY ResultTypes DEF GivesUp, Leaves, Drops
<1>2b. \A code, names : pc \notin Ending /\ GivesUp(Telling(code, names)) => Drops
    BY ResultTypes DEF GivesUp, Leaves, Drops
<1>3. \A stage : pc \notin Ending /\ stage \notin Ending /\ Goto(stage) => Passes
    BY DEF Goto, Passes
<1>4. \A result \in Results : pc \notin Ending /\ Ends(result) => Concludes
    BY DEF Ends, Concludes
<1>5. CASE ReadConfig \/ LoadConfig \/ ResolveCwd
    BY <1>2a, <1>2b, <1>3, <1>5 DEF ReadConfig, LoadConfig, ResolveCwd, Ending, Codes
<1>6. CASE ListConnections
  <2>1. [Success EXCEPT !.shown = Allowed].raw = None
    BY DEF Success
  <2> QED
    BY <1>6, <2>1 DEF ListConnections, Leaves, Drops, Ending
<1>7. CASE LookupAlias \/ CheckScope \/ EnterCommand
    BY <1>2, <1>3, <1>7 DEF LookupAlias, CheckScope, EnterCommand, Ending, Codes
<1>8. CASE BuildEngine
    BY <1>1, <1>3, <1>8 DEF BuildEngine, Ending, Codes
<1>9. CASE ResolveUrl \/ ResolvePassword
    BY <1>1, <1>3, <1>9 DEF ResolveUrl, ResolvePassword, SecretFails, Ending, Codes
<1>10. CASE Layer1
    BY <1>3, <1>4, <1>10, ResultTypes DEF Layer1, Ending, Codes
<1>11. CASE OpenTunnel \/ Connect
  <2>1. pc \notin Ending /\ CannotReach => Concludes
    BY <1>4, ResultTypes DEF CannotReach, Quotes
  <2>2. pc \notin Ending /\ (Goto("runtime") \/ Goto("ask")) => Passes
    BY <1>3 DEF Ending
  <2> QED
    BY <1>11, <2>1, <2>2 DEF OpenTunnel, Connect, Ending
<1>12. CASE StartRuntime
    BY <1>1, <1>3, <1>4, <1>12, ResultTypes DEF StartRuntime, Ending, Codes
<1>13. CASE AskPlan
    BY <1>4, <1>13, ResultTypes DEF AskPlan, Ending, Codes
<1>14. CASE RunQuery \/ Catalogue
    BY <1>4, <1>14, ResultTypes DEF RunQuery, Catalogue, Ending, Codes
<1>15. CASE Diagnose
    BY <1>4, <1>15, ResultTypes DEF Diagnose, Ending, Quotes, None
<1> QED
    BY <1>5, <1>6, <1>7, <1>8, <1>9, <1>10, <1>11, <1>12, <1>13, <1>14, <1>15 DEF Next, Over

LEMMA NextReplied == Replied /\ [Next]_vars => Replied'
<1> SUFFICES ASSUME Replied, [Next]_vars PROVE Replied'
    OBVIOUS
<1>1. CASE pc \notin Ending /\ (Passes \/ Drops \/ Concludes)
    BY <1>1 DEF Passes, Drops, Concludes, Replied, Ending
<1>2. CASE Record
    BY <1>2, ResultTypes DEF Record, Replied, Ending, Codes
<1>3. CASE Emit
    BY <1>3, ResultTypes DEF Emit, Replied, Ending, Codes
<1>4. CASE UNCHANGED vars
    BY <1>4 DEF vars, Replied
<1> QED
    BY <1>1, <1>2, <1>3, <1>4, Outcomes

LEMMA RepliedAlways == Spec => []Replied
<1>1. Init => Replied
    BY DEF Init, Replied, Ending
<1> QED
    BY <1>1, NextReplied, PTL DEF Spec

\* The session is the last thing that is asked for.
LEMMA SessionLast ==
    ASSUME Governed, Noted, [Next]_vars, pc' \notin {"ask", "finish", "emit", "done"} \/ Drops
    PROVE  "session" \notin did'
<1>1. CASE ReadConfig \/ LoadConfig \/ ResolveCwd \/ ListConnections \/ LookupAlias \/ CheckScope
           \/ BuildEngine \/ EnterCommand \/ Layer1 \/ StartRuntime
    BY <1>1
    DEF ReadConfig, LoadConfig, ResolveCwd, ListConnections, LookupAlias, CheckScope, BuildEngine,
        EnterCommand, Layer1, StartRuntime, Noted, Ending
<1>2. CASE ResolveUrl \/ ResolvePassword \/ OpenTunnel
    BY <1>2 DEF ResolveUrl, ResolvePassword, OpenTunnel, Resolves, SecretFails, Asks, Noted, Ending
<1>3. CASE Connect \/ AskPlan \/ RunQuery \/ Catalogue \/ Diagnose \/ Record \/ Emit \/ UNCHANGED vars
    BY <1>3
    DEF Connect, CannotReach, Goto, AskPlan, RunQuery, Catalogue, Diagnose, Ends, Record, Emit, vars,
        Drops, Noted, Ending
<1> QED
    BY <1>1, <1>2, <1>3 DEF Next, Over

LEMMA NextNoted == Governed /\ Replied /\ Noted /\ [Next]_vars => Noted'
<1> SUFFICES ASSUME Governed, Replied, Noted, [Next]_vars PROVE Noted'
    OBVIOUS
<1>1. CASE pc \notin Ending /\ (Passes \/ Drops \/ Concludes)
  <2>1. CASE Passes
    BY <2>1, SessionLast DEF Passes, Noted, TouchedIsRecorded, Ending
  <2>2. CASE Drops
    BY <2>2, SessionLast DEF Drops, Noted, TouchedIsRecorded, Ending
  <2>3. CASE Concludes
    BY <2>3 DEF Concludes, Noted, TouchedIsRecorded, Ending
  <2> QED
    BY <1>1, <2>1, <2>2, <2>3
<1>2. CASE Record
    BY <1>2 DEF Record, Noted, TouchedIsRecorded, AuditEnabled, Ending
<1>3. CASE Emit
    BY <1>3, ResultsAssumption DEF Emit, Noted, TouchedIsRecorded, AuditEnabled, Ending, Replied
<1>4. CASE UNCHANGED vars
    BY <1>4 DEF vars, Noted, TouchedIsRecorded, AuditEnabled
<1> QED
    BY <1>1, <1>2, <1>3, <1>4, Outcomes

\* Where the log is on, whatever was reached or quoted is in it with its true
\* outcome before there is an answer (audit_finish on every path).
THEOREM TouchedIsLogged == Spec => []TouchedIsRecorded
<1>1. Init => Noted
    BY DEF Init, Noted, TouchedIsRecorded, Ending
<1>2. Noted => TouchedIsRecorded
    BY DEF Noted
<1> QED
    BY <1>1, NextNoted, GovernedAlways, RepliedAlways, <1>2, PTL DEF Spec

-----------------------------------------------------------------------------
(* What a server says of protected data.                                       *)

Protected == file.text["pii.columns"].lit \notin {Absent, {}}

\* An outcome of a protected connection does not quote a statement.
Withheld ==
    /\ conf # Absent /\ Protected /\ outcome # Absent => outcome.raw # "statement"
    /\ pc \notin {"read", "load", "done"} /\ Protected /\ outcome # Absent => outcome.raw # "statement"
    /\ RawIsWithheld

LEMMA ProtectedHasPolicy == Governed /\ pc \notin {"read", "load", "done"} /\ Protected => HasPolicy
<1> SUFFICES ASSUME Governed, pc \notin {"read", "load", "done"}, Protected PROVE HasPolicy
    OBVIOUS
<1>1. "pii.columns" \in PolicyKeys
    BY DEF PolicyKeys, ListKeys
<1>2. conf["pii.columns"] = file.text["pii.columns"].lit
    BY <1>1, PolicyIsLiteral DEF Governed, Loaded
<1> QED
    BY <1>2 DEF HasPolicy, Columns, Protected

LEMMA Discreet ==
    ASSUME HasPolicy
    PROVE  /\ Rejected.raw # "statement"
           /\ \A answered : Explained(answered).raw # "statement"
<1>1. /\ Rejected.raw = None /\ Success.raw = None
      /\ \A code : Failure(code).raw = None
      /\ \A warning : [Success EXCEPT !.verdict = "no_estimate", !.warns = {warning}].raw = None
    BY DEF Rejected, Success, Failure, None
<1>2. \A plan : Judged(plan).raw = None
    BY DEF Judged, Success, None
<1>3. ASSUME NEW answered PROVE Explained(answered).raw = None
    BY <1>1, <1>2 DEF Explained
<1> QED
    BY <1>1, <1>3 DEF None

\* Of a protected connection, what a step concludes is discreet.
LEMMA ConcludesDiscreetly ==
    ASSUME Governed, [Next]_vars, pc \notin Ending, pc' = "finish", Protected
    PROVE  outcome'.raw # "statement"
<1>1. CASE Layer1
    BY <1>1 DEF Layer1, Ends, Goto, Success, Failure, None
<1>2. CASE OpenTunnel \/ Connect \/ StartRuntime
    BY <1>2 DEF OpenTunnel, Connect, StartRuntime, CannotReach, Ends, Goto, Leaves, Success, Failure, None
<1>3. CASE AskPlan \/ RunQuery \/ Catalogue \/ Diagnose
  <2>1. HasPolicy
    BY <1>3, ProtectedHasPolicy DEF AskPlan, RunQuery, Catalogue, Diagnose
  <2>2. Rejected.raw # "statement" /\ \A answered : Explained(answered).raw # "statement"
    BY <2>1, Discreet
  <2>3. Success.raw # "statement" /\ \A code : Failure(code).raw # "statement"
    BY DEF Success, Failure, None
  <2>4. ASSUME Diagnose PROVE outcome'.raw # "statement"
    BY <2>1, <2>4 DEF Diagnose, Ends, Success, None
  <2> QED
    BY <1>3, <2>2, <2>3, <2>4 DEF AskPlan, RunQuery, Catalogue, Ends
<1>4. CASE ReadConfig \/ LoadConfig \/ ResolveCwd \/ ListConnections \/ LookupAlias \/ CheckScope
           \/ BuildEngine \/ ResolveUrl \/ ResolvePassword \/ EnterCommand
    BY <1>4
    DEF ReadConfig, LoadConfig, ResolveCwd, ListConnections, LookupAlias, CheckScope, BuildEngine,
        ResolveUrl, ResolvePassword, SecretFails, EnterCommand, Goto, GivesUp, Leaves
<1>5. CASE Record \/ Emit \/ UNCHANGED vars
    BY <1>5 DEF Record, Emit, vars, Ending
<1> QED
    BY <1>1, <1>2, <1>3, <1>4, <1>5 DEF Next, Over

LEMMA NextWithheld == Governed /\ Replied /\ Withheld /\ [Next]_vars => Withheld'
<1> SUFFICES ASSUME Governed, Replied, Withheld, [Next]_vars PROVE Withheld'
    OBVIOUS
<1>0. file' = file
    BY LaterSteps DEF ReadConfig, LoadConfig, Onward, Goto, GivesUp, Leaves, vars
<1>1. CASE pc \notin Ending /\ (Passes \/ Drops)
    BY <1>0, <1>1
    DEF Passes, Drops, Withheld, Protected, RawIsWithheld, Replied, Ending, None
<1>2. CASE pc \notin Ending /\ Concludes
    BY <1>0, <1>2, ConcludesDiscreetly
    DEF Concludes, Withheld, Protected, RawIsWithheld, Replied, Ending, None
<1>3. CASE Record
  <2>1. Failure("AUDIT_FAILED").raw = None
    BY DEF Failure, Success
  <2> QED
    BY <1>0, <1>3, <2>1
    DEF Record, Withheld, Protected, RawIsWithheld, Replied, Ending, None
<1>4. CASE Emit
  <2>1. Failure("INTERNAL").raw = None
    BY DEF Failure, Success
  <2> QED
    BY <1>0, <1>4, <2>1
    DEF Emit, Withheld, Protected, RawIsWithheld, Replied, Ending, None
<1>5. CASE UNCHANGED vars
    BY <1>5 DEF vars, Withheld, Protected, RawIsWithheld
<1> QED
    BY <1>1, <1>2, <1>3, <1>4, <1>5, Outcomes

\* Where columns are protected, the server's words on a statement reach neither
\* the log nor the answer, for every config and every server (engine_failure,
\* redact_diagnosis).
THEOREM RawStaysOut == Spec => []RawIsWithheld
<1>1. Init => Withheld
    BY DEF Init, Withheld, RawIsWithheld
<1>2. Withheld => RawIsWithheld
    BY DEF Withheld
<1> QED
    BY <1>1, NextWithheld, GovernedAlways, RepliedAlways, <1>2, PTL DEF Spec

-----------------------------------------------------------------------------
(* explain and query.                                                          *)

\* The verdict depends on what was planned, and nothing changes that afterwards.
Foretold ==
    /\ pc \notin Ending => planned = NotPlanned
    /\ call.command = "explain" /\ pc \in {"tunnel", "runtime", "connect", "ask"} =>
           call.stmt # "refused" /\ ~Metadata
    /\ ExplainForetellsQuery

\* What explain says of an answer is what query would do.
LEMMA ExplainedForetells ==
    ASSUME call.stmt \in Statements, call.stmt # "refused", ~Metadata,
           NEW answered, LET said == Explained(answered) IN said.code = "OK"
    PROVE  LET said == Explained(answered)
           IN  IF "TOO_SLOW" \in said.warns
               THEN PlansFirst(QueryGuardrail) => QueryRefuses(answered)
               ELSE (said.verdict = "expensive") <=> QueryRefuses(answered)
<1>0. Success.code = "OK" /\ \A code : Failure(code).code = code
    BY DEF Success, Failure
<1>1. CASE answered.fate = "got"
  <2> DEFINE estimate == Estimate(conf.engine, answered.plan)
  <2>1. Explained(answered) = Judged(answered.plan)
    BY <1>1 DEF Explained
  <2>2. /\ Judged(answered.plan).verdict = Verdict(OwnGuardrail, estimate)
        /\ "TOO_SLOW" \notin Judged(answered.plan).warns
    BY DEF Judged, Success, When
  <2>3. CASE conf.engine \in SqlEngines
    <3>1. QueryGuardrail = OwnGuardrail
        BY <2>3 DEF QueryGuardrail, Statements, Metadata
    <3>2. Refuses(OwnGuardrail, estimate) => PlansFirst(OwnGuardrail)
        BY DEF Refuses, Verdict, PlansFirst
    <3> QED
        BY <1>1, <2>1, <2>2, <3>1, <3>2 DEF QueryRefuses, Refuses
  <2>4. CASE conf.engine \notin SqlEngines
    <3>1. estimate = Unestimated
        BY <2>4 DEF Estimate, SqlEngines, MySqlLike
    <3>2. Verdict(OwnGuardrail, Unestimated) # "expensive"
        BY DEF Verdict, Compare, Unestimated
    <3>3. ~QueryRefuses(answered)
        BY <2>4 DEF QueryRefuses, QueryGuardrail, PlansFirst, Off
    <3> QED
        BY <2>1, <2>2, <3>1, <3>2, <3>3
  <2> QED
    BY <2>3, <2>4
<1>2. CASE answered.fate = "none"
  <2>1. /\ Explained(answered).verdict = "no_estimate"
        /\ Explained(answered).warns = {"NO_ENGINE_PLAN"}
    BY <1>2 DEF Explained, Success
  <2> QED
    BY <1>2, <2>1 DEF QueryRefuses
<1>3. CASE answered.fate = "slow"
  <2>1. OnBudget
    BY <1>0, <1>3 DEF Explained
  <2>2. "TOO_SLOW" \in Explained(answered).warns
    BY <1>3, <2>1 DEF Explained, Success
  <2>3. PlansFirst(QueryGuardrail) => QueryRefuses(answered)
    BY <1>3, <2>1 DEF QueryRefuses, OnBudget, MySqlLike
  <2> QED
    BY <2>2, <2>3
<1>4. CASE answered.fate \notin {"got", "none", "slow"}
  <2>1. Rejected.code = "DB_ERROR"
    BY DEF Rejected, Failure, Success
  <2> QED
    BY <1>0, <1>4, <2>1 DEF Explained
<1> QED
    BY <1>1, <1>2, <1>3, <1>4

LEMMA NextForetold == Governed /\ Replied /\ Foretold /\ [Next]_vars => Foretold'
<1> SUFFICES ASSUME Governed, Replied, Foretold, [Next]_vars PROVE Foretold'
    OBVIOUS
<1>1. ASSUME pc \notin Ending, outcome' = outcome, UNCHANGED <<call, planned>>,
             call.command = "explain" /\ pc' \in {"tunnel", "runtime", "connect", "ask"} =>
                 call.stmt # "refused" /\ ~Metadata'
      PROVE  Foretold'
    BY <1>1 DEF Foretold, ExplainForetellsQuery, Replied
<1>2. CASE ReadConfig \/ LoadConfig \/ ResolveCwd \/ ListConnections \/ LookupAlias \/ CheckScope
           \/ BuildEngine \/ ResolveUrl \/ ResolvePassword
  <2>1. /\ pc \notin Ending /\ outcome' = outcome /\ UNCHANGED <<call, planned>>
        /\ pc' \notin {"tunnel", "runtime", "connect", "ask"}
    BY <1>2
    DEF ReadConfig, LoadConfig, ResolveCwd, ListConnections, LookupAlias, CheckScope, BuildEngine,
        ResolveUrl, ResolvePassword, SecretFails, Goto, GivesUp, Leaves, Ending
  <2> QED
    BY <1>1, <2>1
<1>3. CASE EnterCommand
  <2>1. /\ pc \notin Ending /\ outcome' = outcome /\ UNCHANGED <<call, planned>>
        /\ pc' \in {"layer1", "tunnel"}
        /\ pc' = "tunnel" => call.command # "explain"
    BY <1>3 DEF EnterCommand, Goto, Ending
  <2> QED
    BY <1>1, <2>1
<1>4. ASSUME pc \notin Ending, UNCHANGED <<call, conf>>, planned' = NotPlanned,
             outcome'.verdict # "expensive", "TOO_SLOW" \notin outcome'.warns,
             pc' = "finish"
      PROVE  Foretold'
  <2>1. ~QueryRefuses(planned)'
    BY <1>4 DEF QueryRefuses, NotPlanned, None
  <2> QED
    BY <1>4, <2>1 DEF Foretold, ExplainForetellsQuery, Ending
<1>5. /\ Success.verdict # "expensive" /\ Success.warns = {}
      /\ \A code : Failure(code).verdict # "expensive" /\ Failure(code).warns = {}
    BY DEF Success, Failure, None
<1>6. CASE Layer1
  <2>1. UNCHANGED <<call, conf, planned>> /\ planned = NotPlanned /\ pc \notin Ending
    BY <1>6 DEF Layer1, Goto, Ends, Ending, Foretold
  <2>2. CASE pc' = "finish"
    <3>1. outcome' = Failure("NYET")
          \/ outcome' = [Success EXCEPT !.verdict = "no_estimate", !.warns = {"NO_PLAN"}]
        BY <1>6, <2>2 DEF Layer1, Goto, Ends
    <3>2. Failure("NYET").verdict = None /\ Failure("NYET").warns = {}
        BY DEF Success, Failure
    <3>3. outcome'.verdict \in {None, "no_estimate"} /\ outcome'.warns \in {{}, {"NO_PLAN"}}
        BY <3>1, <3>2 DEF Success
    <3>4. outcome'.verdict # "expensive" /\ "TOO_SLOW" \notin outcome'.warns
        BY <3>3 DEF None
    <3> QED
        BY <1>4, <2>1, <2>2, <3>4
  <2>3. CASE pc' # "finish"
    <3>1. outcome' = outcome /\ (call.command = "explain" => call.stmt # "refused" /\ ~Metadata)
        BY <1>6, <2>3 DEF Layer1, Goto, Ends
    <3> QED
        BY <1>1, <2>1, <3>1 DEF Metadata
  <2> QED
    BY <2>2, <2>3
<1>7. CASE OpenTunnel \/ StartRuntime \/ Connect
  <2>1. /\ UNCHANGED <<call, conf, planned>> /\ planned = NotPlanned /\ pc \notin Ending
        /\ pc \in {"tunnel", "runtime", "connect"}
    BY <1>7 DEF OpenTunnel, StartRuntime, Connect, CannotReach, Goto, Ends, Leaves, Ending, Foretold
  <2>2. CASE pc' = "finish"
    <3>1. \/ outcome' = [Success EXCEPT !.raw = "connect"]
          \/ outcome' = [Failure("CONNECTION_FAILED") EXCEPT !.raw = "connect"]
          \/ outcome' = Failure("INTERNAL")
        BY <1>7, <2>2 DEF OpenTunnel, StartRuntime, Connect, CannotReach, Goto, Ends, Leaves
    <3>2. outcome'.verdict # "expensive" /\ outcome'.warns = {}
        BY <1>5, <3>1 DEF Success, Failure, None
    <3> QED
        BY <1>4, <2>1, <2>2, <3>2
  <2>3. CASE pc' # "finish"
    <3>1. outcome' = outcome
        BY <1>7, <2>3 DEF OpenTunnel, StartRuntime, Connect, CannotReach, Goto, Ends, Leaves
    <3>2. call.command = "explain" => call.stmt # "refused" /\ ~Metadata
        BY <2>1 DEF Foretold
    <3> QED
        BY <1>1, <2>1, <3>1, <3>2 DEF Metadata
  <2> QED
    BY <2>2, <2>3
<1>8. CASE AskPlan
  <2>1. PICK answered \in Answers : planned' = answered /\ Ends(Explained(answered))
    BY <1>8 DEF AskPlan
  <2>2. /\ UNCHANGED <<call, conf>> /\ call.stmt # "refused" /\ ~Metadata /\ pc' = "finish"
        /\ outcome' = Explained(answered)
    BY <1>8, <2>1 DEF AskPlan, Ends, Foretold
  <2>3. call.stmt \in Statements
    BY InputsAssumption DEF Governed, Given
  <2>4. ASSUME outcome'.code = "OK"
        PROVE  IF "TOO_SLOW" \in outcome'.warns
               THEN PlansFirst(QueryGuardrail) => QueryRefuses(answered)
               ELSE (outcome'.verdict = "expensive") <=> QueryRefuses(answered)
    BY <2>2, <2>3, <2>4, ExplainedForetells
  <2>5. QueryGuardrail' = QueryGuardrail /\ QueryRefuses(planned)' = QueryRefuses(answered)
    BY <2>1, <2>2 DEF QueryGuardrail, OwnGuardrail, QueryRefuses
  <2> QED
    BY <2>2, <2>4, <2>5 DEF Foretold, ExplainForetellsQuery, Ending
<1>9. CASE RunQuery \/ Catalogue \/ Diagnose
  <2>1. call.command # "explain" /\ call' = call /\ pc' = "finish"
    BY <1>9 DEF RunQuery, Catalogue, Diagnose, Ends
  <2> QED
    BY <2>1 DEF Foretold, ExplainForetellsQuery, Ending
<1>10. CASE Record \/ Emit \/ UNCHANGED vars
  <2>1. /\ UNCHANGED <<call, conf, planned, outcome>>
        /\ pc' = pc \/ pc' \in Ending
    BY <1>10 DEF Record, Emit, vars, Ending
  <2>2. QueryGuardrail' = QueryGuardrail /\ QueryRefuses(planned)' = QueryRefuses(planned) /\ Metadata' = Metadata
    BY <2>1 DEF QueryGuardrail, OwnGuardrail, QueryRefuses, Metadata
  <2> QED
    BY <2>1, <2>2 DEF Foretold, ExplainForetellsQuery, Ending
<1> QED
    BY <1>2, <1>3, <1>6, <1>7, <1>8, <1>9, <1>10 DEF Next, Over

\* explain's verdict on a plan is what query decides on it, for every engine, every
\* plan and every guardrail that loads (judge in explain_command, execute).
THEOREM ExplainIsTrue == Spec => []ExplainForetellsQuery
<1>1. Init => Foretold
    BY DEF Init, Foretold, ExplainForetellsQuery, Ending
<1>2. Foretold => ExplainForetellsQuery
    BY DEF Foretold
<1> QED
    BY <1>1, NextForetold, GovernedAlways, RepliedAlways, <1>2, PTL DEF Spec


-----------------------------------------------------------------------------
(* Folds over finite sets: what one more member does to a sum or a product.    *)

LEMMA LeastNatural ==
    ASSUME NEW T \in SUBSET Nat, T # {}
    PROVE  \E m \in T : \A k \in T : m <= k
<1> DEFINE Less == {pair \in Nat \X Nat : pair[1] < pair[2]}
<1>1. IsWellFoundedOn(Less, Nat)
    BY NatLessThanWellFounded DEF OpToRel
<1>2. \E m \in T : \A k \in T : <<k, m>> \notin Less
  <2> HIDE DEF Less
  <2> QED
    BY <1>1, WFMin
<1>3. PICK m \in T : \A k \in T : <<k, m>> \notin Less
    BY <1>2
<1>4. \A k \in T : ~(k < m)
    BY <1>3
<1> QED
    BY <1>4

\* Among finite sets there is one from which nothing can be taken away.
LEMMA Smallest ==
    ASSUME NEW B, B # {}, \A U \in B : IsFiniteSet(U)
    PROVE  \E U \in B : \A x \in U : U \ {x} \notin B
<1> DEFINE sizes == {Cardinality(U) : U \in B}
<1>1. sizes \subseteq Nat /\ sizes # {}
    BY FS_CardinalityType
<1>2. \E m \in sizes : \A k \in sizes : m <= k
  <2> HIDE DEF sizes
  <2> QED
    BY <1>1, LeastNatural
<1>3. PICK U \in B : \A V \in B : Cardinality(U) <= Cardinality(V)
    BY <1>2
<1>4. ASSUME NEW x \in U, U \ {x} \in B PROVE FALSE
  <2>1. Cardinality(U \ {x}) = Cardinality(U) - 1
    BY FS_RemoveElement
  <2>2. Cardinality(U) \in Nat
    BY FS_CardinalityType
  <2> QED
    BY <1>3, <1>4, <2>1, <2>2
<1> QED
    BY <1>3, <1>4

Pick(s) == CHOOSE x \in s : TRUE

LEMMA PickIn == ASSUME NEW s, s # {} PROVE Pick(s) \in s
    BY DEF Pick

\* The recursion of a fold over the subsets of S.
OneFold(op, base, f, h, s) == IF s = {} THEN base ELSE op[<<f[Pick(s)], h[s \ {Pick(s)}]>>]

Folding(op, base, f, S, h) == h = [s \in SUBSET S |-> OneFold(op, base, f, h, s)]

\* An operation on naturals whose order does not matter.
Commutes(op) ==
    /\ \A a, b \in Nat : op[<<a, b>>] \in Nat
    /\ \A a, b, c \in Nat : op[<<a, op[<<b, c>>]>>] = op[<<b, op[<<a, c>>]>>]

LEMMA FoldExists ==
    ASSUME NEW op, NEW base, NEW f, NEW S, IsFiniteSet(S)
    PROVE  \E h : Folding(op, base, f, S, h)
<1> DEFINE Upto(n) == {s \in SUBSET S : Cardinality(s) <= n}
           Reads(h, n) == h = [s \in Upto(n) |-> OneFold(op, base, f, h, s)]
           bad == {n \in Nat : ~\E h : Reads(h, n)}
<1>1. \A s \in SUBSET S : /\ IsFiniteSet(s) /\ Cardinality(s) \in Nat
                          /\ Cardinality(s) <= Cardinality(S)
    BY FS_Subset, FS_CardinalityType
<1>2. Cardinality(S) \in Nat
    BY FS_CardinalityType
<1>3. \E h : Reads(h, Cardinality(S))
  <2> SUFFICES ASSUME Cardinality(S) \in bad PROVE FALSE
    BY <1>2
  <2>1. PICK m \in bad : \A k \in bad : m <= k
    <3> HIDE DEF Reads
    <3>1. bad \subseteq Nat /\ bad # {}
        OBVIOUS
    <3> HIDE DEF bad
    <3> QED
        BY <3>1, LeastNatural
  <2>2. m # 0
    <3> SUFFICES ASSUME m = 0 PROVE FALSE
        OBVIOUS
    <3> DEFINE h == [s \in Upto(0) |-> base]
    <3>1. \A s \in Upto(0) : s = {}
        BY <1>1, FS_EmptySet
    <3>2. Reads(h, 0)
        BY <3>1 DEF OneFold
    <3> HIDE DEF h, Reads
    <3> QED
        BY <3>2
  <2>3. m - 1 \in Nat /\ m - 1 \notin bad
    <3>1. m \in Nat
        BY <2>1
    <3> HIDE DEF bad
    <3> QED
        BY <2>1, <2>2, <3>1
  <2>4. PICK g : Reads(g, m - 1)
    <3> HIDE DEF Reads
    <3> QED
        BY <2>3
  <2> DEFINE h == [s \in Upto(m) |-> OneFold(op, base, f, g, s)]
  <2>5. \A s \in Upto(m - 1) : s \in Upto(m) /\ h[s] = g[s]
    BY <1>1, <2>3, <2>4
  <2>6. \A s \in Upto(m) : s # {} => s \ {Pick(s)} \in Upto(m - 1)
    <3> SUFFICES ASSUME NEW s \in Upto(m), s # {} PROVE s \ {Pick(s)} \in Upto(m - 1)
        OBVIOUS
    <3>1. Cardinality(s \ {Pick(s)}) = Cardinality(s) - 1
        BY <1>1, PickIn, FS_RemoveElement
    <3> QED
        BY <1>1, <2>3, <3>1
  <2>7. \A s \in Upto(m) : OneFold(op, base, f, g, s) = OneFold(op, base, f, h, s)
    <3> HIDE DEF h, Upto
    <3> QED
        BY <2>5, <2>6 DEF OneFold
  <2>8. Reads(h, m)
    BY <2>7
  <2> HIDE DEF h, Reads
  <2> QED
    BY <2>1, <2>8
<1>4. Upto(Cardinality(S)) = SUBSET S
    BY <1>1
<1> QED
    BY <1>3, <1>4 DEF Folding

LEMMA FoldUnfolds ==
    ASSUME NEW op, NEW base, NEW f, NEW S, NEW h, Folding(op, base, f, S, h)
    PROVE  /\ h[{}] = base
           /\ \A s \in SUBSET S : s # {} => h[s] = op[<<f[Pick(s)], h[s \ {Pick(s)}]>>]
<1>1. \A s \in SUBSET S : h[s] = OneFold(op, base, f, h, s)
    BY DEF Folding
<1> QED
    BY <1>1 DEF OneFold

LEMMA FoldNatural ==
    ASSUME NEW op, Commutes(op), NEW base \in Nat, NEW S, IsFiniteSet(S), NEW f, NEW h,
           \A x \in S : f[x] \in Nat, Folding(op, base, f, S, h)
    PROVE  \A U \in SUBSET S : h[U] \in Nat
<1>0. /\ h[{}] = base
      /\ \A s \in SUBSET S : s # {} => h[s] = op[<<f[Pick(s)], h[s \ {Pick(s)}]>>]
    BY FoldUnfolds
<1> DEFINE bad == {U \in SUBSET S : h[U] \notin Nat}
<1> SUFFICES ASSUME bad # {} PROVE FALSE
    OBVIOUS
<1>1. \A U \in bad : IsFiniteSet(U)
    BY FS_Subset
<1>2. PICK U \in bad : \A x \in U : U \ {x} \notin bad
  <2> HIDE DEF bad
  <2> QED
    BY <1>1, Smallest
<1>3. U # {}
    BY <1>0, <1>2
<1>4. Pick(U) \in U /\ h[U \ {Pick(U)}] \in Nat
    BY <1>2, <1>3, PickIn
<1>5. f[Pick(U)] \in Nat
    BY <1>2, <1>4
<1>6. op[<<f[Pick(U)], h[U \ {Pick(U)}]>>] \in Nat
    BY <1>4, <1>5 DEF Commutes
<1> QED
    BY <1>0, <1>2, <1>3, <1>6

Same(f, g, W) == IsFiniteSet(W) /\ \A x \in W : f[x] = g[x]

\* Two folds agree on a set where their functions do.
LEMMA FoldsAgree ==
    ASSUME NEW op, NEW base, NEW S, NEW f, NEW h, NEW T, NEW g, NEW k,
           NEW W \in SUBSET (S \cap T), Same(f, g, W),
           Folding(op, base, f, S, h), Folding(op, base, g, T, k)
    PROVE  h[W] = k[W]
<1>0. /\ h[{}] = base
      /\ \A s \in SUBSET S : s # {} => h[s] = op[<<f[Pick(s)], h[s \ {Pick(s)}]>>]
    BY FoldUnfolds
<1>00. /\ k[{}] = base
      /\ \A s \in SUBSET T : s # {} => k[s] = op[<<g[Pick(s)], k[s \ {Pick(s)}]>>]
    BY FoldUnfolds, SMTT(60)
<1> DEFINE bad == {U \in SUBSET W : h[U] # k[U]}
<1> SUFFICES ASSUME bad # {} PROVE FALSE
    OBVIOUS
<1>1. \A U \in bad : IsFiniteSet(U)
    BY FS_Subset DEF Same
<1>2. PICK U \in bad : \A x \in U : U \ {x} \notin bad
  <2> HIDE DEF bad
  <2> QED
    BY <1>1, Smallest
<1>3. U # {}
    BY <1>0, <1>00, <1>2
<1>4. Pick(U) \in U /\ h[U \ {Pick(U)}] = k[U \ {Pick(U)}]
    BY <1>2, <1>3, PickIn
<1>5. /\ h[U] = op[<<f[Pick(U)], h[U \ {Pick(U)}]>>]
      /\ k[U] = op[<<g[Pick(U)], k[U \ {Pick(U)}]>>]
    BY <1>0, <1>00, <1>2, <1>3
<1> QED
    BY <1>2, <1>4, <1>5 DEF Same

\* Any member can be taken out first.
LEMMA FoldTakesOut ==
    ASSUME NEW op, Commutes(op), NEW base \in Nat, NEW S, IsFiniteSet(S), NEW f, NEW h,
           \A x \in S : f[x] \in Nat, Folding(op, base, f, S, h)
    PROVE  \A U \in SUBSET S : \A x \in U : h[U] = op[<<f[x], h[U \ {x}]>>]
<1>0. /\ h[{}] = base
      /\ \A s \in SUBSET S : s # {} => h[s] = op[<<f[Pick(s)], h[s \ {Pick(s)}]>>]
    BY FoldUnfolds
<1> DEFINE bad == {U \in SUBSET S : \E x \in U : h[U] # op[<<f[x], h[U \ {x}]>>]}
<1> SUFFICES ASSUME bad # {} PROVE FALSE
    OBVIOUS
<1>1. \A U \in bad : IsFiniteSet(U)
    BY FS_Subset
<1>2. PICK U \in bad : \A x \in U : U \ {x} \notin bad
  <2> HIDE DEF bad
  <2> QED
    BY <1>1, Smallest
<1>3. PICK x \in U : h[U] # op[<<f[x], h[U \ {x}]>>]
    BY <1>2
<1> DEFINE y == Pick(U)
<1>4. y \in U /\ h[U] = op[<<f[y], h[U \ {y}]>>]
    BY <1>0, <1>2, <1>3, PickIn
<1> HIDE DEF y
<1>5. x # y
    BY <1>3, <1>4
<1> DEFINE rest == (U \ {x}) \ {y}
<1>6. h[U \ {y}] = op[<<f[x], h[rest]>>]
  <2>1. (U \ {y}) \ {x} = rest
    OBVIOUS
  <2> QED
    BY <1>2, <1>3, <1>4, <1>5, <2>1
<1>7. h[U \ {x}] = op[<<f[y], h[rest]>>]
    BY <1>2, <1>3, <1>4, <1>5
<1>8. f[x] \in Nat /\ f[y] \in Nat /\ h[rest] \in Nat
    BY <1>2, <1>3, <1>4, FoldNatural
<1> HIDE DEF rest
<1> QED
    BY <1>3, <1>4, <1>6, <1>7, <1>8 DEF Commutes

Fold(op, base, f, S) == (CHOOSE h : Folding(op, base, f, S, h))[S]

LEMMA FoldChosen ==
    ASSUME NEW op, NEW base, NEW f, NEW S, IsFiniteSet(S)
    PROVE  Folding(op, base, f, S, CHOOSE h : Folding(op, base, f, S, h))
    BY FoldExists

Naturals(f, S) == IsFiniteSet(S) /\ \A x \in S : f[x] \in Nat

LEMMA FoldFacts ==
    ASSUME NEW op, Commutes(op), NEW base \in Nat, NEW f, NEW S, Naturals(f, S)
    PROVE  /\ Fold(op, base, f, S) \in Nat
           /\ S = {} => Fold(op, base, f, S) = base
           /\ \A x \in S : Fold(op, base, f, S) = op[<<f[x], Fold(op, base, f, S \ {x})>>]
<1> DEFINE h == CHOOSE h : Folding(op, base, f, S, h)
<1>1. IsFiniteSet(S) /\ \A x \in S : f[x] \in Nat
    BY DEF Naturals
<1>2. Folding(op, base, f, S, h) /\ Fold(op, base, f, S) = h[S]
    BY <1>1, FoldChosen DEF Fold
<1> HIDE DEF h
<1>3. h[S] \in Nat
    BY <1>1, <1>2, FoldNatural
<1>4. h[{}] = base
    BY <1>2, FoldUnfolds
<1>5. ASSUME NEW x \in S PROVE Fold(op, base, f, S) = op[<<f[x], Fold(op, base, f, S \ {x})>>]
  <2> DEFINE T == S \ {x}
             k == CHOOSE k : Folding(op, base, f, T, k)
  <2>1. IsFiniteSet(T)
    BY <1>1, FS_Subset
  <2>2. Folding(op, base, f, T, k) /\ Fold(op, base, f, T) = k[T]
    BY <2>1, FoldChosen DEF Fold
  <2>3. T \in SUBSET (S \cap T) /\ Same(f, f, T)
    BY <2>1 DEF Same
  <2> HIDE DEF k, T
  <2>4. h[T] = k[T]
    BY <1>2, <2>1, <2>2, <2>3, FoldsAgree
  <2>5. h[S] = op[<<f[x], h[S \ {x}]>>]
    BY <1>1, <1>2, FoldTakesOut
  <2> QED
    BY <1>2, <2>2, <2>4, <2>5 DEF T
<1> QED
    BY <1>2, <1>3, <1>4, <1>5

LEMMA FoldsEqual ==
    ASSUME NEW op, NEW base, NEW f, NEW g, NEW S, IsFiniteSet(S), \A x \in S : f[x] = g[x]
    PROVE  Fold(op, base, f, S) = Fold(op, base, g, S)
<1> DEFINE h == CHOOSE h : Folding(op, base, f, S, h)
           k == CHOOSE k : Folding(op, base, g, S, k)
<1>1. Folding(op, base, f, S, h) /\ Fold(op, base, f, S) = h[S]
    BY FoldChosen DEF Fold
<1>2. Folding(op, base, g, S, k) /\ Fold(op, base, g, S) = k[S]
    BY FoldChosen DEF Fold
<1>3. S \in SUBSET (S \cap S) /\ Same(f, g, S)
    BY DEF Same
<1> HIDE DEF h, k
<1>4. h[S] = k[S]
    BY <1>1, <1>2, <1>3, FoldsAgree
<1> QED
    BY <1>1, <1>2, <1>4

\* A sum adds, a product multiplies.
Combine(by, a, b) == IF by = "sum" THEN a + b ELSE a * b

Table(by) == [p \in Nat \X Nat |-> Combine(by, p[1], p[2])]

LEMMA TablesCommute ==
    ASSUME NEW by
    PROVE  Commutes(Table(by)) /\ \A a, b \in Nat : Table(by)[<<a, b>>] = Combine(by, a, b)
<1>1. \A a, b \in Nat : Table(by)[<<a, b>>] = Combine(by, a, b)
    BY DEF Table
<1>2. \A a, b \in Nat : a + b \in Nat /\ a * b \in Nat
    OBVIOUS
<1>3. \A a, b, c \in Nat : a + (b + c) = b + (a + c)
    OBVIOUS
<1>4. \A a, b, c \in Nat : a * (b * c) = b * (a * c)
    OBVIOUS
<1>5. CASE by = "sum"
    BY <1>1, <1>2, <1>3, <1>5 DEF Commutes, Combine
<1>6. CASE by # "sum"
    BY <1>1, <1>2, <1>4, <1>6 DEF Commutes, Combine
<1> QED
    BY <1>1, <1>5, <1>6

Sum(f, S)     == FoldFunctionOnSet(Plus, 0, f, S)
Product(f, S) == FoldFunctionOnSet(Times, 1, f, S)

\* The recursion that is evaluated, which asks for no naturals.
Evaluates(by, base, f, S, h) ==
    h = [s \in SUBSET S |-> IF s = {} THEN base ELSE Combine(by, f[Pick(s)], h[s \ {Pick(s)}])]

LEMMA EvaluationIsFold ==
    ASSUME NEW by, NEW base \in Nat, NEW f, NEW S, Naturals(f, S)
    PROVE  (CHOOSE h : Evaluates(by, base, f, S, h))[S] = Fold(Table(by), base, f, S)
<1> DEFINE iter == CHOOSE h : Evaluates(by, base, f, S, h)
           h == CHOOSE h : Folding(Table(by), base, f, S, h)
<1>2. IsFiniteSet(S) /\ \A x \in S : f[x] \in Nat
    BY DEF Naturals
<1>3. Folding(Table(by), base, f, S, h) /\ Fold(Table(by), base, f, S) = h[S]
    BY <1>2, FoldChosen DEF Fold
<1> HIDE DEF h
<1>4. \A U \in SUBSET S : h[U] \in Nat
    BY <1>2, <1>3, FoldNatural, TablesCommute
<1>5. Evaluates(by, base, f, S, h)
  <2>1. \A s \in SUBSET S : s # {} =>
            Table(by)[<<f[Pick(s)], h[s \ {Pick(s)}]>>] = Combine(by, f[Pick(s)], h[s \ {Pick(s)}])
    BY <1>2, <1>4, PickIn, TablesCommute
  <2> QED
    BY <1>3, <2>1 DEF Folding, OneFold, Evaluates
<1>6. Evaluates(by, base, f, S, iter)
    BY <1>5
<1> HIDE DEF iter
<1> DEFINE V == Nat \cup {f[x] : x \in S} \cup {iter[s] : s \in SUBSET S}
           wide == [p \in V \X V |-> Combine(by, p[1], p[2])]
<1>7. \A a, b \in V : wide[<<a, b>>] = Combine(by, a, b)
    OBVIOUS
<1>8. Commutes(wide)
  <2>1. Nat \subseteq V
    OBVIOUS
  <2> HIDE DEF V, wide
  <2>2. \A a, b \in Nat : wide[<<a, b>>] = Table(by)[<<a, b>>]
    BY <1>7, <2>1, TablesCommute
  <2> QED
    BY <2>2, TablesCommute DEF Commutes
<1>9. Folding(wide, base, f, S, iter)
  <2>1. \A s \in SUBSET S : s # {} =>
            wide[<<f[Pick(s)], iter[s \ {Pick(s)}]>>] = Combine(by, f[Pick(s)], iter[s \ {Pick(s)}])
    <3>1. \A s \in SUBSET S : s # {} => f[Pick(s)] \in V /\ iter[s \ {Pick(s)}] \in V
        BY PickIn
    <3> HIDE DEF V, wide
    <3> QED
        BY <1>7, <3>1
  <2> HIDE DEF wide, V
  <2>2. \A s \in SUBSET S :
            (IF s = {} THEN base ELSE Combine(by, f[Pick(s)], iter[s \ {Pick(s)}])) = OneFold(wide, base, f, iter, s)
    BY <2>1 DEF OneFold
  <2> QED
    BY <1>6, <2>2 DEF Folding, Evaluates
<1> HIDE DEF wide, V
<1>10. \A U \in SUBSET S : iter[U] \in Nat
    BY <1>2, <1>8, <1>9, FoldNatural
<1>11. Folding(Table(by), base, f, S, iter)
  <2>1. \A s \in SUBSET S : s # {} =>
            Table(by)[<<f[Pick(s)], iter[s \ {Pick(s)}]>>] = Combine(by, f[Pick(s)], iter[s \ {Pick(s)}])
    BY <1>2, <1>10, PickIn, TablesCommute
  <2>2. \A s \in SUBSET S :
            (IF s = {} THEN base ELSE Combine(by, f[Pick(s)], iter[s \ {Pick(s)}])) = OneFold(Table(by), base, f, iter, s)
    BY <2>1 DEF OneFold
  <2> QED
    BY <1>6, <2>2 DEF Folding, Evaluates
<1>12. S \in SUBSET (S \cap S) /\ Same(f, f, S)
    BY <1>2 DEF Same
<1>13. iter[S] = h[S]
    BY <1>3, <1>11, <1>12, FoldsAgree
<1> QED
    BY <1>3, <1>13 DEF iter

LEMMA SumIsFold ==
    ASSUME NEW f, NEW S, Naturals(f, S)
    PROVE  Sum(f, S) = Fold(Table("sum"), 0, f, S)
<1>1. Sum(f, S) = (CHOOSE h : Evaluates("sum", 0, f, S, h))[S]
    BY DEF Sum, FoldFunctionOnSet, MapThenFoldSet, Plus, Pick, Evaluates, Combine
<1> QED
    BY <1>1, EvaluationIsFold

LEMMA ProductIsFold ==
    ASSUME NEW f, NEW S, Naturals(f, S)
    PROVE  Product(f, S) = Fold(Table("product"), 1, f, S)
<1>1. Product(f, S) = (CHOOSE h : Evaluates("product", 1, f, S, h))[S]
    BY DEF Product, FoldFunctionOnSet, MapThenFoldSet, Times, Pick, Evaluates, Combine
<1> QED
    BY <1>1, EvaluationIsFold

LEMMA SumFacts ==
    ASSUME NEW f, NEW S, Naturals(f, S)
    PROVE  /\ Sum(f, S) \in Nat
           /\ S = {} => Sum(f, S) = 0
           /\ \A x \in S : Sum(f, S \ {x}) \in Nat /\ Sum(f, S) = f[x] + Sum(f, S \ {x})
<1>1. \A x \in S : Naturals(f, S \ {x})
    BY FS_Subset DEF Naturals
<1>2. /\ Fold(Table("sum"), 0, f, S) \in Nat
      /\ S = {} => Fold(Table("sum"), 0, f, S) = 0
      /\ \A x \in S : Fold(Table("sum"), 0, f, S) = Table("sum")[<<f[x], Fold(Table("sum"), 0, f, S \ {x})>>]
    BY FoldFacts, TablesCommute
<1>3. \A x \in S : f[x] \in Nat /\ Fold(Table("sum"), 0, f, S \ {x}) \in Nat
    BY <1>1, FoldFacts, TablesCommute DEF Naturals
<1>4. Sum(f, S) = Fold(Table("sum"), 0, f, S)
    BY SumIsFold
<1>5. \A x \in S : Sum(f, S \ {x}) = Fold(Table("sum"), 0, f, S \ {x})
    BY <1>1, SumIsFold
<1>6. \A a, b \in Nat : Table("sum")[<<a, b>>] = a + b
    BY TablesCommute DEF Combine
<1> QED
    BY <1>2, <1>3, <1>4, <1>5, <1>6

LEMMA ProductFacts ==
    ASSUME NEW f, NEW S, Naturals(f, S)
    PROVE  /\ Product(f, S) \in Nat
           /\ S = {} => Product(f, S) = 1
           /\ \A x \in S : Product(f, S \ {x}) \in Nat /\ Product(f, S) = f[x] * Product(f, S \ {x})
<1>1. \A x \in S : Naturals(f, S \ {x})
    BY FS_Subset DEF Naturals
<1>2. /\ Fold(Table("product"), 1, f, S) \in Nat
      /\ S = {} => Fold(Table("product"), 1, f, S) = 1
      /\ \A x \in S : Fold(Table("product"), 1, f, S) = Table("product")[<<f[x], Fold(Table("product"), 1, f, S \ {x})>>]
    BY FoldFacts, TablesCommute
<1>3. \A x \in S : f[x] \in Nat /\ Fold(Table("product"), 1, f, S \ {x}) \in Nat
    BY <1>1, FoldFacts, TablesCommute DEF Naturals
<1>4. Product(f, S) = Fold(Table("product"), 1, f, S)
    BY ProductIsFold
<1>5. \A x \in S : Product(f, S \ {x}) = Fold(Table("product"), 1, f, S \ {x})
    BY <1>1, ProductIsFold
<1>6. \A a, b \in Nat : Table("product")[<<a, b>>] = a * b
    BY TablesCommute DEF Combine
<1> QED
    BY <1>2, <1>3, <1>4, <1>5, <1>6

LEMMA SumsEqual ==
    ASSUME NEW f, NEW g, NEW S, Naturals(f, S), \A x \in S : f[x] = g[x]
    PROVE  Sum(f, S) = Sum(g, S) /\ Product(f, S) = Product(g, S)
<1>1. IsFiniteSet(S) /\ Naturals(g, S)
    BY DEF Naturals
<1> QED
    BY <1>1, SumIsFold, ProductIsFold, FoldsEqual

\* Numbers that are at least one multiply to one at least.
LEMMA ProductPositive ==
    ASSUME NEW f, NEW S, Naturals(f, S), \A x \in S : f[x] >= 1
    PROVE  Product(f, S) >= 1
<1> DEFINE bad == {U \in SUBSET S : ~(Product(f, U) >= 1)}
<1> SUFFICES ASSUME bad # {} PROVE FALSE
    OBVIOUS
<1>1. \A U \in SUBSET S : IsFiniteSet(U) /\ Naturals(f, U)
    BY FS_Subset DEF Naturals
<1>2. PICK U \in bad : \A x \in U : U \ {x} \notin bad
  <2>1. \A U \in bad : IsFiniteSet(U)
    BY <1>1
  <2> HIDE DEF bad
  <2> QED
    BY <2>1, Smallest
<1>3. U # {}
    BY <1>1, <1>2, ProductFacts
<1>4. PICK x \in U : TRUE
    BY <1>3
<1>5. Product(f, U) = f[x] * Product(f, U \ {x}) /\ Product(f, U \ {x}) \in Nat
    BY <1>1, <1>2, ProductFacts
<1>6. f[x] \in Nat /\ f[x] >= 1 /\ Product(f, U \ {x}) >= 1
    BY <1>2 DEF Naturals
<1>7. \A a, b \in Nat : a >= 1 /\ b >= 1 => a * b >= 1
    OBVIOUS
<1> QED
    BY <1>2, <1>5, <1>6, <1>7


\* Among naturals, finitely many of them, there is a greatest.
LEMMA GreatestNatural ==
    ASSUME NEW T \in SUBSET Nat, IsFiniteSet(T), T # {}
    PROVE  Max(T) \in T /\ \A k \in T : k <= Max(T)
<1> DEFINE bad == {U \in SUBSET T : U # {} /\ ~\E m \in U : \A k \in U : k <= m}
<1>1. bad = {}
  <2> SUFFICES ASSUME bad # {} PROVE FALSE
    OBVIOUS
  <2>1. \A U \in bad : IsFiniteSet(U)
    BY FS_Subset
  <2>2. PICK U \in bad : \A x \in U : U \ {x} \notin bad
    <3> HIDE DEF bad
    <3> QED
        BY <2>1, Smallest
  <2>3. PICK x \in U : TRUE
    BY <2>2
  <2>4. U # {x}
    BY <2>2
  <2>5. PICK m \in U \ {x} : \A k \in U \ {x} : k <= m
    BY <2>2, <2>3, <2>4
  <2>6. x \in Nat /\ m \in Nat /\ \A k \in U : k \in Nat
    BY <2>2, <2>3, <2>5
  <2>7. CASE x <= m
    BY <2>2, <2>3, <2>5, <2>7
  <2>8. CASE m <= x
    BY <2>2, <2>3, <2>5, <2>6, <2>8
  <2> QED
    BY <2>6, <2>7, <2>8
<1>2. \E m \in T : \A k \in T : m >= k
    BY <1>1
<1>3. Max(T) \in T /\ \A k \in T : Max(T) >= k
    BY <1>2 DEF Max
<1> QED
    BY <1>3

-----------------------------------------------------------------------------
(* A larger plan is estimated no lower.                                        *)

NoLower(least, value) ==
    least # Unread => least \in Nat /\ value \in Nat /\ least <= value

Grows(small, large) == NoLower(small.cost, large.cost) /\ NoLower(small.rows, large.rows)

LEMMA RefusedAbove ==
    ASSUME NEW guardrail, NEW small, NEW large, Grows(small, large), Refuses(guardrail, small),
           guardrail.max_cost \in Nat, guardrail.max_rows \in Nat
    PROVE  Refuses(guardrail, large)
<1>1. Compare(small.cost, guardrail.max_cost) = "expensive" => Compare(large.cost, guardrail.max_cost) = "expensive"
    BY GuardrailAssumption DEF Grows, NoLower, Compare
<1>2. Compare(small.rows, guardrail.max_rows) = "expensive" => Compare(large.rows, guardrail.max_rows) = "expensive"
    BY GuardrailAssumption DEF Grows, NoLower, Compare
<1>3. CASE guardrail.mode = "cost"
    BY <1>1, <1>3 DEF Refuses, Verdict
<1>4. CASE guardrail.mode = "rows"
    BY <1>2, <1>4 DEF Refuses, Verdict
<1>5. CASE guardrail.mode \notin {"cost", "rows"}
    BY <1>5 DEF Refuses, Verdict
<1> QED
    BY <1>3, <1>4, <1>5

PgNode  == [cost : Number, rows : Number, recursive : BOOLEAN]
MyStep  == [id : Number, table : BOOLEAN, rows : Number, dependent : BOOLEAN]
ChTable == [rows : Number]

LEMMA Appended ==
    ASSUME NEW S, NEW steps \in Seq(S), NEW p \in S
    PROVE  /\ Len(steps) \in Nat /\ DOMAIN steps = 1 .. Len(steps)
           /\ DOMAIN Append(steps, p) = 1 .. Len(steps) + 1
           /\ Append(steps, p)[Len(steps) + 1] = p
           /\ \A i \in 1 .. Len(steps) : Append(steps, p)[i] = steps[i] /\ steps[i] \in S
           /\ Append(steps, p) # << >>
    OBVIOUS

LEMMA FiniteDomain ==
    ASSUME NEW n \in Nat, NEW T \in SUBSET (1 .. n)
    PROVE  IsFiniteSet(T)
<1>1. IsFiniteSet(1 .. n)
    BY FS_Interval
<1> QED
    BY <1>1, FS_Subset

LEMMA PostgresGrows ==
    ASSUME NEW nodes \in Seq(PgNode), NEW p \in PgNode
    PROVE  Grows(PostgresEstimate(nodes), PostgresEstimate(Append(nodes, p)))
<1> DEFINE n == Len(nodes)
           larger == Append(nodes, p)
           some == {nodes[i].rows : i \in DOMAIN nodes} \ {Unread}
           more == {larger[i].rows : i \in DOMAIN larger} \ {Unread}
<1>1. /\ n \in Nat /\ DOMAIN nodes = 1 .. n /\ DOMAIN larger = 1 .. n + 1 /\ larger[n + 1] = p
      /\ \A i \in 1 .. n : larger[i] = nodes[i] /\ nodes[i] \in PgNode
      /\ larger # << >>
    BY Appended
<1> HIDE DEF larger, n
<1>2. some \subseteq more /\ more \subseteq Nat
  <2>1. \A i \in 1 .. n + 1 : larger[i] \in PgNode
    BY <1>1
  <2> QED
    BY <1>1, <2>1 DEF PgNode, Number
<1>3. IsFiniteSet(more)
  <2>1. IsFiniteSet(1 .. n + 1)
    BY <1>1, FS_Interval
  <2> DEFINE row == [i \in 1 .. n + 1 |-> larger[i].rows]
  <2>3. row \in Surjection(1 .. n + 1, {row[i] : i \in 1 .. n + 1})
    BY DEF Surjection
  <2>4. IsFiniteSet({row[i] : i \in 1 .. n + 1})
    <3> DEFINE rows == {row[i] : i \in 1 .. n + 1}
    <3>1. row \in Surjection(1 .. n + 1, rows)
        BY <2>3
    <3> HIDE DEF row, rows
    <3>2. IsFiniteSet(rows)
        BY <2>1, <3>1, FS_Surjection
    <3> QED
        BY <3>2 DEF rows
  <2>2. IsFiniteSet({larger[i].rows : i \in 1 .. n + 1})
    <3>1. {larger[i].rows : i \in 1 .. n + 1} = {row[i] : i \in 1 .. n + 1}
        OBVIOUS
    <3> QED
        BY <2>4, <3>1
  <2> QED
    BY <1>1, <2>2, FS_Subset
<1>4. some # {} => Max(some) \in Nat /\ Max(more) \in Nat /\ Max(some) <= Max(more)
  <2>1. IsFiniteSet(some)
    BY <1>2, <1>3, FS_Subset
  <2> HIDE DEF some, more
  <2> QED
    BY <1>2, <1>3, <2>1, GreatestNatural
<1>5. nodes # << >> => 1 \in 1 .. n /\ larger[1] = nodes[1] /\ nodes[1] \in PgNode
    BY <1>1 DEF n
<1>6. /\ PostgresEstimate(nodes).cost = (IF nodes = << >> THEN Unread ELSE nodes[1].cost)
      /\ PostgresEstimate(larger).cost = larger[1].cost
      /\ PostgresEstimate(nodes).rows = (IF some = {} THEN Unread ELSE Max(some))
      /\ PostgresEstimate(larger).rows = (IF more = {} THEN Unread ELSE Max(more))
    BY <1>1 DEF PostgresEstimate
<1>7. NoLower(PostgresEstimate(nodes).cost, PostgresEstimate(larger).cost)
    BY <1>5, <1>6 DEF NoLower, PgNode, Number
<1> HIDE DEF some, more
<1>8. NoLower(PostgresEstimate(nodes).rows, PostgresEstimate(larger).rows)
  <2>1. some # {} => more # {}
    BY <1>2
  <2> QED
    BY <1>4, <1>6, <2>1 DEF NoLower
<1> QED
    BY <1>7, <1>8 DEF Grows, larger

LEMMA ClickhouseGrows ==
    ASSUME NEW tables \in Seq(ChTable), NEW p \in ChTable
    PROVE  Grows(ClickhouseEstimate(tables), ClickhouseEstimate(Append(tables, p)))
<1> DEFINE n == Len(tables)
           larger == Append(tables, p)
           some == {i \in DOMAIN tables : tables[i].rows # Unread}
           more == {i \in DOMAIN larger : larger[i].rows # Unread}
           f == [i \in some |-> tables[i].rows]
           g == [i \in more |-> larger[i].rows]
<1>1. /\ n \in Nat /\ DOMAIN tables = 1 .. n /\ DOMAIN larger = 1 .. n + 1 /\ larger[n + 1] = p
      /\ \A i \in 1 .. n : larger[i] = tables[i] /\ tables[i] \in ChTable
      /\ larger # << >>
    BY Appended
<1> HIDE DEF larger, n
<1>2. /\ some \subseteq 1 .. n /\ more \subseteq 1 .. n + 1
      /\ more = IF p.rows = Unread THEN some ELSE some \cup {n + 1}
    BY <1>1
<1>3. /\ \A i \in some : f[i] \in Nat /\ g[i] = f[i]
      /\ \A i \in more : g[i] \in Nat
    BY <1>1, <1>2 DEF ChTable, Number
<1>4. /\ ClickhouseEstimate(tables).rows = (IF tables = << >> THEN Unread ELSE Sum(f, some))
      /\ ClickhouseEstimate(larger).rows = Sum(g, more)
  <2>1. DOMAIN f = some /\ DOMAIN g = more
    OBVIOUS
  <2>2. ClickhouseEstimate(tables).rows =
            (IF tables = << >> THEN Unread ELSE FoldFunctionOnSet(Plus, 0, f, DOMAIN f))
    BY DEF ClickhouseEstimate, FoldFunction, Unestimated
  <2>3. ClickhouseEstimate(larger).rows = FoldFunctionOnSet(Plus, 0, g, DOMAIN g)
    BY <1>1 DEF ClickhouseEstimate, FoldFunction, Unestimated
  <2> HIDE DEF f, g, some, more
  <2> QED
    BY <2>1, <2>2, <2>3 DEF Sum
<1> HIDE DEF f, g, some, more
<1>5. Naturals(f, some) /\ Naturals(g, some) /\ Naturals(g, more)
  <2>1. IsFiniteSet(some)
    BY <1>1, <1>2, FiniteDomain
  <2>2. IsFiniteSet(more)
    <3>1. n + 1 \in Nat /\ more \in SUBSET (1 .. n + 1)
        BY <1>1, <1>2
    <3> QED
        BY <3>1, FiniteDomain
  <2>3. \A i \in some : g[i] \in Nat
    BY <1>3
  <2> QED
    BY <1>3, <2>1, <2>2, <2>3 DEF Naturals
<1>6. Sum(f, some) \in Nat /\ Sum(g, some) = Sum(f, some) /\ Sum(g, more) \in Nat
    BY <1>3, <1>5, SumFacts, SumsEqual
<1>7. Sum(f, some) <= Sum(g, more)
  <2>1. CASE p.rows = Unread
    BY <1>2, <1>6, <2>1
  <2>2. CASE p.rows # Unread
    <3>1. n + 1 \in more /\ more \ {n + 1} = some
        BY <1>1, <1>2, <2>2
    <3>2. Sum(g, more) = g[n + 1] + Sum(g, some) /\ g[n + 1] \in Nat
        BY <1>3, <1>5, <3>1, SumFacts
    <3> QED
        BY <1>6, <3>2
  <2> QED
    BY <2>1, <2>2
<1>8. ClickhouseEstimate(tables).cost = Unread
    BY DEF ClickhouseEstimate, Unestimated
<1> QED
    BY <1>4, <1>6, <1>7, <1>8 DEF Grows, NoLower, larger

-----------------------------------------------------------------------------
(* MySQL: the selects of a plan, and the one a further step joins.             *)

\* The steps of one select are dependent together.
Alike(steps, p) == \A i \in DOMAIN steps : steps[i].id = p.id => steps[i].dependent = p.dependent

Rows(steps) == [i \in Counted(steps) |-> StepRows(steps[i])]

AtLeastOne(n) == IF n >= 1 THEN n ELSE 1

LEMMA MaxWithOne == \A n \in Nat : Max({n, 1}) = AtLeastOne(n)
<1> SUFFICES ASSUME NEW n \in Nat PROVE Max({n, 1}) = AtLeastOne(n)
    OBVIOUS
<1> DEFINE two == {n, 1}
<1>1. IsFiniteSet(two)
  <2>1. IsFiniteSet({n}) /\ two = {n} \cup {1}
    BY FS_Singleton
  <2> QED
    BY <2>1, FS_AddElement
<1>2. two \in SUBSET Nat /\ two # {}
    OBVIOUS
<1>3. Max(two) \in two /\ \A k \in two : k <= Max(two)
  <2> HIDE DEF two
  <2> QED
    BY <1>1, <1>2, GreatestNatural
<1>4. \A m \in two : (\A k \in two : k <= m) => m = AtLeastOne(n)
    BY DEF AtLeastOne
<1> QED
    BY <1>3, <1>4

LEMMA StepRowsPositive == \A p \in MyStep : StepRows(p) \in Nat /\ StepRows(p) >= 1
<1> SUFFICES ASSUME NEW p \in MyStep PROVE StepRows(p) \in Nat /\ StepRows(p) >= 1
    OBVIOUS
<1>1. CASE p.rows = Unread
    BY <1>1 DEF StepRows
<1>2. CASE p.rows # Unread
  <2>1. p.rows \in Nat
    BY <1>2 DEF MyStep, Number
  <2> QED
    BY <1>2, <2>1, MaxWithOne DEF StepRows, AtLeastOne
<1> QED
    BY <1>1, <1>2

\* What the selects of a plan come to.
LEMMA Selects ==
    ASSUME NEW steps \in Seq(MyStep)
    PROVE  /\ IsFiniteSet(Ids(steps))
           /\ \A id : /\ Naturals(Rows(steps), Group(steps, id))
                      /\ Joined(steps, id) = Product(Rows(steps), Group(steps, id))
                      /\ Joined(steps, id) \in Nat /\ Joined(steps, id) >= 1
<1> DEFINE n == Len(steps)
<1>1. n \in Nat /\ DOMAIN steps = 1 .. n /\ \A i \in 1 .. n : steps[i] \in MyStep
    OBVIOUS
<1>2. Counted(steps) \in SUBSET (1 .. n)
    BY <1>1 DEF Counted
<1> HIDE DEF n
<1>3. IsFiniteSet(Counted(steps))
    BY <1>1, <1>2, FiniteDomain
<1>4. IsFiniteSet(Ids(steps))
  <2> DEFINE named == [i \in Counted(steps) |-> steps[i].id]
             all == Ids(steps)
  <2>1. named \in Surjection(Counted(steps), all)
    BY DEF Surjection, Ids
  <2> HIDE DEF named, all
  <2>2. IsFiniteSet(all)
    BY <1>3, <2>1, FS_Surjection
  <2> QED
    BY <2>2 DEF all
<1>5. ASSUME NEW id
      PROVE  /\ Naturals(Rows(steps), Group(steps, id))
             /\ Joined(steps, id) = Product(Rows(steps), Group(steps, id))
             /\ Joined(steps, id) \in Nat /\ Joined(steps, id) >= 1
  <2>1. Group(steps, id) \in SUBSET Counted(steps)
    BY DEF Group
  <2>2. IsFiniteSet(Group(steps, id))
    BY <1>3, <2>1, FS_Subset
  <2>3. \A i \in Group(steps, id) : Rows(steps)[i] \in Nat /\ Rows(steps)[i] >= 1
    BY <1>1, <1>2, <2>1, StepRowsPositive DEF Rows
  <2>4. Naturals(Rows(steps), Group(steps, id))
    BY <2>2, <2>3 DEF Naturals
  <2>5. Joined(steps, id) = Product(Rows(steps), Group(steps, id))
    BY DEF Joined, Product, Rows
  <2> QED
    BY <2>3, <2>4, <2>5, ProductFacts, ProductPositive
<1> QED
    BY <1>4, <1>5

\* The selects that are added, those that multiply, and what they come to.
Once(steps)   == [id \in Ids(steps) |-> IF Repeats(steps, id) THEN 0 ELSE Joined(steps, id)]
PerRow(steps) == [id \in Ids(steps) |-> IF Repeats(steps, id) THEN Joined(steps, id) ELSE 1]

LEMMA EstimateRows ==
    ASSUME NEW steps \in Seq(MyStep)
    PROVE  /\ MySqlEstimate(steps).cost = Unread
           /\ Naturals(Once(steps), Ids(steps)) /\ Naturals(PerRow(steps), Ids(steps))
           /\ MySqlEstimate(steps).rows =
                  IF Ids(steps) = {} THEN Unread
                  ELSE AtLeastOne(Sum(Once(steps), Ids(steps))) * Product(PerRow(steps), Ids(steps))
<1>1. Naturals(Once(steps), Ids(steps)) /\ Naturals(PerRow(steps), Ids(steps))
    BY Selects DEF Naturals, Once, PerRow
<1>2. DOMAIN Once(steps) = Ids(steps) /\ DOMAIN PerRow(steps) = Ids(steps)
    BY DEF Once, PerRow
<1>3. MySqlEstimate(steps) =
          [Unestimated EXCEPT !.rows =
              IF Ids(steps) = {} THEN Unread
              ELSE Max({FoldFunctionOnSet(Plus, 0, Once(steps), DOMAIN Once(steps)), 1})
                       * FoldFunctionOnSet(Times, 1, PerRow(steps), DOMAIN PerRow(steps))]
    BY Zenon DEF MySqlEstimate, FoldFunction, Once, PerRow
<1>4. MySqlEstimate(steps) =
          [Unestimated EXCEPT !.rows =
              IF Ids(steps) = {} THEN Unread
              ELSE Max({Sum(Once(steps), Ids(steps)), 1}) * Product(PerRow(steps), Ids(steps))]
    BY <1>2, <1>3 DEF Sum, Product
<1>5. Sum(Once(steps), Ids(steps)) \in Nat
    BY <1>1, SumFacts
<1> DEFINE total == Max({Sum(Once(steps), Ids(steps)), 1}) * Product(PerRow(steps), Ids(steps))
<1>6. total = AtLeastOne(Sum(Once(steps), Ids(steps))) * Product(PerRow(steps), Ids(steps))
    BY <1>5, MaxWithOne
<1>7. MySqlEstimate(steps) = [Unestimated EXCEPT !.rows = IF Ids(steps) = {} THEN Unread ELSE total]
    BY <1>4
<1> HIDE DEF total
<1>8. /\ MySqlEstimate(steps).cost = Unread
      /\ MySqlEstimate(steps).rows = IF Ids(steps) = {} THEN Unread ELSE total
    BY <1>7 DEF Unestimated
<1> QED
    BY <1>1, <1>6, <1>8

\* A step that is not counted changes nothing.
LEMMA Uncounted ==
    ASSUME NEW steps \in Seq(MyStep), NEW p \in MyStep, ~Counts(p)
    PROVE  /\ Ids(Append(steps, p)) = Ids(steps)
           /\ Once(Append(steps, p)) = Once(steps) /\ PerRow(Append(steps, p)) = PerRow(steps)
<1> DEFINE n == Len(steps)
           larger == Append(steps, p)
<1>1. /\ n \in Nat /\ DOMAIN steps = 1 .. n /\ DOMAIN larger = 1 .. n + 1 /\ larger[n + 1] = p
      /\ \A i \in 1 .. n : larger[i] = steps[i] /\ steps[i] \in MyStep
    BY Appended
<1> HIDE DEF larger, n
<1>2. Counted(larger) = Counted(steps) /\ Counted(steps) \subseteq 1 .. n
    BY <1>1 DEF Counted
<1>3. Ids(larger) = Ids(steps)
    BY <1>1, <1>2 DEF Ids
<1>4. [i \in Counted(larger) |-> StepRows(larger[i])] = [i \in Counted(steps) |-> StepRows(steps[i])]
    BY <1>1, <1>2
<1>5. \A id : Group(larger, id) = Group(steps, id)
    BY <1>1, <1>2 DEF Group
<1>6. \A id : Joined(larger, id) = Joined(steps, id)
    BY <1>4, <1>5 DEF Joined
<1>7. \A id : Repeats(larger, id) <=> Repeats(steps, id)
    BY <1>1, <1>2, <1>5, <1>6 DEF Repeats, Group
<1>8. Once(larger) = Once(steps) /\ PerRow(larger) = PerRow(steps)
    BY <1>3, <1>6, <1>7 DEF Once, PerRow
<1> QED
    BY <1>3, <1>8 DEF larger

\* A step that is counted multiplies the rows of its own select.
LEMMA Joins ==
    ASSUME NEW steps \in Seq(MyStep), NEW p \in MyStep, Counts(p)
    PROVE  /\ Ids(Append(steps, p)) = Ids(steps) \cup {p.id}
           /\ Joined(Append(steps, p), p.id) = StepRows(p) * Joined(steps, p.id)
           /\ p.id \notin Ids(steps) => Joined(steps, p.id) = 1
           /\ \A id : id # p.id => /\ Joined(Append(steps, p), id) = Joined(steps, id)
                                   /\ Repeats(Append(steps, p), id) <=> Repeats(steps, id)
<1> DEFINE n == Len(steps)
           larger == Append(steps, p)
<1>1. /\ n \in Nat /\ DOMAIN steps = 1 .. n /\ DOMAIN larger = 1 .. n + 1 /\ larger[n + 1] = p
      /\ \A i \in 1 .. n : larger[i] = steps[i] /\ steps[i] \in MyStep
      /\ larger \in Seq(MyStep)
    BY Appended
<1> HIDE DEF larger, n
<1>2. Counted(larger) = Counted(steps) \cup {n + 1} /\ Counted(steps) \subseteq 1 .. n
    BY <1>1 DEF Counted
<1>3. Ids(larger) = Ids(steps) \cup {p.id}
    BY <1>1, <1>2 DEF Ids
<1>4. \A i \in Counted(steps) : Rows(larger)[i] = Rows(steps)[i]
    BY <1>1, <1>2 DEF Rows
<1>5. Rows(larger)[n + 1] = StepRows(p)
    BY <1>1, <1>2 DEF Rows
<1>6. ASSUME NEW id PROVE Product(Rows(larger), Group(steps, id)) = Joined(steps, id)
  <2>1. Naturals(Rows(steps), Group(steps, id)) /\ Joined(steps, id) = Product(Rows(steps), Group(steps, id))
    BY Selects
  <2>2. \A i \in Group(steps, id) : Rows(steps)[i] = Rows(larger)[i]
    BY <1>4 DEF Group
  <2> QED
    BY <2>1, <2>2, SumsEqual
<1>7. \A id : id # p.id => Group(larger, id) = Group(steps, id)
    BY <1>1, <1>2 DEF Group
<1>8. n + 1 \in Group(larger, p.id) /\ Group(larger, p.id) \ {n + 1} = Group(steps, p.id)
    BY <1>1, <1>2 DEF Group
<1>9. Joined(larger, p.id) = StepRows(p) * Joined(steps, p.id)
  <2>1. /\ Naturals(Rows(larger), Group(larger, p.id))
        /\ Joined(larger, p.id) = Product(Rows(larger), Group(larger, p.id))
    BY <1>1, Selects
  <2>2. Product(Rows(larger), Group(larger, p.id)) =
            Rows(larger)[n + 1] * Product(Rows(larger), Group(larger, p.id) \ {n + 1})
    BY <1>8, <2>1, ProductFacts
  <2> QED
    BY <1>5, <1>6, <1>8, <2>1, <2>2
<1>10. ASSUME NEW id, id # p.id PROVE Joined(larger, id) = Joined(steps, id)
    BY <1>1, <1>6, <1>7, <1>10, Selects
<1>11. ASSUME NEW id, id # p.id PROVE Repeats(larger, id) <=> Repeats(steps, id)
  <2>1. \A i \in Group(steps, id) : larger[i].dependent = steps[i].dependent
    BY <1>1, <1>2 DEF Group
  <2> QED
    BY <1>7, <1>10, <1>11, <2>1 DEF Repeats
<1>12. ASSUME p.id \notin Ids(steps) PROVE Joined(steps, p.id) = 1
  <2>1. Group(steps, p.id) = {}
    BY <1>12 DEF Group, Ids
  <2> QED
    BY <2>1, Selects, ProductFacts
<1> QED
    BY <1>3, <1>9, <1>10, <1>11, <1>12 DEF larger

\* A select that joins on stays dependent if it was, and does not become so.
LEMMA StaysDependent ==
    ASSUME NEW steps \in Seq(MyStep), NEW p \in MyStep, Counts(p), Alike(steps, p)
    PROVE  /\ Repeats(Append(steps, p), p.id) <=>
                  p.dependent /\ Joined(Append(steps, p), p.id) > 1
           /\ p.id \in Ids(steps) => (Repeats(steps, p.id) <=> p.dependent /\ Joined(steps, p.id) > 1)
<1> DEFINE n == Len(steps)
           larger == Append(steps, p)
<1>1. /\ n \in Nat /\ DOMAIN steps = 1 .. n /\ DOMAIN larger = 1 .. n + 1 /\ larger[n + 1] = p
      /\ \A i \in 1 .. n : larger[i] = steps[i] /\ steps[i] \in MyStep
    BY Appended
<1> HIDE DEF larger, n
<1>2. \A i \in DOMAIN larger : larger[i].id = p.id => larger[i].dependent = p.dependent
    BY <1>1 DEF Alike
<1>3. n + 1 \in Group(larger, p.id)
    BY <1>1 DEF Group, Counted
<1>4. (\E i \in Group(larger, p.id) : larger[i].dependent) <=> p.dependent
    BY <1>1, <1>2, <1>3 DEF Group, Counted
<1>5. ASSUME p.id \in Ids(steps)
      PROVE  (\E i \in Group(steps, p.id) : steps[i].dependent) <=> p.dependent
    BY <1>5 DEF Group, Counted, Ids, Alike
<1> QED
    BY <1>4, <1>5 DEF Repeats, larger

\* What growing a select does to the total: more rows each way, or one row that
\* was added now multiplies by two at least.
LEMMA TotalGrows ==
    ASSUME NEW a \in Nat, NEW b \in Nat, NEW c \in Nat, NEW d \in Nat, NEW rest \in Nat, NEW times \in Nat,
           (a <= c /\ b <= d) \/ (a = 1 /\ b = 1 /\ d >= 2)
    PROVE  /\ AtLeastOne(a + rest) * (b * times) <= AtLeastOne(c + rest) * (d * times)
           /\ AtLeastOne(a + rest) * (b * times) \in Nat
           /\ AtLeastOne(c + rest) * (d * times) \in Nat
<1>1. \A x, y, z \in Nat : x <= y => x * z <= y * z /\ z * x <= z * y
    OBVIOUS
<1>2. \A x, y \in Nat : x * y \in Nat
    OBVIOUS
<1>3. AtLeastOne(a + rest) \in Nat /\ AtLeastOne(c + rest) \in Nat
    BY DEF AtLeastOne
<1>4. CASE a <= c /\ b <= d
  <2>1. AtLeastOne(a + rest) <= AtLeastOne(c + rest)
    BY <1>4 DEF AtLeastOne
  <2>2. b * times <= d * times /\ b * times \in Nat /\ d * times \in Nat
    BY <1>1, <1>2, <1>4
  <2>3. AtLeastOne(a + rest) * (b * times) <= AtLeastOne(c + rest) * (b * times)
    BY <1>1, <1>3, <2>1, <2>2
  <2>4. AtLeastOne(c + rest) * (b * times) <= AtLeastOne(c + rest) * (d * times)
    BY <1>1, <1>3, <2>2
  <2>5. /\ AtLeastOne(a + rest) * (b * times) \in Nat
        /\ AtLeastOne(c + rest) * (b * times) \in Nat
        /\ AtLeastOne(c + rest) * (d * times) \in Nat
    BY <1>2, <1>3, <2>2
  <2> QED
    BY <2>3, <2>4, <2>5
<1>5. CASE a = 1 /\ b = 1 /\ d >= 2
  <2> DEFINE most == AtLeastOne(c + rest)
  <2>1. a + rest <= 2 * most /\ AtLeastOne(a + rest) = a + rest /\ b * times = times
    BY <1>5 DEF AtLeastOne
  <2>2. most \in Nat /\ 2 * most \in Nat /\ 2 * times \in Nat
    BY <1>3
  <2> HIDE DEF most
  <2>3. (a + rest) * times <= (2 * most) * times
    BY <1>1, <2>1, <2>2
  <2>4. (2 * most) * times = most * (2 * times)
    BY <2>2
  <2>5. 2 * times <= d * times /\ d * times \in Nat
    BY <1>1, <1>2, <1>5
  <2>6. most * (2 * times) <= most * (d * times)
    BY <1>1, <2>2, <2>5
  <2>7. (a + rest) * times \in Nat /\ most * (2 * times) \in Nat /\ most * (d * times) \in Nat
    BY <1>2, <2>2, <2>5
  <2>8. (a + rest) * times <= most * (d * times)
    BY <2>3, <2>4, <2>6, <2>7
  <2> QED
    BY <2>1, <2>7, <2>8 DEF most
<1> QED
    BY <1>4, <1>5

LEMMA MySqlGrows ==
    ASSUME NEW steps \in Seq(MyStep), NEW p \in MyStep, Alike(steps, p)
    PROVE  Grows(MySqlEstimate(steps), MySqlEstimate(Append(steps, p)))
<1> DEFINE larger == Append(steps, p)
           old == Ids(steps)
           rest == old \ {p.id}
<1>1. larger \in Seq(MyStep)
    OBVIOUS
<1>2. /\ MySqlEstimate(steps).cost = Unread
      /\ Naturals(Once(steps), old) /\ Naturals(PerRow(steps), old)
      /\ MySqlEstimate(steps).rows =
             IF old = {} THEN Unread ELSE AtLeastOne(Sum(Once(steps), old)) * Product(PerRow(steps), old)
    BY EstimateRows
<1> HIDE DEF larger
<1>3. /\ MySqlEstimate(larger).cost = Unread
      /\ Naturals(Once(larger), Ids(larger)) /\ Naturals(PerRow(larger), Ids(larger))
      /\ MySqlEstimate(larger).rows =
             IF Ids(larger) = {} THEN Unread
             ELSE AtLeastOne(Sum(Once(larger), Ids(larger))) * Product(PerRow(larger), Ids(larger))
    BY <1>1, EstimateRows
<1>4. CASE ~Counts(p)
  <2>1. Ids(larger) = old /\ Once(larger) = Once(steps) /\ PerRow(larger) = PerRow(steps)
    BY <1>4, Uncounted DEF larger
  <2>2. Sum(Once(steps), old) \in Nat /\ Product(PerRow(steps), old) \in Nat
    BY <1>2, SumFacts, ProductFacts
  <2>3. \A x, y \in Nat : AtLeastOne(x) * y \in Nat
    BY DEF AtLeastOne
  <2>4. AtLeastOne(Sum(Once(steps), old)) * Product(PerRow(steps), old) \in Nat
    BY <2>2, <2>3
  <2> QED
    BY <1>2, <1>3, <2>1, <2>4 DEF Grows, NoLower, larger
<1>5. CASE Counts(p)
  <2> DEFINE J == Joined(steps, p.id)
             r == StepRows(p)
             A == Sum(Once(steps), rest)
             B == Product(PerRow(steps), rest)
  <2>1. /\ Ids(larger) = old \cup {p.id} /\ Joined(larger, p.id) = r * J
        /\ p.id \notin old => J = 1
        /\ \A id : id # p.id => /\ Joined(larger, id) = Joined(steps, id)
                                /\ Repeats(larger, id) <=> Repeats(steps, id)
    BY <1>5, Joins DEF larger
  <2>2. /\ Repeats(larger, p.id) <=> p.dependent /\ r * J > 1
        /\ p.id \in old => (Repeats(steps, p.id) <=> p.dependent /\ J > 1)
    BY <1>5, <2>1, StaysDependent DEF larger
  <2>3. J \in Nat /\ J >= 1 /\ r \in Nat /\ r >= 1
    BY Selects, StepRowsPositive
  <2>4. r * J \in Nat /\ r * J >= J
    <3>1. \A x, y \in Nat : x >= 1 => x * y \in Nat /\ x * y >= y
        OBVIOUS
    <3> QED
        BY <2>3, <3>1
  <2>5. rest \subseteq old /\ Ids(larger) \ {p.id} = rest /\ p.id \in Ids(larger)
    BY <2>1
  <2>6. Naturals(Once(steps), rest) /\ Naturals(PerRow(steps), rest)
    BY <1>2, <2>5, FS_Subset DEF Naturals
  <2>7. A \in Nat /\ B \in Nat
    BY <2>6, SumFacts, ProductFacts
  <2>8. \A id \in rest : Once(steps)[id] = Once(larger)[id] /\ PerRow(steps)[id] = PerRow(larger)[id]
    BY <2>1, <2>5 DEF Once, PerRow
  <2>9. Sum(Once(larger), rest) = A /\ Product(PerRow(larger), rest) = B
    BY <2>6, <2>8, SumsEqual
  <2> DEFINE c == Once(larger)[p.id]
             d == PerRow(larger)[p.id]
             a == IF p.id \in old THEN Once(steps)[p.id] ELSE 0
             b == IF p.id \in old THEN PerRow(steps)[p.id] ELSE 1
  <2>10. Sum(Once(larger), Ids(larger)) = c + A /\ Product(PerRow(larger), Ids(larger)) = d * B
    BY <1>3, <2>5, <2>9, SumFacts, ProductFacts
  <2>11. Sum(Once(steps), old) = a + A /\ Product(PerRow(steps), old) = b * B
    <3>1. CASE p.id \in old
        BY <1>2, <3>1, SumFacts, ProductFacts
    <3>2. CASE p.id \notin old
      <4>1. rest = old
        BY <3>2
      <4>2. A = Sum(Once(steps), old) /\ B = Product(PerRow(steps), old)
        <5> HIDE DEF rest
        <5> QED
            BY <4>1
      <4>3. a = 0 /\ b = 1
        BY <3>2
      <4> HIDE DEF a, b, A, B
      <4> QED
        BY <2>7, <4>2, <4>3
    <3> QED
        BY <3>1, <3>2
  <2>12. /\ c = (IF p.dependent /\ r * J > 1 THEN 0 ELSE r * J)
         /\ d = (IF p.dependent /\ r * J > 1 THEN r * J ELSE 1)
         /\ p.id \in old => /\ a = (IF p.dependent /\ J > 1 THEN 0 ELSE J)
                            /\ b = (IF p.dependent /\ J > 1 THEN J ELSE 1)
    BY <2>1, <2>2, <2>5 DEF Once, PerRow
  <2>13. /\ a \in Nat /\ b \in Nat /\ c \in Nat /\ d \in Nat
         /\ (a <= c /\ b <= d) \/ (a = 1 /\ b = 1 /\ d >= 2)
    <3> DEFINE K == r * J
    <3>1. K \in Nat /\ K >= J /\ J \in Nat /\ J >= 1
        BY <2>3, <2>4
    <3>2. p.dependent \in BOOLEAN
        BY DEF MyStep
    <3>3. /\ c = (IF p.dependent /\ K > 1 THEN 0 ELSE K)
          /\ d = (IF p.dependent /\ K > 1 THEN K ELSE 1)
          /\ p.id \in old => /\ a = (IF p.dependent /\ J > 1 THEN 0 ELSE J)
                             /\ b = (IF p.dependent /\ J > 1 THEN J ELSE 1)
          /\ p.id \notin old => a = 0 /\ b = 1
        BY <2>12
    <3> HIDE DEF K, J, a, b, c, d
    <3> QED
        BY <3>1, <3>2, <3>3
  <2> HIDE DEF a, b, c, d, A, B, J, r
  <2>14. /\ AtLeastOne(a + A) * (b * B) <= AtLeastOne(c + A) * (d * B)
         /\ AtLeastOne(a + A) * (b * B) \in Nat
         /\ AtLeastOne(c + A) * (d * B) \in Nat
    BY <2>7, <2>13, TotalGrows
  <2>15. Ids(larger) # {}
    BY <2>5
  <2> QED
    BY <1>2, <1>3, <2>10, <2>11, <2>14, <2>15 DEF Grows, NoLower, larger
<1> QED
    BY <1>4, <1>5

-----------------------------------------------------------------------------
(* The plan that is judged.                                                    *)

\* Thresholds are numbers, whatever the config says of them.
LEMMA ThresholdsAreNumbers ==
    ASSUME Given, Known
    PROVE  OwnGuardrail.max_cost \in Nat /\ OwnGuardrail.max_rows \in Nat
<1> DEFINE key == "guardrail.max_rows"
           cell == file.text[key]
<1>1. key \in PolicyKeys /\ key \in Keys /\ key \in NumberKeys /\ key \notin ListKeys /\ key \notin SecretKeys
    BY DEF PolicyKeys, Keys, NumberKeys, ListKeys, SecretKeys, DirKeys
<1>2. conf[key] = cell.lit
    BY <1>1, PolicyIsLiteral
<1>3. cell.form \in {"absent", "number"}
  <2>1. Forms(key) = {"absent"} \cup {"number"}
    BY DEF Forms, NumberKeys, ListKeys, SecretKeys, DirKeys, SwitchKeys
  <2>2. cell.form \in Forms(key)
    BY <1>1 DEF Known, WrongForm
  <2> QED
    BY <2>1, <2>2
<1>4. /\ cell.form = "absent" => cell = Missing
      /\ cell.form = "number" => cell.lit \in Nat
    BY <1>1, InputsAssumption DEF Given
<1>5. conf[key] = Absent \/ conf[key] \in Nat
    BY <1>2, <1>3, <1>4 DEF Missing
<1>6. /\ OwnGuardrail.max_cost = DefaultMaxCost
      /\ OwnGuardrail.max_rows =
             IF conf[key] = Absent \/ conf[key] = Unread THEN DefaultMaxRows ELSE conf[key]
    BY DEF OwnGuardrail, Guardrail, Section
<1> QED
    BY <1>5, <1>6, GuardrailAssumption

\* A plan that was got is one the engine may answer, under a config that loaded.
Measured ==
    planned.fate = "got" =>
        /\ pc \notin {"read", "load"} /\ Known
        /\ planned.plan \in Plans(conf.engine)

LEMMA AnswersArePlans ==
    ASSUME NEW answered \in Answers, answered.fate = "got"
    PROVE  answered.plan \in Plans(conf.engine)
    BY DEF Answers

LEMMA NotPlannedIsNot == NotPlanned.fate # "got"
<1>1. NotPlanned.fate = None
    BY DEF NotPlanned
<1>2. None # "got"
    BY DEF None
<1> QED
    BY <1>1, <1>2

LEMMA NextMeasured == Governed /\ Measured /\ [Next]_vars => Measured'
<1> SUFFICES ASSUME Governed, Measured, [Next]_vars PROVE Measured'
    OBVIOUS
<1>1. CASE AskPlan \/ RunQuery
  <2>1. conf' = conf /\ file' = file /\ pc = "ask" /\ pc' = "finish"
    BY <1>1 DEF AskPlan, RunQuery, Ends
  <2>2. Known
    BY <2>1 DEF Governed, Loaded
  <2>3. planned' \in Answers \/ planned' = NotPlanned
    BY <1>1 DEF AskPlan, RunQuery
  <2>4. planned'.fate = "got" => planned'.plan \in Plans(conf.engine)
    BY <2>3, AnswersArePlans, NotPlannedIsNot
  <2> QED
    BY <2>1, <2>2, <2>4 DEF Measured, Known
<1>2. CASE UNCHANGED planned /\ (ReadConfig \/ LoadConfig)
    BY <1>2 DEF ReadConfig, LoadConfig, Measured
<1>3. CASE UNCHANGED planned /\ (Onward \/ UNCHANGED vars)
    BY <1>3 DEF Onward, vars, Measured, Known
<1>4. AskPlan \/ RunQuery \/ UNCHANGED planned
    BY DEF Next, ReadConfig, LoadConfig, ResolveCwd, ListConnections, LookupAlias, CheckScope,
           BuildEngine, ResolveUrl, ResolvePassword, EnterCommand, Layer1, OpenTunnel, StartRuntime,
           Connect, Catalogue, Diagnose, Record, Emit, Over, vars
<1> QED
    BY <1>1, <1>2, <1>3, <1>4, LaterSteps

LEMMA MeasuredAlways == Spec => []Measured
<1>1. Init => Measured
    BY NotPlannedIsNot DEF Init, Measured
<1> QED
    BY <1>1, GovernedAlways, NextMeasured, PTL DEF Spec

LEMMA ShapesOfPlans ==
    /\ Plans("postgres") \subseteq Seq(PgNode)
    /\ \A engine \in MySqlLike : Plans(engine) \subseteq Seq(MyStep)
    /\ Plans("clickhouse") \subseteq Seq(ChTable)
    BY PlansAssumption DEF SqlEngines, PlanShape, MySqlLike, PgNode, MyStep, ChTable

LEMMA FirstOfOne ==
    ASSUME NEW S, NEW q \in Seq(S), Len(q) = 1 PROVE q[1] \in S
    OBVIOUS

\* What grows is estimated no lower.
LEMMA EstimateGrows ==
    ASSUME NEW engine, NEW plan \in Plans(engine), NEW larger \in Grown(engine, plan),
           Refuses(OwnGuardrail, Estimate(engine, plan))
    PROVE  Grows(Estimate(engine, plan), Estimate(engine, larger))
<1>1. PICK q \in Plans(engine) :
          /\ Len(q) = 1 /\ larger = Append(plan, q[1])
          /\ engine \in MySqlLike => Alike(plan, q[1])
    BY DEF Grown, Alike
<1>2. CASE engine = "postgres"
  <2>1. plan \in Seq(PgNode) /\ q[1] \in PgNode
    BY <1>1, <1>2, ShapesOfPlans, FirstOfOne
  <2>2. \A any : Estimate(engine, any) = PostgresEstimate(any)
    BY <1>2 DEF Estimate, MySqlLike
  <2> QED
    BY <1>1, <2>1, <2>2, PostgresGrows
<1>3. CASE engine \in MySqlLike
  <2>1. plan \in Seq(MyStep) /\ q[1] \in MyStep
    BY <1>1, <1>3, ShapesOfPlans, FirstOfOne
  <2>2. \A any : Estimate(engine, any) = MySqlEstimate(any)
    BY <1>3 DEF Estimate, MySqlLike
  <2> QED
    BY <1>1, <1>3, <2>1, <2>2, MySqlGrows
<1>4. CASE engine = "clickhouse"
  <2>1. plan \in Seq(ChTable) /\ q[1] \in ChTable
    BY <1>1, <1>4, ShapesOfPlans, FirstOfOne
  <2>2. \A any : Estimate(engine, any) = ClickhouseEstimate(any)
    BY <1>4 DEF Estimate, MySqlLike
  <2> QED
    BY <1>1, <2>1, <2>2, ClickhouseGrows
<1>5. CASE engine \notin {"postgres", "clickhouse"} \cup MySqlLike
  <2>1. \A any : Estimate(engine, any) = Unestimated
    BY <1>5 DEF Estimate
  <2> QED
    BY <2>1 DEF Unestimated, Grows, NoLower
<1> QED
    BY <1>2, <1>3, <1>4, <1>5

\* A plan that grows by a node, a step or a table stays refused, for plans of any
\* length and any thresholds (postgres_estimate, mysql_estimate, Clickhouse::plan
\* and Guardrail::check).
THEOREM RefusedStaysRefused == Spec => []GrownStaysRefused
<1>1. Governed /\ Measured => GrownStaysRefused
  <2> SUFFICES ASSUME Governed, Measured, planned.fate = "got",
                      Refuses(OwnGuardrail, Estimate(conf.engine, planned.plan)),
                      NEW grown \in Grown(conf.engine, planned.plan)
               PROVE  Refuses(OwnGuardrail, Estimate(conf.engine, grown))
    BY DEF GrownStaysRefused
  <2>1. Known /\ planned.plan \in Plans(conf.engine)
    BY DEF Measured
  <2>2. OwnGuardrail.max_cost \in Nat /\ OwnGuardrail.max_rows \in Nat
    BY <2>1, ThresholdsAreNumbers DEF Governed
  <2>3. Grows(Estimate(conf.engine, planned.plan), Estimate(conf.engine, grown))
    BY <2>1, EstimateGrows
  <2> QED
    BY <2>2, <2>3, RefusedAbove
<1> QED
    BY <1>1, GovernedAlways, MeasuredAlways, PTL
=============================================================================
