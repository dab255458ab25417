--------------------------- MODULE GuardrailRules ---------------------------
(***************************************************************************)
(* The cost guardrail: which modes an engine can honour, what a config may     *)
(* say, the number read off each engine's plan, and the verdict on it          *)
(* (src/guardrail.rs). A plan is what the server sends, reduced to what is     *)
(* read of it: PostgreSQL a tree of nodes, in preorder; MySQL and MariaDB the  *)
(* access steps of a classic EXPLAIN; ClickHouse the tables of an EXPLAIN      *)
(* ESTIMATE; the others publish no number.                                     *)
(***************************************************************************)
EXTENDS Refusals

CONSTANTS
    Unread,             \* a cell that holds no number, and a number there is none of
    DefaultMaxCost,     \* DEFAULT_MAX_COST and DEFAULT_MAX_ROWS, scaled down
    DefaultMaxRows

ASSUME GuardrailAssumption ==
    /\ DefaultMaxCost \in Nat \ {0} /\ DefaultMaxRows \in Nat \ {0}
    /\ Unread \notin Nat

MySqlLike == {"mysql", "mariadb"}

Number == Nat \cup {Unread}

\* The plans of an engine that are measured.
PlanShape(engine) ==
    CASE engine = "postgres" -> Seq([cost : Number, rows : Number, recursive : BOOLEAN])
      [] engine \in MySqlLike -> Seq([id : Number, table : BOOLEAN, rows : Number, dependent : BOOLEAN])
      [] engine = "clickhouse" -> Seq([rows : Number])
      [] OTHER -> {<< >>}

DefaultMode(engine) ==
    CASE engine = "postgres" -> "cost"
      [] engine \in MySqlLike \cup {"clickhouse"} -> "rows"
      [] OTHER -> "off"

SupportedModes(engine) ==
    CASE engine = "postgres" -> {"cost", "rows", "off"}
      [] engine \in MySqlLike \cup {"clickhouse"} -> {"rows", "off"}
      [] OTHER -> {"off"}

(***************************************************************************)
(* A [guardrail] section: mode None is no mode, a threshold Unread is none.    *)
(***************************************************************************)
ModeOf(engine, section) ==
    IF section.mode = None THEN DefaultMode(engine) ELSE section.mode

SectionObjections(engine, section) ==
    LET mode == ModeOf(engine, section)
    IN  FirstRefusal(<<
            When(mode \notin {"cost", "rows", "off"}, "UNKNOWN_MODE"),
            When(mode \notin SupportedModes(engine), "UNSUPPORTED_MODE"),
            When(section.max_cost # Unread /\ mode # "cost", "UNREAD_THRESHOLD"),
            When(section.max_rows # Unread /\ mode # "rows", "UNREAD_THRESHOLD"),
            When(section.max_cost = 0 \/ section.max_rows = 0, "NO_THRESHOLD") >>)

Guardrail(engine, section) ==
    [mode     |-> ModeOf(engine, section),
     max_cost |-> IF section.max_cost = Unread THEN DefaultMaxCost ELSE section.max_cost,
     max_rows |-> IF section.max_rows = Unread THEN DefaultMaxRows ELSE section.max_rows]

(***************************************************************************)
(* What is read off a plan.                                                    *)
(***************************************************************************)
Unestimated == [cost |-> Unread, rows |-> Unread, lower_bound |-> FALSE]

PostgresEstimate(nodes) ==
    LET counted == {nodes[i].rows : i \in DOMAIN nodes} \ {Unread}
    IN  [cost |-> IF nodes = << >> THEN Unread ELSE nodes[1].cost,
         rows |-> IF counted = {} THEN Unread ELSE Max(counted),
         lower_bound |-> \E i \in DOMAIN nodes : nodes[i].recursive]

Plus(a, b) == a + b
Times(a, b) == a * b

\* A bug: an estimate of no rows is taken at its word.
StepRows_Zero(step) == IF step.rows = Unread THEN 1 ELSE step.rows

\* A step that reads no table is one row; one whose count cannot be read is none.
StepRows(step) == IF step.rows = Unread THEN 1 ELSE Max({step.rows, 1})

Counts(step) == step.rows # Unread \/ ~step.table

\* The steps that count, the selects they belong to, and what a select joins.
Counted(steps) == {i \in DOMAIN steps : Counts(steps[i])}

Ids(steps) == {steps[i].id : i \in Counted(steps)}

Group(steps, id) == {i \in Counted(steps) : steps[i].id = id}

Joined(steps, id) ==
    FoldFunctionOnSet(Times, 1, [i \in Counted(steps) |-> StepRows(steps[i])], Group(steps, id))

\* Re-run for every row of the rest; one row is added, for times one is nothing.
Repeats(steps, id) == Joined(steps, id) > 1 /\ \E i \in Group(steps, id) : steps[i].dependent

MySqlEstimate(steps) ==
    LET once   == [id \in Ids(steps) |-> IF Repeats(steps, id) THEN 0 ELSE Joined(steps, id)]
        perRow == [id \in Ids(steps) |-> IF Repeats(steps, id) THEN Joined(steps, id) ELSE 1]
        total  == Max({FoldFunction(Plus, 0, once), 1}) * FoldFunction(Times, 1, perRow)
    IN  [Unestimated EXCEPT !.rows = IF Ids(steps) = {} THEN Unread ELSE total]

ClickhouseEstimate(tables) ==
    LET counted == {i \in DOMAIN tables : tables[i].rows # Unread}
    IN  [Unestimated EXCEPT !.rows =
            IF tables = << >> THEN Unread
            ELSE FoldFunction(Plus, 0, [i \in counted |-> tables[i].rows])]

Estimate(engine, plan) ==
    CASE engine = "postgres"  -> PostgresEstimate(plan)
      [] engine \in MySqlLike -> MySqlEstimate(plan)
      [] engine = "clickhouse" -> ClickhouseEstimate(plan)
      [] OTHER -> Unestimated

(***************************************************************************)
(* The verdict.                                                                *)
(***************************************************************************)
Compare(value, threshold) ==
    CASE value = Unread -> "no_estimate"
      [] value # Unread /\ value > threshold -> "expensive"
      [] OTHER -> "ok"

\* A lower bound over the limit is proof; one under it promises nothing.
Verdict(guardrail, estimate) ==
    LET measured == CASE guardrail.mode = "cost" -> Compare(estimate.cost, guardrail.max_cost)
                      [] guardrail.mode = "rows" -> Compare(estimate.rows, guardrail.max_rows)
                      [] OTHER -> "no_estimate"
    IN  IF measured = "ok" /\ estimate.lower_bound THEN "no_estimate" ELSE measured

Refuses(guardrail, estimate) == Verdict(guardrail, estimate) = "expensive"

PlansFirst(guardrail) == guardrail.mode # "off"

=============================================================================
