------------------------------ MODULE Queries ------------------------------
(***************************************************************************)
(* The queries of the repository, run by one of the engines: "tectorwise", *)
(* the vectorised one (qXX_vectorwise), or "typer", the compiled one       *)
(* (qXX_hyper), with their workers or threads in any order.  Both are to   *)
(* give the answer of the benchmark's query, with the constants of the     *)
(* code, which are those that the tests expect; the comments in the code   *)
(* give others in places, see CommentSql.  Q6 is there for the             *)
(* "dispatcher" of OpenCL kernels, too.                                    *)
(***************************************************************************)
EXTENDS Ssb, Tpch, TectorwisePipeline, TyperPipeline, DispatcherQuery

CONSTANTS
  QueryNames,    \* the queries to be run
  Engines,       \* and the engines
  Configs,       \* what conf and the vector size may be
  Databases(_, _)   \* and the databases for a query and an engine

VARIABLES query, engine, db   \* and conf, of Tectorwise

vars == <<query, engine, db, conf, tectorwiseVars, typerVars, dispatcherVars>>

Plans == [
   q11 |-> Q11Plan, q12 |-> Q12Plan, q13 |-> Q13Plan, q21 |-> Q21Plan,
   q22 |-> Q22Plan, q23 |-> Q23Plan, q31 |-> Q31Plan, q32 |-> Q32Plan,
   q33 |-> Q33Plan, q34 |-> Q34Plan, q41 |-> Q41Plan, q42 |-> Q42Plan,
   q43 |-> Q43Plan, q1 |-> Q1Plan, q3 |-> Q3Plan, q5 |-> Q5Plan, q6 |-> Q6Plan,
   q9 |-> Q9Plan, q18 |-> Q18Plan, q5_no_sel |-> Q5NoSelPlan,
   q18group |-> Q18GroupPlan]

Hyper(q, d) ==
  CASE q = "q11" -> Q11Hyper(d)
    [] q = "q12" -> Q12Hyper(d)
    [] q = "q13" -> Q13Hyper(d)
    [] q = "q21" -> Q21Hyper(d)
    [] q = "q22" -> Q22Hyper(d)
    [] q = "q23" -> Q23Hyper(d)
    [] q = "q31" -> Q31Hyper(d)
    [] q = "q32" -> Q32Hyper(d)
    [] q = "q33" -> Q33Hyper(d)
    [] q = "q34" -> Q34Hyper(d)
    [] q = "q41" -> Q41Hyper(d)
    [] q = "q42" -> Q42Hyper(d)
    [] q = "q43" -> Q43Hyper(d)
    [] q = "q1" -> Q1Hyper(d)
    [] q = "q3" -> Q3Hyper(d)
    [] q = "q5" -> Q5Hyper(d)
    [] q = "q6" -> Q6Hyper(d)
    [] q = "q9" -> Q9Hyper(d)
    [] q = "q18" -> Q18Hyper(d)
    [] q = "q5_no_sel" -> Q5NoSelHyper(d)

\* The query that the engine answers.  The SQL of the repository is in comments, which
\* have been copied from one query to the next: the constants are therefore those of
\* qXX_hyper() and of the builders (Queries.hpp), for which src/test has the answers.
\* Q5 without selections groups by nation in Tectorwise only, and has no test.
Sql(q, e, d) ==
  CASE q = "q5_no_sel" -> IF e = "typer" THEN Q5NoSelSql(d) ELSE Q5NoSelByNationSql(d)
    [] q = "q18group" -> LargeOrders(d)
    [] q = "q11" -> Q11Sql(d)
    [] q = "q12" -> Q12Sql(d)
    [] q = "q13" -> Q13Sql(d)
    [] q = "q21" -> Q21Sql(d)
    [] q = "q22" -> Q22Sql(d)
    [] q = "q23" -> Q23Sql(d)
    [] q = "q31" -> Q31Sql(d)
    [] q = "q32" -> Q32Sql(d)
    [] q = "q33" -> Q33Sql(d)
    [] q = "q34" -> Q34Sql(d)
    [] q = "q41" -> Q41Sql(d)
    [] q = "q42" -> Q42Sql(d)
    [] q = "q43" -> Q43Sql(d)
    [] q = "q1" -> Q1Sql(d)
    [] q = "q3" -> Q3Sql(d)
    [] q = "q5" -> Q5Sql(d)
    [] q = "q6" -> Q6Sql(d)
    [] q = "q9" -> Q9Sql(d)
    [] q = "q18" -> Q18Sql(d)

\* The query that the comments beside the code of q give.  In places they are those of
\* another query: in front of both forms q23.cpp:21-28 is that of Q2.1 and
\* q5_no_sel.cpp:18-34 that of the compiled form; of the compiled form q33.cpp:21-29 and
\* q34.cpp:21-29 are Q3.2; of the plan q34.cpp:187-197 is Q3.3, and for the steps in
\* q12.cpp and q13.cpp see CommentSqlOfFlight1.
CommentSql(q, e, d) ==
  CASE q \in {"q12", "q13"} /\ e = "tectorwise" -> CommentSqlOfFlight1(d)
    [] q = "q23" -> Q21Sql(d)
    [] q \in {"q33", "q34"} /\ e = "typer" -> Q32Sql(d)
    [] q = "q34" /\ e = "tectorwise" -> Q33Sql(d)
    [] q = "q5_no_sel" -> Q5NoSelSql(d)
    [] OTHER -> Sql(q, e, d)

Init ==
  /\ query \in QueryNames
  /\ engine \in Engines
  /\ engine = "typer" => query # "q18group"    \* there is no such compiled query
  /\ engine = "dispatcher" => query = "q6"
  /\ db \in Databases(query, engine)
  /\ conf \in Configs
  /\ engine # "tectorwise" => conf = CHOOSE c \in Configs : TRUE   \* they do not use it
  /\ TectorwiseInit
  /\ TyperInit
  /\ DispatcherInit

RunTectorwise ==
  /\ engine = "tectorwise"
  /\ StartTectorwise(Plans[query], db) \/ TectorwiseNext
  /\ UNCHANGED <<query, engine, db, conf, typerVars, dispatcherVars>>

RunTyper ==
  /\ engine = "typer"
  /\ StartTyper(Hyper(query, db)) \/ TyperNext
  /\ UNCHANGED <<query, engine, db, conf, tectorwiseVars, dispatcherVars>>

RunDispatcher ==
  /\ engine = "dispatcher"
  /\ StartDispatcher(db) \/ DispatcherNext
  /\ UNCHANGED <<query, engine, db, conf, tectorwiseVars, typerVars>>

Finished == "done" \in {stage, phase, device} \/ pc = "crashed"

Next ==
  \/ RunTectorwise
  \/ RunTyper
  \/ RunDispatcher
  \/ Finished /\ UNCHANGED vars

Spec == Init /\ [][Next]_vars

----------------------------------------------------------------------------
\* The rows in a sequence are those of a set, each once.
SameRows(rows, set) == ToSet(rows) = set /\ Len(rows) = Cardinality(set)

\* The rows that an engine returns for a query: tbb::parallel_reduce gives a total of
\* no rows as zero.
Expected(rows) ==
  IF engine = "typer" /\ pipe.total /\ rows = {} THEN {[a \in ToSet(pipe.vals) |-> 0]} ELSE rows

\* The vectorised query answers the SQL query with its constants: no operator reads a
\* vector through the selection vector of another, no row is lost between
\* operators, vectors, workers and partitions, and none is counted twice.
TectorwiseAnswers ==
  engine = "tectorwise" /\ phase = "done" => SameRows(B!Rows(result), Expected(Sql(query, engine, db)))

\* The compiled query answers the SQL query with its constants, whichever threads take the
\* morsels and the partitions, and however often the tables are spilled.
TyperAnswers ==
  engine = "typer" /\ stage = "done" => SameRows(TyperRows, Expected(Sql(query, engine, db)))

\* No worker and no thread writes behind the end of a block of the result: a block
\* is asked for with the rows to come, and what a worker has left of an old one is
\* used for a vector that fits into it only.
BlocksFit == B!Fits(result) /\ B!Fits(output)


\* The query answers what the comments beside its code say.  It does not where these
\* are of another query, and no run has this property: see README.md.
AnswersTheComment ==
  LET rows == Expected(CommentSql(query, engine, db))
  IN  /\ engine = "tectorwise" /\ phase = "done" => SameRows(B!Rows(result), rows)
      /\ engine = "typer" /\ stage = "done" => SameRows(TyperRows, rows)

\* What q6Dispatcher() returns, and testQ6() of tpch/run.cpp prints as the revenue
\* beside those of the other engines, is the revenue of Q6.  It is not, and no run
\* has this property: see README.md.
DispatcherAnswers ==
  engine = "dispatcher" /\ device = "done" =>
    answer = UInt(MapThenSumSet(LAMBDA row : row.revenue, Sql(query, engine, db)))
=============================================================================
