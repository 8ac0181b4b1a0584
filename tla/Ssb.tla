-------------------------------- MODULE Ssb ---------------------------------
(***************************************************************************)
(* The queries of the Star Schema Benchmark (src/benchmarks/sbb/queries,   *)
(* q11.cpp to q43.cpp).  For each query: the Tectorwise plan of            *)
(* getQuery(), the compiled pipeline of qXX_hyper(), and the SQL query of  *)
(* the benchmark with the constants of the code, which the expected        *)
(* answers in src/test are made for (ssb_expected.cpp).  The comments in   *)
(* the code agree, but for those that have been copied unchanged: two      *)
(* steps in q12 and q13 (flight 1 has no other SQL), the SQL in q23 and    *)
(* q34, and the first one in q33.  See CommentSql in module Queries.       *)
(* Discounts and prices have two digits behind the point: 100 is 1.00.     *)
(***************************************************************************)
EXTENDS Tectorwise, Relational

-----------------------------------------------------------------------------
\* Flight 1, Q1.1 to Q1.3, and flight 2.

Revenue(lo) == lo.lo_extendedprice * lo.lo_discount

\* The operators from the join on; sel is the selection vector of the dates.
JoinAndSum(sel) == <<
  HashJoin("join_result", <<
    setProbeSelVector("sel_discount_high"),
    addBuildKey(S(sel, "d_datekey")),
    addProbeKey(S("sel_discount_high", "lo_orderdate"))>>),
  Project(<<Proj("result_project", "*", S("join_result", "lo_extendedprice"),
                 S("join_result", "lo_discount"))>>),
  FixedAggregation("revenue", C("result_project"))>>

\* The scan of lineorder by qXX_hyper(): ht has the dates, lineorders are the rows
\* that pass the tests of the loop.
SumRevenue(db, ht, lineorders) ==
  Pipeline(ForEach(db.lineorder, [lo \in {lo \in lineorders : Has(ht, lo.lo_orderdate)} |->
                                    Entry(<<>>, <<Revenue(lo)>>)]),
           <<>>, <<"revenue">>, TRUE)

----------------------------------------------------------------------------
Q11Plan == <<
  Scan("date"),
  Select(<<Sel("sel_year", "=", C("d_year"), V(1993))>>),
  Scan("lineorder"),
  Select(<<Sel("sel_qty", "<", C("lo_quantity"), V(25)),
           Sel("sel_discount_low", ">=", S("sel_qty", "lo_discount"), V(100)),
           Sel("sel_discount_high", "<=", S("sel_discount_low", "lo_discount"), V(300))>>)>>
  \o JoinAndSum("sel_year")

Q11Hyper(db) ==
  LET ht == Build({Key(d.d_datekey) : d \in {d \in ToSet(db.date) : d.d_year = 1993}})
  IN  SumRevenue(db, ht, {lo \in ToSet(db.lineorder) :
                            /\ lo.lo_quantity < 25
                            /\ lo.lo_discount >= 100 /\ lo.lo_discount <= 300})

\* select sum(lo_extendedprice * lo_discount) as revenue from lineorder, date
\* where lo_orderdate = d_datekey and d_year = 1993
\*   and lo_discount between 1 and 3 and lo_quantity < 25
Q11Sql(db) ==
  Summed({t \in [lo : ToSet(db.lineorder), d : ToSet(db.date)] :
            /\ t.lo.lo_orderdate = t.d.d_datekey
            /\ t.d.d_year = 1993
            /\ t.lo.lo_discount \in 100..300
            /\ t.lo.lo_quantity < 25},
         LAMBDA t : [revenue |-> Revenue(t.lo)])

----------------------------------------------------------------------------
Q12Plan == <<
  Scan("date"),
  Select(<<Sel("sel_year", "=", C("d_yearmonthnum"), V(199401))>>),
  Scan("lineorder"),
  Select(<<Sel("sel_qty_high", "<=", C("lo_quantity"), V(35)),
           Sel("sel_qty_low", ">=", S("sel_qty_high", "lo_quantity"), V(26)),
           Sel("sel_discount_low", ">=", S("sel_qty_low", "lo_discount"), V(400)),
           Sel("sel_discount_high", "<=", S("sel_discount_low", "lo_discount"), V(600))>>)>>
  \o JoinAndSum("sel_year")

Q12Hyper(db) ==
  LET ht == Build({Key(d.d_datekey) : d \in {d \in ToSet(db.date) : d.d_yearmonthnum = 199401}})
  IN  SumRevenue(db, ht, {lo \in ToSet(db.lineorder) :
                            /\ lo.lo_quantity >= 26 /\ lo.lo_quantity <= 35
                            /\ lo.lo_discount >= 400 /\ lo.lo_discount <= 600})

\* ... where d_yearmonthnum = 199401 and lo_discount between 4 and 6
\*       and lo_quantity between 26 and 35
Q12Sql(db) ==
  Summed({t \in [lo : ToSet(db.lineorder), d : ToSet(db.date)] :
            /\ t.lo.lo_orderdate = t.d.d_datekey
            /\ t.d.d_yearmonthnum = 199401
            /\ t.lo.lo_discount \in 400..600
            /\ t.lo.lo_quantity \in 26..35},
         LAMBDA t : [revenue |-> Revenue(t.lo)])

----------------------------------------------------------------------------
Q13Plan == <<
  Scan("date"),
  Select(<<Sel("sel_year", "=", C("d_year"), V(1994)),
           Sel("sel_week", "=", S("sel_year", "d_weeknuminyear"), V(6))>>),
  Scan("lineorder"),
  Select(<<Sel("sel_qty_high", "<=", C("lo_quantity"), V(35)),
           Sel("sel_qty_low", ">=", S("sel_qty_high", "lo_quantity"), V(26)),
           Sel("sel_discount_low", ">=", S("sel_qty_low", "lo_discount"), V(500)),
           Sel("sel_discount_high", "<=", S("sel_discount_low", "lo_discount"), V(700))>>)>>
  \o JoinAndSum("sel_week")

Q13Hyper(db) ==
  LET ht == Build({Key(d.d_datekey) :
                     d \in {d \in ToSet(db.date) : d.d_year = 1994 /\ d.d_weeknuminyear = 6}})
  IN  SumRevenue(db, ht, {lo \in ToSet(db.lineorder) :
                            /\ lo.lo_quantity >= 26 /\ lo.lo_quantity <= 35
                            /\ lo.lo_discount >= 500 /\ lo.lo_discount <= 700})

\* ... where d_weeknuminyear = 6 and d_year = 1994 and lo_discount between 5 and 7
\*       and lo_quantity between 26 and 35
Q13Sql(db) ==
  Summed({t \in [lo : ToSet(db.lineorder), d : ToSet(db.date)] :
            /\ t.lo.lo_orderdate = t.d.d_datekey
            /\ t.d.d_weeknuminyear = 6 /\ t.d.d_year = 1994
            /\ t.lo.lo_discount \in 500..700
            /\ t.lo.lo_quantity \in 26..35},
         LAMBDA t : [revenue |-> Revenue(t.lo)])

\* What the comments in Q12Builder::getQuery (q12.cpp:105, 112) and in
\* Q13Builder::getQuery (q13.cpp:108, 120) say the steps of both select: "select
\* d_yearmonthnum = 199401", "select lo_discount between 1 and 3, lo_quantity between
\* 26 and 35".
CommentSqlOfFlight1(db) ==
  Summed({t \in [lo : ToSet(db.lineorder), d : ToSet(db.date)] :
            /\ t.lo.lo_orderdate = t.d.d_datekey
            /\ t.d.d_yearmonthnum = 199401
            /\ t.lo.lo_discount \in 100..300
            /\ t.lo.lo_quantity \in 26..35},
         LAMBDA t : [revenue |-> Revenue(t.lo)])

----------------------------------------------------------------------------
(***************************************************************************)
(* Flight 2: Q2.1 - Q2.3 (q21.cpp - q23.cpp).  The queries differ in what  *)
(* they ask of part and in the region of the supplier.                     *)
(***************************************************************************)
\* The plan: sel_part is the selection vector that partSteps fill in the end.
Flight2Plan(partSteps, sel_part, region) == <<
  Scan("date"),
  Scan("supplier"),
  Select(<<Sel("sel_supplier", "=", C("s_region"), V(region))>>),
  Scan("part"),
  Select(partSteps),
  Scan("lineorder"),
  HashJoin("lineorder_part", <<
    addBuildKey(S(sel_part, "p_partkey")),
    addBuildValue(S(sel_part, "p_brand1"), "p_brand1"),
    addProbeKey(C("lo_partkey"))>>),
  HashJoin("lineorder_supplier", <<
    addBuildKey(S("sel_supplier", "s_suppkey")),
    pushProbeSelVector("lineorder_part", "lineorder_supplier_line"),
    addProbeKeyEq(S("lineorder_part", "lo_suppkey"), "lineorder_supplier_line")>>),
  HashJoin("lineorder_date", <<
    addBuildKey(C("d_datekey")),
    addBuildValue(C("d_year"), "d_year"),
    pushProbeSelVector("lineorder_supplier", "lineorder_date_part"),
    pushProbeSelVector("lineorder_supplier_line", "lineorder_supplier_date"),
    addProbeKeyEq(S("lineorder_supplier_line", "lo_orderdate"), "lineorder_supplier_date")>>),
  HashGroup(<<
    addKey(C("d_year"), "d_year"),
    pushKeySelVec("lineorder_date_part", "lineorder_date_part_grouped"),
    addKeySel(S("lineorder_date_part", "p_brand1"), "lineorder_date_part_grouped", "p_brand1"),
    addValue(S("lineorder_supplier_date", "lo_revenue"), "sum_revenue")>>),
  Result([revenue |-> "sum_revenue", d_year |-> "d_year", p_brand1 |-> "p_brand1"])>>

\* The compiled query; parts are those that pass its test.
Flight2Hyper(db, parts, region) ==
  LET ht1 == Build({Entry(d.d_datekey, d.d_year) : d \in ToSet(db.date)})
      ht2 == Build({Key(s.s_suppkey) : s \in {s \in ToSet(db.supplier) : s.s_region = region}})
      ht3 == Build({Entry(p.p_partkey, p.p_brand1) : p \in parts})
      joins(lo) == Has(ht3, lo.lo_partkey) /\ Has(ht2, lo.lo_suppkey) /\ Has(ht1, lo.lo_orderdate)
  IN  Pipeline(ForEach(db.lineorder, [lo \in {lo \in ToSet(db.lineorder) : joins(lo)} |->
                         Entry(<<ht3[lo.lo_partkey], ht1[lo.lo_orderdate]>>,
                               <<lo.lo_revenue>>)]),
               <<"p_brand1", "d_year">>, <<"revenue">>, FALSE)

\* select sum(lo_revenue) as revenue, d_year, p_brand1 from lineorder, date, part, supplier
\* where lo_orderdate = d_datekey and lo_partkey = p_partkey and lo_suppkey = s_suppkey
\*   and ... and s_region = ... group by d_year, p_brand1
Flight2Sql(db, IsRelevant(_), region) ==
  GroupedBy(UNION {[lo : {lo},
                    d : {d \in ToSet(db.date) : lo.lo_orderdate = d.d_datekey},
                    p : {p \in ToSet(db.part) : lo.lo_partkey = p.p_partkey /\ IsRelevant(p)},
                    s : {s \in ToSet(db.supplier) :
                           lo.lo_suppkey = s.s_suppkey /\ s.s_region = region}] :
                     lo \in ToSet(db.lineorder)},
            LAMBDA t : [d_year |-> t.d.d_year, p_brand1 |-> t.p.p_brand1],
            LAMBDA t : [revenue |-> t.lo.lo_revenue])

----------------------------------------------------------------------------
\* Q2.1: p_category = 'MFGR#12', s_region = 'AMERICA'.  The names of categories
\* and brands are their numbers.
Q21Plan == Flight2Plan(<<Sel("sel_part", "=", C("p_category"), V(12))>>, "sel_part", "AMERICA")
Q21Hyper(db) == Flight2Hyper(db, {p \in ToSet(db.part) : p.p_category = 12}, "AMERICA")
Q21Sql(db) == Flight2Sql(db, LAMBDA p : p.p_category = 12, "AMERICA")

\* Q2.2: p_brand1 between 'MFGR#2221' and 'MFGR#2228', s_region = 'ASIA'.
Q22Plan ==
  Flight2Plan(<<Sel("sel_part_max", "<=", C("p_brand1"), V(2228)),
                Sel("sel_part_min", ">=", S("sel_part_max", "p_brand1"), V(2221))>>,
              "sel_part_min", "ASIA")
Q22Hyper(db) ==
  Flight2Hyper(db, {p \in ToSet(db.part) : p.p_brand1 <= 2228 /\ p.p_brand1 >= 2221}, "ASIA")
Q22Sql(db) == Flight2Sql(db, LAMBDA p : p.p_brand1 \in 2221..2228, "ASIA")

\* Q2.3: p_brand1 = 'MFGR#2221', s_region = 'EUROPE' (the constants of the code,
\* q23.cpp:52 and Queries.hpp:208; the comment in front of it is that of Q2.1).
Q23Plan == Flight2Plan(<<Sel("sel_part", "=", C("p_brand1"), V(2221))>>, "sel_part", "EUROPE")
Q23Hyper(db) == Flight2Hyper(db, {p \in ToSet(db.part) : p.p_brand1 = 2221}, "EUROPE")
Q23Sql(db) == Flight2Sql(db, LAMBDA p : p.p_brand1 = 2221, "EUROPE")

-----------------------------------------------------------------------------
\* Flight 3, Q3.1 to Q3.4.  The queries differ in the dates, in what they ask of
\* customer and supplier, and in whether they group by nations or by cities.

\* The plan: dateSteps fill sel_date; the customers and suppliers are those with
\* attribute c_test (s_test) op value, and give c_key (s_key) to the group.
Flight3Plan(dateSteps, sel_date, c_test, s_test, op, value, c_key, s_key) == <<
  Scan("date"),
  Select(dateSteps),
  Scan("supplier"),
  Select(<<Sel("sel_supplier", op, C(s_test), V(value))>>),
  Scan("customer"),
  Select(<<Sel("sel_customer", op, C(c_test), V(value))>>),
  Scan("lineorder"),
  HashJoin("lineorder_customer", <<
    addBuildKey(S("sel_customer", "c_custkey")),
    addBuildValue(S("sel_customer", c_key), c_key),
    addProbeKey(C("lo_custkey"))>>),
  HashJoin("lineorder_supplier", <<
    addBuildKey(S("sel_supplier", "s_suppkey")),
    addBuildValue(S("sel_supplier", s_key), s_key),
    pushProbeSelVector("lineorder_customer", "lineorder_supplier_line"),
    addProbeKeyEq(S("lineorder_customer", "lo_suppkey"), "lineorder_supplier_line")>>),
  HashJoin("lineorder_date", <<
    addBuildKey(S(sel_date, "d_datekey")),
    addBuildValue(S(sel_date, "d_year"), "d_year"),
    pushProbeSelVector("lineorder_supplier", "lineorder_date_customer"),
    pushProbeSelVector("lineorder_supplier_line", "lineorder_supplier_date"),
    addProbeKeyEq(S("lineorder_supplier_line", "lo_orderdate"), "lineorder_supplier_date")>>),
  HashGroup(<<
    addKey(C("d_year"), "d_year"),
    pushKeySelVec("lineorder_date_customer", "lineorder_date_part_grouped"),
    addKeySel(S("lineorder_date_customer", c_key), "lineorder_date_part_grouped", c_key),
    pushKeySelVec("lineorder_date", "lineorder_date_supplier_grouped"),
    addKeySel(S("lineorder_date", s_key), "lineorder_date_supplier_grouped", s_key),
    addValue(S("lineorder_supplier_date", "lo_revenue"), "sum_revenue")>>),
  Result([a \in {"revenue", "d_year", c_key, s_key} |->
            IF a = "revenue" THEN "sum_revenue" ELSE a])>>

\* The compiled query: the dates, customers and suppliers that pass its tests.
Flight3Hyper(db, dates, customers, suppliers, c_key, s_key) ==
  LET ht1 == Build({Entry(d.d_datekey, d.d_year) : d \in dates})
      ht2 == Build({Entry(s.s_suppkey, s[s_key]) : s \in suppliers})
      ht3 == Build({Entry(c.c_custkey, c[c_key]) : c \in customers})
      joins(lo) == Has(ht3, lo.lo_custkey) /\ Has(ht2, lo.lo_suppkey) /\ Has(ht1, lo.lo_orderdate)
  IN  Pipeline(ForEach(db.lineorder, [lo \in {lo \in ToSet(db.lineorder) : joins(lo)} |->
                         Entry(<<ht3[lo.lo_custkey], ht2[lo.lo_suppkey], ht1[lo.lo_orderdate]>>,
                               <<lo.lo_revenue>>)]),
               <<c_key, s_key, "d_year">>, <<"revenue">>, FALSE)

\* select c_key, s_key, d_year, sum(lo_revenue) as revenue
\* from customer, lineorder, supplier, date
\* where lo_custkey = c_custkey and lo_suppkey = s_suppkey and lo_orderdate = d_datekey
\*   and ... group by c_key, s_key, d_year
Flight3Sql(db, DateTest(_), CustomerTest(_), SupplierTest(_), c_key, s_key) ==
  GroupedBy(UNION {[lo : {lo},
                    d : {d \in ToSet(db.date) : lo.lo_orderdate = d.d_datekey /\ DateTest(d)},
                    c : {c \in ToSet(db.customer) : lo.lo_custkey = c.c_custkey /\ CustomerTest(c)},
                    s : {s \in ToSet(db.supplier) : lo.lo_suppkey = s.s_suppkey /\ SupplierTest(s)}] :
                     lo \in ToSet(db.lineorder)},
            LAMBDA t : (c_key :> t.c[c_key]) @@ (s_key :> t.s[s_key])
                       @@ [d_year |-> t.d.d_year],
            LAMBDA t : [revenue |-> t.lo.lo_revenue])

Years == <<Sel("sel_year_max", "<=", C("d_year"), V(1997)),
           Sel("sel_year_min", ">=", S("sel_year_max", "d_year"), V(1992))>>
InYears(db) == {d \in ToSet(db.date) : d.d_year >= 1992 /\ d.d_year <= 1997}

Customers(db, attribute, values) == {c \in ToSet(db.customer) : c[attribute] \in values}
Suppliers(db, attribute, values) == {s \in ToSet(db.supplier) : s[attribute] \in values}

----------------------------------------------------------------------------
\* Q3.1: customers and suppliers of ASIA, by nation.
Q31Plan ==
  Flight3Plan(Years, "sel_year_min", "c_region", "s_region", "=", "ASIA", "c_nation", "s_nation")
Q31Hyper(db) ==
  Flight3Hyper(db, InYears(db), Customers(db, "c_region", {"ASIA"}),
               Suppliers(db, "s_region", {"ASIA"}), "c_nation", "s_nation")
Q31Sql(db) ==
  Flight3Sql(db, LAMBDA d : d.d_year \in 1992..1997, LAMBDA c : c.c_region = "ASIA",
             LAMBDA s : s.s_region = "ASIA", "c_nation", "s_nation")

\* Q3.2: customers and suppliers of the UNITED STATES, by city.
Q32Plan ==
  Flight3Plan(Years, "sel_year_min", "c_nation", "s_nation", "=", "UNITED STATES",
              "c_city", "s_city")
Q32Hyper(db) ==
  Flight3Hyper(db, InYears(db), Customers(db, "c_nation", {"UNITED STATES"}),
               Suppliers(db, "s_nation", {"UNITED STATES"}), "c_city", "s_city")
Q32Sql(db) ==
  Flight3Sql(db, LAMBDA d : d.d_year \in 1992..1997, LAMBDA c : c.c_nation = "UNITED STATES",
             LAMBDA s : s.s_nation = "UNITED STATES", "c_city", "s_city")

\* Q3.3: two cities of the UNITED KINGDOM (q33.cpp:186-197; the comment in front of
\* the compiled query, 21-29, is that of Q3.2).
Q33Plan ==
  Flight3Plan(Years, "sel_year_min", "c_city", "s_city", "or", {"UNITED KI1", "UNITED KI5"},
              "c_city", "s_city")
Q33Hyper(db) ==
  Flight3Hyper(db, InYears(db), Customers(db, "c_city", {"UNITED KI1", "UNITED KI5"}),
               Suppliers(db, "s_city", {"UNITED KI1", "UNITED KI5"}), "c_city", "s_city")
Q33Sql(db) ==
  Flight3Sql(db, LAMBDA d : d.d_year \in 1992..1997,
             LAMBDA c : c.c_city \in {"UNITED KI1", "UNITED KI5"},
             LAMBDA s : s.s_city \in {"UNITED KI1", "UNITED KI5"}, "c_city", "s_city")

\* Q3.4: the same in one month (a constant of the code, q34.cpp:53 and Queries.hpp:370;
\* the comments are those of Q3.2 and Q3.3).
Q34Plan ==
  Flight3Plan(<<Sel("sel_year", "=", C("d_yearmonth"), V("Dec1997"))>>, "sel_year",
              "c_city", "s_city", "or", {"UNITED KI1", "UNITED KI5"}, "c_city", "s_city")
Q34Hyper(db) ==
  Flight3Hyper(db, {d \in ToSet(db.date) : d.d_yearmonth = "Dec1997"},
               Customers(db, "c_city", {"UNITED KI1", "UNITED KI5"}),
               Suppliers(db, "s_city", {"UNITED KI1", "UNITED KI5"}), "c_city", "s_city")
Q34Sql(db) ==
  Flight3Sql(db, LAMBDA d : d.d_yearmonth = "Dec1997",
             LAMBDA c : c.c_city \in {"UNITED KI1", "UNITED KI5"},
             LAMBDA s : s.s_city \in {"UNITED KI1", "UNITED KI5"}, "c_city", "s_city")

-----------------------------------------------------------------------------
\* Flight 4, Q4.1 to Q4.3.

Profit(lo) == lo.lo_revenue - lo.lo_supplycost

ProjectProfit(sel) ==
  Project(<<Proj("result_proj_minus", "-", S(sel, "lo_revenue"), S(sel, "lo_supplycost"))>>)

----------------------------------------------------------------------------
\* Q4.1: AMERICA, two manufacturers, by year and nation of the customer.
Q41Plan == <<
  Scan("date"),
  Scan("part"),
  Select(<<Sel("sel_part", "or", C("p_mfgr"), V({"MFGR#1", "MFGR#2"}))>>),
  Scan("customer"),
  Select(<<Plain(Sel("sel_customer", "=", C("c_region"), V("AMERICA")))>>),
  Scan("supplier"),
  Select(<<Sel("sel_supplier", "=", C("s_region"), V("AMERICA"))>>),
  Scan("lineorder"),
  HashJoin("lineorder_supplier", <<
    addBuildKey(S("sel_supplier", "s_suppkey")),
    addProbeKey(C("lo_suppkey"))>>),
  HashJoin("lineorder_customer", <<
    addBuildKey(S("sel_customer", "c_custkey")),
    addBuildValue(S("sel_customer", "c_nation"), "c_nation"),
    setProbeSelVector("lineorder_supplier"),
    addProbeKey(S("lineorder_supplier", "lo_custkey"))>>),
  HashJoin("lineorder_part", <<
    addBuildKey(S("sel_part", "p_partkey")),
    pushProbeSelVector("lineorder_customer", "lineorder_customer_part"),
    addProbeKeyEq(S("lineorder_customer", "lo_partkey"), "lineorder_customer_part")>>),
  HashJoin("lineorder_date", <<
    addBuildKey(C("d_datekey")),
    addBuildValue(C("d_year"), "d_year"),
    pushProbeSelVector("lineorder_part", "lineorder_part_date"),
    pushProbeSelVector("lineorder_customer_part", "lineorder_customer_part_date"),
    addProbeKeyEq(S("lineorder_customer_part", "lo_orderdate"),
                  "lineorder_customer_part_date")>>),
  ProjectProfit("lineorder_customer_part_date"),
  HashGroup(<<
    addKey(C("d_year"), "d_year"),
    pushKeySelVec("lineorder_part_date", "lineorder_part_date_grouped"),
    addKeySel(S("lineorder_part_date", "c_nation"), "lineorder_part_date_grouped", "c_nation"),
    addValue(C("result_proj_minus"), "profit")>>),
  Result([profit |-> "profit", d_year |-> "d_year", c_nation |-> "c_nation"])>>

Q41Hyper(db) ==
  LET ht1 == Build({Entry(d.d_datekey, d.d_year) : d \in ToSet(db.date)})
      ht2 == Build({Key(p.p_partkey) :
                      p \in {p \in ToSet(db.part) : p.p_mfgr = "MFGR#1" \/ p.p_mfgr = "MFGR#2"}})
      ht3 == Build({Entry(c.c_custkey, c.c_nation) :
                      c \in {c \in ToSet(db.customer) : c.c_region = "AMERICA"}})
      ht4 == Build({Key(s.s_suppkey) :
                      s \in {s \in ToSet(db.supplier) : s.s_region = "AMERICA"}})
      joins(lo) == /\ Has(ht4, lo.lo_suppkey) /\ Has(ht3, lo.lo_custkey)
                   /\ Has(ht2, lo.lo_partkey) /\ Has(ht1, lo.lo_orderdate)
  IN  Pipeline(ForEach(db.lineorder, [lo \in {lo \in ToSet(db.lineorder) : joins(lo)} |->
                         Entry(<<ht1[lo.lo_orderdate], ht3[lo.lo_custkey]>>, <<Profit(lo)>>)]),
               <<"d_year", "c_nation">>, <<"profit">>, FALSE)

\* The join of all five tables, as the where clause of the three queries begins.
Joined(db) ==
  UNION {[lo : {lo},
          c : {c \in ToSet(db.customer) : lo.lo_custkey = c.c_custkey},
          s : {s \in ToSet(db.supplier) : lo.lo_suppkey = s.s_suppkey},
          p : {p \in ToSet(db.part) : lo.lo_partkey = p.p_partkey},
          d : {d \in ToSet(db.date) : lo.lo_orderdate = d.d_datekey}] :
           lo \in ToSet(db.lineorder)}

\* select d_year, c_nation, sum(lo_revenue - lo_supplycost) as profit ...
\*   and c_region = 'AMERICA' and s_region = 'AMERICA'
\*   and (p_mfgr = 'MFGR#1' or p_mfgr = 'MFGR#2') group by d_year, c_nation
Q41Sql(db) ==
  GroupedBy({t \in Joined(db) :
               /\ t.c.c_region = "AMERICA" /\ t.s.s_region = "AMERICA"
               /\ t.p.p_mfgr \in {"MFGR#1", "MFGR#2"}},
            LAMBDA t : [d_year |-> t.d.d_year, c_nation |-> t.c.c_nation],
            LAMBDA t : [profit |-> Profit(t.lo)])

----------------------------------------------------------------------------
\* Q4.2 and Q4.3: 1997 and 1998, by year, p_key of the part and s_key of the
\* supplier.
Flight4Plan(partStep, supplierStep, p_key, s_key) == <<
  Scan("date"),
  Select(<<Sel("sel_date", "or", C("d_year"), V({1998, 1997}))>>),
  Scan("part"),
  Select(<<partStep>>),
  Scan("customer"),
  Select(<<Sel("sel_customer", "=", C("c_region"), V("AMERICA"))>>),
  Scan("supplier"),
  Select(<<supplierStep>>),
  Scan("lineorder"),
  HashJoin("lineorder_supplier", <<
    addBuildKey(S("sel_supplier", "s_suppkey")),
    addBuildValue(S("sel_supplier", s_key), s_key),
    addProbeKey(C("lo_suppkey"))>>),
  HashJoin("lineorder_customer", <<
    addBuildKey(S("sel_customer", "c_custkey")),
    pushProbeSelVector("lineorder_supplier", "lineorder_supplier_customer"),
    addProbeKeyEq(S("lineorder_supplier", "lo_custkey"), "lineorder_supplier_customer")>>),
  HashJoin("lineorder_part", <<
    addBuildKey(S("sel_part", "p_partkey")),
    addBuildValue(S("sel_part", p_key), p_key),
    pushProbeSelVector("lineorder_supplier_customer", "lineorder_customer_part"),
    pushProbeSelVector("lineorder_customer", "lineorder_customer_part2"),
    addProbeKeyEq(S("lineorder_supplier_customer", "lo_partkey"), "lineorder_customer_part")>>),
  HashJoin("lineorder_date", <<
    addBuildKey(S("sel_date", "d_datekey")),
    addBuildValue(S("sel_date", "d_year"), "d_year"),
    pushProbeSelVector("lineorder_customer_part2", "lineorder_customer_part2_date"),
    pushProbeSelVector("lineorder_customer_part", "lineorder_customer_part_date"),
    addProbeKeyEq(S("lineorder_customer_part", "lo_orderdate"),
                  "lineorder_customer_part_date")>>),
  ProjectProfit("lineorder_customer_part_date"),
  HashGroup(<<
    addKey(C("d_year"), "d_year"),
    pushKeySelVec("lineorder_date", "lineorder_date_grouped"),
    addKeySel(S("lineorder_date", p_key), "lineorder_date_grouped", p_key),
    pushKeySelVec("lineorder_customer_part2_date", "lineorder_part_date_grouped"),
    addKeySel(S("lineorder_customer_part2_date", s_key), "lineorder_part_date_grouped", s_key),
    addValue(C("result_proj_minus"), "profit")>>),
  Result([a \in {"profit", "d_year", p_key, s_key} |-> a])>>

\* The compiled query: the parts and suppliers that pass its tests.
Flight4Hyper(db, parts, suppliers, p_key, s_key) ==
  LET ht1 == Build({Entry(d.d_datekey, d.d_year) :
                      d \in {d \in ToSet(db.date) : d.d_year = 1997 \/ d.d_year = 1998}})
      ht2 == Build({Entry(p.p_partkey, p[p_key]) : p \in parts})
      ht3 == Build({Key(c.c_custkey) :
                      c \in {c \in ToSet(db.customer) : c.c_region = "AMERICA"}})
      ht4 == Build({Entry(s.s_suppkey, s[s_key]) : s \in suppliers})
      joins(lo) == /\ Has(ht4, lo.lo_suppkey) /\ Has(ht3, lo.lo_custkey)
                   /\ Has(ht2, lo.lo_partkey) /\ Has(ht1, lo.lo_orderdate)
  IN  Pipeline(ForEach(db.lineorder, [lo \in {lo \in ToSet(db.lineorder) : joins(lo)} |->
                         Entry(<<ht1[lo.lo_orderdate], ht4[lo.lo_suppkey], ht2[lo.lo_partkey]>>,
                               <<Profit(lo)>>)]),
               <<"d_year", s_key, p_key>>, <<"profit">>, FALSE)

\* select d_year, s_key, p_key, sum(lo_revenue - lo_supplycost) as profit ...
\*   and c_region = 'AMERICA' and ... and (d_year = 1997 or d_year = 1998)
\*   group by d_year, s_key, p_key
Flight4Sql(db, PartTest(_), SupplierTest(_), p_key, s_key) ==
  GroupedBy({t \in Joined(db) :
               /\ t.c.c_region = "AMERICA" /\ t.d.d_year \in {1997, 1998}
               /\ PartTest(t.p) /\ SupplierTest(t.s)},
            LAMBDA t : [d_year |-> t.d.d_year] @@ (p_key :> t.p[p_key])
                       @@ (s_key :> t.s[s_key]),
            LAMBDA t : [profit |-> Profit(t.lo)])

\* Q4.2: s_region = 'AMERICA', two manufacturers; by s_nation and p_category.
Q42Plan == Flight4Plan(Sel("sel_part", "or", C("p_mfgr"), V({"MFGR#1", "MFGR#2"})),
                       Sel("sel_supplier", "=", C("s_region"), V("AMERICA")),
                       "p_category", "s_nation")
Q42Hyper(db) ==
  Flight4Hyper(db, {p \in ToSet(db.part) : p.p_mfgr = "MFGR#1" \/ p.p_mfgr = "MFGR#2"},
               {s \in ToSet(db.supplier) : s.s_region = "AMERICA"}, "p_category", "s_nation")
Q42Sql(db) ==
  Flight4Sql(db, LAMBDA p : p.p_mfgr \in {"MFGR#1", "MFGR#2"},
             LAMBDA s : s.s_region = "AMERICA", "p_category", "s_nation")

\* Q4.3: s_nation = 'UNITED STATES', p_category = 'MFGR#14'; by s_city and p_brand1.
Q43Plan == Flight4Plan(Sel("sel_part", "=", C("p_category"), V(14)),
                       Sel("sel_supplier", "=", C("s_nation"), V("UNITED STATES")),
                       "p_brand1", "s_city")
Q43Hyper(db) ==
  Flight4Hyper(db, {p \in ToSet(db.part) : p.p_category = 14},
               {s \in ToSet(db.supplier) : s.s_nation = "UNITED STATES"}, "p_brand1", "s_city")
Q43Sql(db) ==
  Flight4Sql(db, LAMBDA p : p.p_category = 14, LAMBDA s : s.s_nation = "UNITED STATES",
             "p_brand1", "s_city")
=============================================================================
