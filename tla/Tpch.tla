-------------------------------- MODULE Tpch --------------------------------
(***************************************************************************)
(* The queries of TPC-H (src/benchmarks/tpch/queries): plan, compiled form *)
(* and the SQL of the benchmark with the constants of the code, as in      *)
(* module Ssb.  Q6 has no SQL in the repository, Q5 without selections one *)
(* that is its compiled form only.  Numbers carry the two digits behind    *)
(* the point of their columns, so one is 100; a date is written yyyymmdd.  *)
(***************************************************************************)
EXTENDS Tectorwise, Relational

-----------------------------------------------------------------------------
\* The queries that scan lineitem alone: Q1 and Q6 (q1.cpp, q6.cpp).

Charge(l) == DiscPrice(l) * (one + l.l_tax)

----------------------------------------------------------------------------
\* Q1: sums over the lines shipped until 1998-09-02, by flag and status.
Q1Plan == <<
  Scan("lineitem"),
  Select(<<Sel("sel_date", "<=", C("l_shipdate"), V(19980902))>>),
  Project(<<
    OfConf(Proj("result_proj_minus", "-", V(one), S("sel_date", "l_discount"))),
    OfConf(Proj("disc_price", "*", S("sel_date", "l_extendedprice"), C("result_proj_minus"))),
    OfConf(Proj("result_proj_plus", "+", S("sel_date", "l_tax"), V(one))),
    OfConf(Proj("charge", "*", C("disc_price"), C("result_proj_plus")))>>),
  HashGroup(<<
    pushKeySelVec("sel_date", "sel_date_grouped"),
    addKeySel(S("sel_date", "l_returnflag"), "sel_date_grouped", "returnflag"),
    addKeySel(S("sel_date", "l_linestatus"), "sel_date_grouped", "linestatus"),
    addValue(C("disc_price"), "sum_disc_price"),
    addValue(C("charge"), "sum_charge"),
    addValue(S("sel_date", "l_quantity"), "sum_qty"),
    addValue(S("sel_date", "l_extendedprice"), "sum_base_price"),
    addCount("count_order")>>),
  Result([l_returnflag |-> "returnflag", l_linestatus |-> "linestatus",
          sum_qty |-> "sum_qty", sum_base_price |-> "sum_base_price",
          sum_disc_price |-> "sum_disc_price", sum_charge |-> "sum_charge",
          count_order |-> "count_order"])>>

Q1Hyper(db) ==
  Pipeline(ForEach(db.lineitem, [l \in {l \in ToSet(db.lineitem) : l.l_shipdate <= 19980902} |->
                     Entry(<<l.l_returnflag, l.l_linestatus>>,
                           <<l.l_quantity, l.l_extendedprice, DiscPrice(l), Charge(l), 1>>)]),
           <<"l_returnflag", "l_linestatus">>,
           <<"sum_qty", "sum_base_price", "sum_disc_price", "sum_charge", "count_order">>,
           FALSE)

\* select l_returnflag, l_linestatus, sum(l_quantity) as sum_qty, ... from lineitem
\* where l_shipdate <= date '1998-12-01' - interval '90' day
\* group by l_returnflag, l_linestatus        (the averages are not computed)
Q1Sql(db) ==
  GroupedBy({l \in ToSet(db.lineitem) : l.l_shipdate <= 19980902},
            LAMBDA l : [l_returnflag |-> l.l_returnflag, l_linestatus |-> l.l_linestatus],
            LAMBDA l : [sum_qty |-> l.l_quantity, sum_base_price |-> l.l_extendedprice,
                        sum_disc_price |-> DiscPrice(l), sum_charge |-> Charge(l),
                        count_order |-> 1])

----------------------------------------------------------------------------
\* Q6: what discounts of 0.05 to 0.07 on small orders of 1994 were worth.
Q6Plan == <<
  Scan("lineitem"),
  Select(<<OfConf(Sel("sel_a", "<", C("l_shipdate"), V(19950101))),
           OfConf(Sel("sel_b", ">=", S("sel_a", "l_shipdate"), V(19940101))),
           OfConf(Sel("sel_a", "<", S("sel_b", "l_quantity"), V(2400))),
           OfConf(Sel("sel_b", ">=", S("sel_a", "l_discount"), V(5))),
           OfConf(Sel("sel_a", "<=", S("sel_b", "l_discount"), V(7)))>>),
  Project(<<Proj("result_project", "*", S("sel_a", "l_discount"),
                 S("sel_a", "l_extendedprice"))>>),
  FixedAggregation("revenue", C("result_project"))>>

Q6Hyper(db) ==
  LET qualifies(l) == /\ l.l_shipdate >= 19940101 /\ l.l_shipdate < 19950101
                      /\ l.l_quantity < 2400
                      /\ l.l_discount >= 5 /\ l.l_discount <= 7
  IN  Pipeline(ForEach(db.lineitem, [l \in {l \in ToSet(db.lineitem) : qualifies(l)} |->
                         Entry(<<>>, <<l.l_extendedprice * l.l_discount>>)]),
               <<>>, <<"revenue">>, TRUE)

\* select sum(l_extendedprice * l_discount) as revenue from lineitem
\* where l_shipdate in 1994 and l_discount between 0.06 - 0.01 and 0.06 + 0.01
\*   and l_quantity < 24
Q6Sql(db) ==
  Summed({l \in ToSet(db.lineitem) : /\ l.l_shipdate \div 10000 = 1994
                                     /\ l.l_discount \in 5..7
                                     /\ l.l_quantity < 2400},
         LAMBDA l : [revenue |-> l.l_extendedprice * l.l_discount])

-----------------------------------------------------------------------------
\* The joins: Q3, Q5, and Q5 without its selections (q3.cpp, q5.cpp, q5_no_sel.cpp).

\* The two projections that compute DiscPrice of the lines selected by sel.
ProjectDiscPrice(sel) ==
  Project(<<Proj("result_proj_minus", "-", V(one), S(sel, "l_discount")),
            Proj("result_project", "*", S(sel, "l_extendedprice"), C("result_proj_minus"))>>)

----------------------------------------------------------------------------
\* Q3: what the building customers' open orders are worth.
Q3Plan == <<
  Scan("customer"),
  Select(<<Sel("sel_cust", "=", C("c_mktsegment"), V("BUILDING"))>>),
  Scan("orders"),
  Select(<<Sel("sel_order", "<", C("o_orderdate"), V(19950315))>>),
  HashJoin("cust_ord", <<
    setProbeSelVector("sel_order"),
    addBuildKey(S("sel_cust", "c_custkey")),
    addProbeKey(S("sel_order", "o_custkey"))>>),
  Scan("lineitem"),
  Select(<<Sel("sel_lineitem", ">", C("l_shipdate"), V(19950315))>>),
  HashJoin("j1_lineitem", <<
    setProbeSelVector("sel_lineitem"),
    addBuildKey(S("cust_ord", "o_orderkey")),
    addBuildValue(S("cust_ord", "o_orderdate"), "o_orderdate"),
    addBuildValue(S("cust_ord", "o_shippriority"), "o_shippriority"),
    addProbeKey(S("sel_lineitem", "l_orderkey"))>>),
  ProjectDiscPrice("j1_lineitem"),
  HashGroup(<<
    pushKeySelVec("j1_lineitem", "j1_lineitem_grouped"),
    addKeySel(S("j1_lineitem", "l_orderkey"), "j1_lineitem_grouped", "l_orderkey"),
    addKey(C("o_orderdate"), "o_orderdate"),
    addKey(C("o_shippriority"), "o_shippriority"),
    addValue(C("result_project"), "result_project")>>),
  Result([revenue |-> "result_project", o_shippriority |-> "o_shippriority",
          o_orderdate |-> "o_orderdate", l_orderkey |-> "l_orderkey"])>>

Q3Hyper(db) ==
  LET ht1 == Build({Key(c.c_custkey) :
                      c \in {c \in ToSet(db.customer) : c.c_mktsegment = "BUILDING"}})
      open(o) == o.o_orderdate < 19950315 /\ Has(ht1, o.o_custkey)
      ht2 == Build({Entry(o.o_orderkey, <<o.o_orderdate, o.o_shippriority>>) :
                      o \in {o \in ToSet(db.orders) : open(o)}})
      joins(l) == l.l_shipdate > 19950315 /\ Has(ht2, l.l_orderkey)
  IN  Pipeline(ForEach(db.lineitem, [l \in {l \in ToSet(db.lineitem) : joins(l)} |->
                         Entry(<<l.l_orderkey>> \o ht2[l.l_orderkey], <<DiscPrice(l)>>)]),
               <<"l_orderkey", "o_orderdate", "o_shippriority">>, <<"revenue">>, FALSE)

\* select l_orderkey, sum(l_extendedprice * (1 - l_discount)) as revenue,
\*        o_orderdate, o_shippriority from customer, orders, lineitem
\* where c_mktsegment = 'BUILDING' and c_custkey = o_custkey and l_orderkey = o_orderkey
\*   and o_orderdate < date '1995-03-15' and l_shipdate > date '1995-03-15'
\* group by l_orderkey, o_orderdate, o_shippriority
Q3Sql(db) ==
  GroupedBy({t \in [c : ToSet(db.customer), o : ToSet(db.orders), l : ToSet(db.lineitem)] :
               /\ t.c.c_mktsegment = "BUILDING"
               /\ t.c.c_custkey = t.o.o_custkey /\ t.l.l_orderkey = t.o.o_orderkey
               /\ t.o.o_orderdate < 19950315 /\ t.l.l_shipdate > 19950315},
            LAMBDA t : [l_orderkey |-> t.l.l_orderkey, o_orderdate |-> t.o.o_orderdate,
                        o_shippriority |-> t.o.o_shippriority],
            LAMBDA t : [revenue |-> DiscPrice(t.l)])

----------------------------------------------------------------------------
\* Q5: the revenue between customers and suppliers of the same Asian nation.

\* The last two joins of both variants, the projection and the grouping.
JoinSuppliers == <<
  HashJoin("join_supp", <<
    addBuildKey(C("s_nationkey")),
    addBuildKey(C("s_suppkey")),
    addProbeKey(C("join_line_nationkey")),
    pushProbeSelVector("join_line", "join_supp_line"),
    addProbeKeyEq(S("join_line", "l_suppkey"), "join_supp_line")>>),
  ProjectDiscPrice("join_supp_line"),
  HashGroup(<<
    pushKeySelVec("join_supp", "selScat"),
    addKeySel(S("join_supp", "n_name"), "selScat", "n_name"),
    addValue(C("result_project"), "sum")>>),
  Result([n_name |-> "n_name", revenue |-> "sum"])>>

JoinLines ==
  HashJoin("join_line", <<
    addBuildKey(S("join_ord", "o_orderkey")),
    addProbeKey(C("l_orderkey")),
    addBuildValue(C("join_ord_nationkey"), "join_line_nationkey"),
    addBuildValue(C("n_name2"), "n_name")>>)

Q5Plan == <<
  Scan("supplier"),
  Scan("region"),
  Select(<<Sel("sel_region", "=", C("r_name"), V("ASIA"))>>),
  Scan("nation"),
  HashJoin("join_reg_nat", <<
    addBuildKey(S("sel_region", "r_regionkey")),
    addProbeKey(C("n_regionkey"))>>),
  Scan("customer"),
  HashJoin("join_cust", <<
    addBuildKey(S("join_reg_nat", "n_nationkey")),
    addProbeKey(C("c_nationkey")),
    addBuildValue(S("join_reg_nat", "n_name"), "n_name")>>),
  Scan("orders"),
  Select(<<Sel("sel_ord", "<", C("o_orderdate"), V(19950101)),
           Sel("sel_ord2", ">=", S("sel_ord", "o_orderdate"), V(19940101))>>),
  HashJoin("join_ord", <<
    setProbeSelVector("sel_ord2"),
    addBuildKey(S("join_cust", "c_custkey")),
    addProbeKey(S("sel_ord2", "o_custkey")),
    addBuildValue(S("join_cust", "c_nationkey"), "join_ord_nationkey"),
    addBuildValue(C("n_name"), "n_name2")>>),
  Scan("lineitem"),
  JoinLines>> \o JoinSuppliers

Q5Hyper(db) ==
  LET ht1 == Build({Key(r.r_regionkey) : r \in {r \in ToSet(db.region) : r.r_name = "ASIA"}})
      ht2 == Build({Entry(n.n_nationkey, n.n_name) :
                      n \in {n \in ToSet(db.nation) : Has(ht1, n.n_regionkey)}})
      ht3 == Build({Entry(c.c_custkey, <<c.c_nationkey, ht2[c.c_nationkey]>>) :
                      c \in {c \in ToSet(db.customer) : Has(ht2, c.c_nationkey)}})
      of1994(o) == /\ o.o_orderdate < 19950101 /\ o.o_orderdate >= 19940101
                   /\ Has(ht3, o.o_custkey)
      ht4 == Build({Entry(o.o_orderkey, ht3[o.o_custkey]) :
                      o \in {o \in ToSet(db.orders) : of1994(o)}})
      ht5 == Build({Key(<<s.s_suppkey, s.s_nationkey>>) : s \in ToSet(db.supplier)})
      joins(l) == /\ Has(ht4, l.l_orderkey)
                  /\ Has(ht5, <<l.l_suppkey, ht4[l.l_orderkey][1]>>)
  IN  Pipeline(ForEach(db.lineitem, [l \in {l \in ToSet(db.lineitem) : joins(l)} |->
                         Entry(<<ht4[l.l_orderkey][2]>>, <<DiscPrice(l)>>)]),
               <<"n_name">>, <<"revenue">>, FALSE)

\* The joins of the six tables, as both queries' where clauses begin.
JoinedQ5(db) ==
  {t \in [c : ToSet(db.customer), o : ToSet(db.orders), l : ToSet(db.lineitem),
          s : ToSet(db.supplier), n : ToSet(db.nation), r : ToSet(db.region)] :
     /\ t.c.c_custkey = t.o.o_custkey /\ t.l.l_orderkey = t.o.o_orderkey
     /\ t.l.l_suppkey = t.s.s_suppkey /\ t.c.c_nationkey = t.s.s_nationkey
     /\ t.s.s_nationkey = t.n.n_nationkey /\ t.n.n_regionkey = t.r.r_regionkey}

\* select n_name, sum(l_extendedprice * (1 - l_discount)) as revenue ...
\*   and r_name = 'ASIA' and o_orderdate in 1994 group by n_name
Q5Sql(db) ==
  GroupedBy({t \in JoinedQ5(db) : t.r.r_name = "ASIA" /\ t.o.o_orderdate \div 10000 = 1994},
            LAMBDA t : [n_name |-> t.n.n_name], LAMBDA t : [revenue |-> DiscPrice(t.l)])

----------------------------------------------------------------------------
\* Q5 without selections.  The Tectorwise plan groups by nation as Q5 does; the
\* compiled query (one thread, no groups) gives one total and the count.
Q5NoSelPlan == PlainHashes(<<
  Scan("supplier"),
  Scan("region"),
  Scan("nation"),
  HashJoin("join_reg_nat", <<
    addBuildKey(C("r_regionkey")),
    addProbeKey(C("n_regionkey"))>>),
  Scan("customer"),
  HashJoin("join_cust", <<
    addBuildKey(C("n_nationkey")),
    addProbeKey(C("c_nationkey")),
    addBuildValue(S("join_reg_nat", "n_name"), "n_name")>>),
  Scan("orders"),
  HashJoin("join_ord", <<
    addBuildKey(C("c_custkey")),
    addProbeKey(C("o_custkey")),
    addBuildValue(C("c_nationkey"), "join_ord_nationkey"),
    addBuildValue(C("n_name"), "n_name2")>>),
  Scan("lineitem"),
  JoinLines>> \o JoinSuppliers)

Q5NoSelHyper(db) ==
  LET ht1 == Build({Key(r.r_regionkey) : r \in ToSet(db.region)})
      ht2 == Build({Key(n.n_nationkey) :
                      n \in {n \in ToSet(db.nation) : Has(ht1, n.n_regionkey)}})
      ht3 == Build({Entry(c.c_custkey, c.c_nationkey) :
                      c \in {c \in ToSet(db.customer) : Has(ht2, c.c_nationkey)}})
      ht4 == Build({Entry(o.o_orderkey, ht3[o.o_custkey]) :
                      o \in {o \in ToSet(db.orders) : Has(ht3, o.o_custkey)}})
      ht5 == Build({Key(<<s.s_suppkey, s.s_nationkey>>) : s \in ToSet(db.supplier)})
      joins(l) == Has(ht4, l.l_orderkey) /\ Has(ht5, <<l.l_suppkey, ht4[l.l_orderkey]>>)
  IN  Pipeline(ForEach(db.lineitem, [l \in {l \in ToSet(db.lineitem) : joins(l)} |->
                         Entry(<<>>, <<l.l_extendedprice * l.l_discount, 1>>)]),
               <<>>, <<"revenue", "count">>, TRUE)

\* What the Tectorwise plan is made for: Q5 without the conditions on r_name and
\* o_orderdate.  The repository has no such query; its comment is Q5NoSelSql.
Q5NoSelByNationSql(db) ==
  GroupedBy(JoinedQ5(db), LAMBDA t : [n_name |-> t.n.n_name],
            LAMBDA t : [revenue |-> DiscPrice(t.l)])

\* q5_no_sel.cpp:18-34:
\* select sum(l_extendedprice * l_discount) as revenue, count(*) as count ...
Q5NoSelSql(db) ==
  Summed(JoinedQ5(db), LAMBDA t : [revenue |-> t.l.l_extendedprice * t.l.l_discount,
                                   count |-> 1])

-----------------------------------------------------------------------------
\* The queries with a query inside: Q9 (profit by nation and year) and Q18
\* (customers with large orders), and the inner query of Q18 on its own
\* (q9.cpp, q18.cpp).

\* Q9.  p_name like '%green%' is written as the set of the names' words.
Q9Plan == <<
  Scan("nation"),
  Scan("supplier"),
  HashJoin("nation_supplier", <<
    addBuildKey(C("n_nationkey")),
    addBuildValue(C("n_name"), "n_name"),
    addProbeKey(C("s_nationkey"))>>),
  Scan("part"),
  Select(<<Sel("sel_part", "contains", C("p_name"), V("green"))>>),
  Scan("partsupp"),
  HashJoin("part_partsupp", <<
    addBuildKey(S("sel_part", "p_partkey")),
    addProbeKey(C("ps_partkey"))>>),
  HashJoin("pspp", <<
    addBuildKey(S("nation_supplier", "s_suppkey")),
    addBuildValue(C("n_name"), "n_name"),
    setProbeSelVector("part_partsupp"),
    addProbeKey(S("part_partsupp", "ps_suppkey"))>>),
  Scan("lineitem"),
  HashJoin("xlineitem", <<
    addBuildKey(S("pspp", "ps_partkey")),
    addBuildKey(S("pspp", "ps_suppkey")),
    addBuildValue(C("n_name"), "n_name"),
    addBuildValue(S("pspp", "ps_supplycost"), "ps_supplycost"),
    addProbeKey(C("l_partkey")),
    addProbeKey(C("l_suppkey"))>>),
  Scan("orders"),
  HashJoin("ordersx", <<
    addBuildKey(S("xlineitem", "l_orderkey")),
    addProbeKey(C("o_orderkey")),
    addBuildValue(S("xlineitem", "l_extendedprice"), "l_extendedprice"),
    addBuildValue(S("xlineitem", "l_discount"), "l_discount"),
    addBuildValue(S("xlineitem", "l_quantity"), "l_quantity"),
    addBuildValue(C("ps_supplycost"), "ps_supplycost"),
    addBuildValue(C("n_name"), "n_name")>>),
  Project(<<
    Proj("result_proj_minus", "-", V(one), C("l_discount")),
    Proj("disc_price", "*", C("l_extendedprice"), C("result_proj_minus")),
    Proj("total_cost", "*", C("ps_supplycost"), C("l_quantity")),
    Proj("amount", "-", C("disc_price"), C("total_cost")),
    Proj("o_year", "year", S("ordersx", "o_orderdate"), V(0))>>),
  HashGroup(<<
    addKey(C("n_name"), "n_name"),
    addKey(C("o_year"), "o_year"),
    addValue(C("amount"), "sum_profit")>>),
  Result([nation |-> "n_name", o_year |-> "o_year", sum_profit |-> "sum_profit"])>>

\* The last hash table holds all lines of an order: findOneEntry and its chain.
Q9Hyper(db) ==
  LET ht1 == Build({Entry(n.n_nationkey, n.n_name) : n \in ToSet(db.nation)})
      ht2 == Build({Entry(s.s_suppkey, ht1[s.s_nationkey]) :
                      s \in {s \in ToSet(db.supplier) : Has(ht1, s.s_nationkey)}})
      ht3 == Build({Key(p.p_partkey) : p \in {p \in ToSet(db.part) : "green" \in p.p_name}})
      joins(ps) == Has(ht3, ps.ps_partkey) /\ Has(ht2, ps.ps_suppkey)
      ht4 == Build({Entry(<<ps.ps_partkey, ps.ps_suppkey>>,
                          <<ht2[ps.ps_suppkey], ps.ps_supplycost>>) :
                      ps \in {ps \in ToSet(db.partsupp) : joins(ps)}})
      part(l) == <<l.l_partkey, l.l_suppkey>>
      linesOf(o) == LET own(l) == l.l_orderkey = o.o_orderkey /\ Has(ht4, part(l))
                    IN  SelectSeq(db.lineitem, own)
      amount(l) == l.l_extendedprice * (one - l.l_discount) - ht4[part(l)][2] * l.l_quantity
      consume(o) == LET lines == linesOf(o)
                    IN  [k \in DOMAIN lines |->
                           Entry(<<ht4[part(lines[k])][1], o.o_orderdate \div 10000>>,
                                 <<amount(lines[k])>>)]
  IN  Pipeline([i \in DOMAIN db.orders |-> consume(db.orders[i])],
               <<"nation", "o_year">>, <<"sum_profit">>, FALSE)

\* select nation, o_year, sum(amount) as sum_profit from (select n_name as nation,
\*   extract(year from o_orderdate) as o_year,
\*   l_extendedprice * (1 - l_discount) - ps_supplycost * l_quantity as amount ...)
\* group by nation, o_year
Q9Sql(db) ==
  GroupedBy({t \in [p : ToSet(db.part), s : ToSet(db.supplier), l : ToSet(db.lineitem),
                    ps : ToSet(db.partsupp), o : ToSet(db.orders), n : ToSet(db.nation)] :
               /\ t.s.s_suppkey = t.l.l_suppkey /\ t.ps.ps_suppkey = t.l.l_suppkey
               /\ t.ps.ps_partkey = t.l.l_partkey /\ t.p.p_partkey = t.l.l_partkey
               /\ t.o.o_orderkey = t.l.l_orderkey /\ t.s.s_nationkey = t.n.n_nationkey
               /\ "green" \in t.p.p_name},
            LAMBDA t : [nation |-> t.n.n_name, o_year |-> t.o.o_orderdate \div 10000],
            LAMBDA t : [sum_profit |-> t.l.l_extendedprice * (one - t.l.l_discount)
                                       - t.ps.ps_supplycost * t.l.l_quantity])

----------------------------------------------------------------------------
\* Q18: the orders with more than 300 pieces and who placed them.
GroupOrders == <<
  Scan("lineitem"),
  HashGroup(<<addKey(C("l_orderkey"), "l_orderkey"), addValue(C("l_quantity"), "l_quantity")>>)>>

SelectLarge(steps) == Select(<<Sel("sel_orderkey", ">", C("l_quantity"), V(30000))>> \o steps)

Q18Plan == PlainHashes(<<Scan("customer")>> \o GroupOrders \o <<
  SelectLarge(<<>>),
  Scan("orders"),
  HashJoin("orders_matches", <<
    addBuildKey(S("sel_orderkey", "l_orderkey")),
    addProbeKey(C("o_orderkey"))>>),
  HashJoin("customer_matches", <<
    setProbeSelVector("orders_matches"),
    addBuildKey(C("c_custkey")),
    addProbeKey(S("orders_matches", "o_custkey")),
    addBuildValue(C("c_name"), "c_name")>>),
  Scan("lineitem"),
  HashJoin("lineitem_matches", <<
    addBuildKey(S("customer_matches", "o_orderkey")),
    addProbeKey(C("l_orderkey")),
    addBuildValue(S("customer_matches", "o_custkey"), "o_custkey"),
    addBuildValue(S("customer_matches", "o_orderdate"), "o_orderdate"),
    addBuildValue(S("customer_matches", "o_totalprice"), "o_totalprice"),
    addBuildValue(C("c_name"), "c_name2")>>),
  HashGroup(<<
    pushKeySelVec("lineitem_matches", "lineitem_matches_grouped"),
    addKey(C("c_name2"), "group_c_name"),
    addKey(C("o_custkey"), "group_o_custkey"),
    addKey(C("o_orderdate"), "group_o_orderdate"),
    addKey(C("o_totalprice"), "group_o_totalprice"),
    addKeySel(S("lineitem_matches", "l_orderkey"), "lineitem_matches_grouped",
              "group_l_orderkey"),
    addValue(S("lineitem_matches", "l_quantity"), "group_sum")>>),
  Result([c_name |-> "group_c_name", c_custkey |-> "group_o_custkey",
          o_orderkey |-> "group_l_orderkey", o_orderdate |-> "group_o_orderdate",
          o_totalprice |-> "group_o_totalprice", sum |-> "group_sum"])>>)

\* The lines of an order with their quantity; both engines group them first.
Quantities(db) ==
  ForEach(db.lineitem, [l \in ToSet(db.lineitem) |-> Entry(l.l_orderkey, <<l.l_quantity>>)])

Q18Hyper(db) ==
  LET groups == Groups(FlattenSeq(Quantities(db)))
      ht1 == {k \in DOMAIN groups : groups[k][1] > 30000}
      ht2 == Build({Entry(c.c_custkey, c.c_name) : c \in ToSet(db.customer)})
      joins(o) == o.o_orderkey \in ht1 /\ Has(ht2, o.o_custkey)
      ht3 == Build({Entry(o.o_orderkey,
                          <<o.o_custkey, o.o_orderdate, o.o_totalprice, ht2[o.o_custkey]>>) :
                      o \in {o \in ToSet(db.orders) : joins(o)}})
  IN  Pipeline(ForEach(db.lineitem, [l \in {l \in ToSet(db.lineitem) : Has(ht3, l.l_orderkey)} |->
                         Entry(ht3[l.l_orderkey] \o <<l.l_orderkey>>, <<l.l_quantity>>)]),
               <<"c_custkey", "o_orderdate", "o_totalprice", "c_name", "o_orderkey">>,
               <<"sum">>, FALSE)

\* The groups of lineitem by l_orderkey, and those of them having
\* sum(l_quantity) > 300.
LargeOrders(db) ==
  {g \in GroupedBy(ToSet(db.lineitem), LAMBDA l : [l_orderkey |-> l.l_orderkey],
                   LAMBDA l : [sum |-> l.l_quantity]) : g.sum > 30000}

\* select c_name, c_custkey, o_orderkey, o_orderdate, o_totalprice, sum(l_quantity)
\* from customer, orders, lineitem where o_orderkey in (...)
\*   and c_custkey = o_custkey and o_orderkey = l_orderkey group by ...
Q18Sql(db) ==
  GroupedBy({t \in [c : ToSet(db.customer), o : ToSet(db.orders), l : ToSet(db.lineitem)] :
               /\ \E g \in LargeOrders(db) : g.l_orderkey = t.o.o_orderkey
               /\ t.c.c_custkey = t.o.o_custkey /\ t.o.o_orderkey = t.l.l_orderkey},
            LAMBDA t : [c_name |-> t.c.c_name, c_custkey |-> t.c.c_custkey,
                        o_orderkey |-> t.o.o_orderkey, o_orderdate |-> t.o.o_orderdate,
                        o_totalprice |-> t.o.o_totalprice],
            LAMBDA t : [sum |-> t.l.l_quantity])

\* getGroupQuery: the inner query alone, its result compacted by adding zero.
Q18GroupPlan == GroupOrders \o <<
  SelectLarge(<<
    Proj("compact_quantity", "+", S("sel_orderkey", "l_quantity"), V(0)),
    Proj("compact_l_orderkey", "+", S("sel_orderkey", "l_orderkey"), V(0))>>),
  Result([l_orderkey |-> "compact_l_orderkey", sum |-> "compact_quantity"])>>
=============================================================================
