------------------------------ MODULE MCQueries ------------------------------
(***************************************************************************)
(* Small databases for the queries.  The dimension tables are fixed; the   *)
(* fact table of a query is any sequence of FactRows rows of a few shapes: *)
(* some qualify, of different groups, and each of the others misses one of *)
(* the query's conditions, at its boundary.  The rows have different       *)
(* amounts, so that a sum tells which of them are in it.                   *)
(***************************************************************************)
EXTENDS Queries

CONSTANTS
  FactRows,        \* rows of the fact table
  DispatcherRows   \* how many rows lineitem may have for the dispatcher

Amount == <<10, 20, 40>>

Tables(shapes, Row(_, _)) ==
  {[i \in 1..FactRows |-> Row(s[i], i)] : s \in [1..FactRows -> shapes]}

----------------------------------------------------------------------------
\* The Star Schema Benchmark.
Date(key, yearmonth, week) ==
  [d_datekey |-> key, d_year |-> key \div 10000, d_yearmonthnum |-> key \div 100,
   d_yearmonth |-> yearmonth, d_weeknuminyear |-> week]

date == <<Date(19930208, "Feb1993", 6), Date(19940115, "Jan1994", 2),
          Date(19940208, "Feb1994", 6), Date(19971224, "Dec1997", 51),
          Date(19980301, "Mar1998", 9)>>

\* The places: city, nation, region.
Places == <<
  <<"UNITED ST0", "UNITED STATES", "AMERICA">>, <<"CHINA    0", "CHINA", "ASIA">>,
  <<"UNITED KI1", "UNITED KINGDOM", "EUROPE">>, <<"UNITED KI5", "UNITED KINGDOM", "EUROPE">>,
  <<"PERU     3", "PERU", "AMERICA">>, <<"INDIA    2", "INDIA", "ASIA">>,
  <<"UNITED ST1", "UNITED STATES", "AMERICA">>>>

supplier == [i \in DOMAIN Places |->
  [s_suppkey |-> i, s_city |-> Places[i][1], s_nation |-> Places[i][2], s_region |-> Places[i][3]]]
customer == [i \in DOMAIN Places |->
  [c_custkey |-> i, c_city |-> Places[i][1], c_nation |-> Places[i][2], c_region |-> Places[i][3]]]

Brands == <<1201, 1202, 2221, 2228, 2229, 2220, 1402, 3101>>
part == [i \in DOMAIN Brands |->
  [p_partkey |-> i, p_brand1 |-> Brands[i], p_category |-> Brands[i] \div 100,
   p_mfgr |-> IF Brands[i] < 2000 THEN "MFGR#1" ELSE IF Brands[i] < 3000 THEN "MFGR#2" ELSE "MFGR#3"]]

\* A shape of lineorder: date, customer, supplier and part, then quantity and
\* discount.
Lineorder(s, i) ==
  [lo_orderdate |-> date[s[1]].d_datekey, lo_custkey |-> s[2], lo_suppkey |-> s[3],
   lo_partkey |-> s[4], lo_quantity |-> s[5], lo_discount |-> s[6], lo_linenumber |-> i,
   lo_extendedprice |-> Amount[i], lo_revenue |-> Amount[i], lo_supplycost |-> 3]

Ordered(d, quantity, discount) == <<d, 1, 1, 1, quantity, discount>>
Sold(d, c, s, p) == <<d, c, s, p, 1, 1>>

SsbShapes ==
  [q11 |-> {Ordered(1, 24, 100), Ordered(1, 24, 300), Ordered(1, 25, 200), Ordered(1, 24, 99),
            Ordered(2, 24, 200)},
   q12 |-> {Ordered(2, 26, 400), Ordered(2, 35, 600), Ordered(2, 25, 500), Ordered(2, 36, 500),
            Ordered(2, 30, 601), Ordered(3, 30, 500)},
   q13 |-> {Ordered(3, 26, 500), Ordered(3, 35, 700), Ordered(3, 25, 600), Ordered(3, 30, 499),
            Ordered(1, 30, 600), Ordered(2, 30, 600)},
   q21 |-> {Sold(1, 1, 1, 1), Sold(1, 1, 5, 2), Sold(2, 1, 1, 1), Sold(1, 1, 1, 3), Sold(1, 1, 2, 1)},
   q22 |-> {Sold(1, 1, 2, 3), Sold(2, 1, 6, 4), Sold(1, 1, 2, 5), Sold(1, 1, 2, 6), Sold(1, 1, 1, 3)},
   q23 |-> {Sold(1, 1, 3, 3), Sold(2, 1, 4, 3), Sold(1, 1, 3, 4), Sold(1, 1, 2, 3)},
   q31 |-> {Sold(1, 2, 2, 1), Sold(1, 6, 2, 1), Sold(4, 2, 6, 1), Sold(5, 2, 2, 1), Sold(1, 1, 2, 1)},
   q32 |-> {Sold(1, 1, 7, 1), Sold(1, 7, 1, 1), Sold(4, 1, 7, 1), Sold(5, 1, 1, 1), Sold(1, 1, 5, 1)},
   q33 |-> {Sold(1, 3, 4, 1), Sold(1, 4, 3, 1), Sold(5, 3, 4, 1), Sold(1, 3, 1, 1), Sold(1, 1, 3, 1)},
   q34 |-> {Sold(4, 3, 4, 1), Sold(4, 4, 3, 1), Sold(3, 3, 4, 1), Sold(4, 3, 1, 1), Sold(4, 1, 3, 1)},
   q41 |-> {Sold(1, 1, 5, 1), Sold(2, 5, 1, 3), Sold(1, 1, 1, 8), Sold(1, 2, 1, 1), Sold(1, 1, 2, 1)},
   q42 |-> {Sold(4, 1, 1, 1), Sold(5, 5, 5, 3), Sold(4, 1, 1, 8), Sold(1, 1, 1, 1), Sold(4, 2, 1, 1)},
   q43 |-> {Sold(4, 1, 1, 7), Sold(5, 5, 7, 7), Sold(4, 1, 5, 7), Sold(4, 1, 1, 1), Sold(4, 2, 1, 7)}]

SsbDatabases(q) ==
  {[date |-> date, supplier |-> supplier, customer |-> customer, part |-> part, lineorder |-> t] :
     t \in Tables(SsbShapes[q], Lineorder)}

----------------------------------------------------------------------------
\* TPC-H.
region == <<[r_regionkey |-> 1, r_name |-> "ASIA"], [r_regionkey |-> 2, r_name |-> "EUROPE"]>>

Nation(i, name, r) == [n_nationkey |-> i, n_name |-> name, n_regionkey |-> r]
nation == <<Nation(1, "CHINA", 1), Nation(2, "INDIA", 1), Nation(3, "FRANCE", 2)>>

Customer(i, segment) ==
  [c_custkey |-> i, c_name |-> <<"Customer", i>>, c_mktsegment |-> segment, c_nationkey |-> i]
tpchCustomer == <<Customer(1, "BUILDING"), Customer(2, "BUILDING"), Customer(3, "AUTOMOBILE")>>

tpchSupplier == [i \in 1..3 |-> [s_suppkey |-> i, s_nationkey |-> i]]

tpchPart == <<[p_partkey |-> 1, p_name |-> {"dark", "green"}], [p_partkey |-> 2, p_name |-> {"blue"}]>>
Partsupp(p, s) == [ps_partkey |-> p, ps_suppkey |-> s, ps_supplycost |-> 2 * p + s]
partsupp == <<Partsupp(1, 1), Partsupp(1, 2), Partsupp(2, 1)>>

Order(i, c, day, priority) ==
  [o_orderkey |-> i, o_custkey |-> c, o_orderdate |-> day, o_shippriority |-> priority,
   o_totalprice |-> 1000 * i]
orders == <<Order(1, 1, 19940101, 0), Order(2, 2, 19941231, 1), Order(3, 3, 19940601, 0),
            Order(4, 1, 19950101, 0), Order(5, 1, 19950315, 0)>>

\* A shape of lineitem: order, part, supplier, quantity, discount, day of
\* shipment, flag.
Lineitem(s, i) ==
  [l_orderkey |-> s[1], l_partkey |-> s[2], l_suppkey |-> s[3], l_quantity |-> s[4],
   l_discount |-> s[5], l_shipdate |-> s[6], l_returnflag |-> s[7], l_linestatus |-> "F",
   l_tax |-> 7, l_linenumber |-> i, l_extendedprice |-> Amount[i]]

Shipped(day, flag) == <<1, 1, 1, 100, 5, day, flag>>
Cheap(day, quantity, discount) == <<1, 1, 1, quantity, discount, day, "A">>
Of(order, day) == <<order, 1, 1, 100, 5, day, "A">>
From(order, p, s) == <<order, p, s, 100, 5, 19960101, "A">>
Large(order, quantity) == <<order, 1, 1, quantity, 5, 19960101, "A">>

Q5Shapes == {From(1, 1, 1), From(2, 1, 2), From(1, 1, 2), From(3, 1, 3), From(4, 1, 1)}
Q18Shapes == {Large(1, 20000), Large(1, 10001), Large(2, 30001), Large(2, 30000)}

TpchShapes ==
  [q1 |-> {Shipped(19980902, "A"), Shipped(19980101, "A"), Shipped(19980101, "N"),
           Shipped(19980903, "A")},
   q3 |-> {Of(1, 19950316), Of(2, 19950316), Of(1, 19950315), Of(5, 19950316), Of(3, 19950316)},
   q5 |-> Q5Shapes,
   q5_no_sel |-> Q5Shapes,
   q6 |-> {Cheap(19940101, 2399, 5), Cheap(19941231, 2399, 7), Cheap(19950101, 2399, 6),
           Cheap(19940101, 2400, 6), Cheap(19940101, 2399, 8)},
   q9 |-> {From(1, 1, 1), From(1, 1, 2), From(4, 1, 1), From(1, 2, 1)},
   q18 |-> Q18Shapes,
   q18group |-> Q18Shapes]

TpchDatabases(q) ==
  {[region |-> region, nation |-> nation, customer |-> tpchCustomer, supplier |-> tpchSupplier,
    part |-> tpchPart, partsupp |-> partsupp, lineitem |-> t,
    orders |-> IF q = "q9" THEN <<orders[1], orders[2], orders[4]>> ELSE orders] :
     t \in Tables(TpchShapes[q], Lineitem)}

\* For the dispatcher: as many lines as the run says, which Q6 selects, all but
\* the first at most.
DispatcherDatabases ==
  {[lineitem |-> [i \in 1 .. rows |->
      [Lineitem(Cheap(IF i = 1 THEN day ELSE 19940601, 600, 6), 1)
         EXCEPT !.l_linenumber = i, !.l_extendedprice = 30 + 10 * i]]] :
     rows \in DispatcherRows, day \in {19940601, 19950101, 19950102}}

----------------------------------------------------------------------------
\* Vectors of two rows with the plain primitives, and of three rows with those that
\* take two rows at a time.
MCConfigs == {Conf(2, FALSE), Conf(3, TRUE)}

\* The first two keys have the same hash; the others are in the other partition, but
\* in the same chain of a table of two.
MCHash(i) == IF i <= 2 THEN 3 ELSE 1

MCQueryNames == DOMAIN SsbShapes \cup DOMAIN TpchShapes
MCDatabases(q, e) ==
  IF e = "dispatcher" THEN DispatcherDatabases
  ELSE IF q \in DOMAIN SsbShapes THEN SsbDatabases(q) ELSE TpchDatabases(q)
=============================================================================
