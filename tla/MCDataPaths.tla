----------------------------- MODULE MCDataPaths -----------------------------
(***************************************************************************)
(* A small company.  Texts are numbers: 11..13 are stored customer names,   *)
(* 12 and 13 spelt differently but alike, 21..23 their codes, of which 21   *)
(* and 22 are alike, and 31..38 what users type besides.                    *)
(***************************************************************************)
EXTENDS DataPaths

CONSTANTS null, nofilter, nothing

AllTexts == 11..13 \cup 21..23 \cup 31..38

\* 31 differs from 11 in case, 32 from 12 and 13; 37 from code 21 and 22.
NormOf ==
  [t \in AllTexts |->
     CASE t \in {11, 31} -> 1 [] t \in {12, 13, 32} -> 2 [] t \in {21, 22, 37} -> 3
       [] OTHER -> t]

\* 33 differs from 11 in its legal form only, 34 and 35 are misspelt.
CoreOf ==
  [t \in AllTexts |->
     CASE t \in {11, 31, 33} -> 1 [] t \in {12, 13, 32} -> 2 [] OTHER -> t]

Cores == {CoreOf[t] : t \in AllTexts}

\* 34 is near all names, 35 clearly nearest to 11, 36 shares a word with it.
RatioOf ==
  [p \in Cores \X Cores |->
     CASE p = <<34, 1>> -> 92 [] p = <<34, 2>> -> 90
       [] p = <<35, 1>> -> 99 [] p = <<35, 2>> -> 88
       [] p = <<36, 1>> -> 70 [] OTHER -> 0]

KinOf == {p \in Cores \X Cores : RatioOf[p] > 0}

Customer(n, c) == [name |-> n, code |-> c]
Sale(n, a) == [name |-> n, amount |-> a]

Object(category, kind, columns, rows, needs) ==
  [category |-> category, kind |-> kind, columns |-> columns, rows |-> rows,
   needs |-> needs, broken |-> FALSE]

CustomerTable(rows) == Object("dim", "table", {"name", "code"}, rows, FALSE)
SalesView(rows) == Object("gold_view", "view", {"name", "amount"}, rows, FALSE)
\* A detail view is run for one customer.
DetailView == Object("question_view", "view", {"name", "amount"},
                     <<Sale(11, null), Sale(12, 7)>>, TRUE)

OldFile ==
  [customers |-> CustomerTable(<<Customer(11, 21), Customer(12, 22), Customer(13, 23)>>),
   sales |-> SalesView(<<Sale(11, 4), Sale(12, 9), Sale(11, 6), Sale(13, 2)>>),
   detail |-> DetailView,
   stock |-> [Object("gold_view", "view", {"code", "amount"}, <<>>, FALSE)
                EXCEPT !.broken = TRUE]]

\* The next file has lost a customer and a view and gained another; the detail
\* view names no customer any more.
NewFile ==
  [customers |-> CustomerTable(<<Customer(12, null), Customer(11, 22), Customer(11, 23)>>),
   detail |-> Object("question_view", "view", {"code", "amount"},
                     <<[code |-> 22, amount |-> 5]>>, TRUE),
   stock |-> Object("gold_view", "view", {"code", "amount"},
                    <<[code |-> 21, amount |-> 3], [code |-> 22, amount |-> 8]>>, FALSE)]

TwoFiles == {OldFile, NewFile}

ViewOrder == [customers |-> 1, detail |-> 2, sales |-> 3, stock |-> 4]

AllViews == DOMAIN ViewOrder

Typed == {11, 13, 21, 31, 32, 33, 34, 35, 36, 37}

Statement(tables, columns, limit) ==
  [count |-> 1, query |-> TRUE, refused |-> FALSE, tables |-> tables, ctes |-> {},
   columns |-> columns, aliases |-> {}, limit |-> limit]

SomeStatements ==
  {Statement({"sales"}, {"amount"}, nothing), Statement({"customers"}, {"name"}, 1),
   Statement({"hidden"}, {}, 9),
   [Statement({"sales", "top"}, {"rank"}, 9) EXCEPT !.ctes = {"top"}]}

Refinement(sort, descending, filters, limit) ==
  [sort |-> sort, descending |-> descending, filters |-> filters, limit |-> limit]

Above(n) == {[column |-> "amount", op |-> "gt", value |-> n]}

SomeSpecs ==
  {Refinement("amount", TRUE, {}, 2), Refinement("amount", FALSE, {}, 1),
   Refinement(nothing, FALSE, Above(3), nothing), Refinement("code", FALSE, {}, 1),
   Refinement("name", FALSE, {}, -1)}

Step(view, column) == [view |-> view, column |-> column]

SomePlaybooks ==
  {[needs |-> TRUE, steps |-> <<Step("detail", "name"), Step("sales", "name"),
                                Step("stock", nothing)>>],
   [needs |-> FALSE, steps |-> <<Step("stock", nothing), Step("sales", nothing)>>]}

\* None, and all but the last.
SomeCounts == {0, 2, -1}

SomePairs == {nothing, [value |-> "amount", label |-> "name"]}

ViewsScanned == {"sales", "stock", "gone"}

\* It begins with the old file, indexed by itself or by what is there later.
MCInit == Init /\ db = OldFile

MCSpec == MCInit /\ [][Next]_vars
=============================================================================
