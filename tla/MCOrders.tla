------------------------------ MODULE MCOrders ------------------------------
EXTENDS Orders, TLC

\* Rows of one kind are interchangeable.
Symmetry == Permutations(Tables) \cup Permutations(Sessions)
              \cup Permutations(Items) \cup Permutations(Invoices)

AtMost(n, S) == Cardinality(S) <= n

\* Bounds: the floor with all its tables, and a third session with one bill,
\* while nothing needs stock; and the kitchen with its stock on a floor of one
\* table.
Floor ==
  /\ stock = 0 /\ \A i \in Items : item[i].recipe = 0
  /\ \/ AtMost(2, {s \in Sessions : session[s].status # "NONE"})
     \/ AtMost(1, {v \in Invoices : invoice[v].status # "NONE"})
Kitchen ==
  /\ AtMost(1, {t \in Tables : table[t] # "NONE"})
  /\ AtMost(2, {s \in Sessions : session[s].status # "NONE"})
  /\ moved <= MaxStock
Bounds == Floor \/ Kitchen
=============================================================================
