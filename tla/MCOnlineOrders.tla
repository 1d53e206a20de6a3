--------------------------- MODULE MCOnlineOrders ---------------------------
EXTENDS OnlineOrders, TLC

Symmetry == Permutations(Requests) \cup Permutations(Lines)

\* Bounds: requests are submitted one after the other, while nothing is
\* prepared; the shop opens, closes and changes its price only while a request
\* that has not been reviewed can notice; one kitchen ticket at a time is out
\* of the queue; one customer at a time agrees to more than the lowest price.
Bounds ==
  /\ \A r, q \in Requests : calls[r] # {} => session[q] = "NONE"
  /\ \A r, q \in Requests : calls[r] # {} /\ calls[q] # {} => r = q
  /\ intake # "open" => \E r \in Requests : calls[r] # {}
  /\ price # 1 => \E r \in Requests : calls[r] # {} \/ row[r].status = "PENDING"
  /\ Cardinality({r \in Requests : job[r].status \in {"TAKEN", "FAILED"}}) <= 1
  /\ Cardinality({r \in Requests : row[r].limit > 1}) <= 1
=============================================================================
