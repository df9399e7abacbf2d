----------------------------- MODULE MCDelivery -----------------------------
(* Instances of Delivery for TLC: a table with a short and a long column,  *)
(* and every sequence of MaxItems changes of its rows.                     *)
EXTENDS Delivery

MCColumns == {"id", "text", "blob"}

(* A definition of its own, so that TLC computes the set once. *)
AllRows == UNION {RowsOf(n, id) : n \in 1..MaxItems, id \in Ids}

MCRow == AllRows
==============================================================================
