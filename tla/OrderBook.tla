------------------------------ MODULE OrderBook ------------------------------
(***************************************************************************)
(* What the table of the order service (OrderJdbcRepository,               *)
(* services/order) promises to whoever knows the id of an order: the order *)
(* is opened once, may change as long as it is open, and once it is closed *)
(* it never comes back.                                                    *)
(***************************************************************************)
CONSTANT OrderId
VARIABLE book    \* "unused", "open" or "closed" for each id

OrderBookInit == book = [i \in OrderId |-> "unused"]

Move(i, from, to) ==
  /\ book[i] = from
  /\ book' = [book EXCEPT ![i] = to]

OpenOrder(i) == Move(i, "unused", "open")
CloseOrder(i) == Move(i, "open", "closed")

OrderBookSpec ==
  OrderBookInit /\ [][\E i \in OrderId : OpenOrder(i) \/ CloseOrder(i)]_book
=============================================================================
