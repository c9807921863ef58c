----------------------------- MODULE StockLedger -----------------------------
(***************************************************************************)
(* What the inventory service promises about the seats of one train, date  *)
(* and class, whoever asks and in whatever order: seats are taken only     *)
(* while there are some, a seat that was sold stays sold, and only a seat  *)
(* that was taken and not sold comes back.                                 *)
(***************************************************************************)
EXTENDS Integers

CONSTANTS
  Keys,     \* the stocks
  Sizes,    \* sizes a stock may be opened with
  MaxQty    \* bound: seats one call takes

VARIABLE stock    \* stock[k].cap seats in all, .used of them taken, .sold of these sold

Open(k, size) ==
  /\ stock[k].cap = 0
  /\ stock' = [stock EXCEPT ![k] = [cap |-> size, used |-> 0, sold |-> 0]]

\* Seats are taken, from a stock that may be opened by the same call.
Take(k, size, q) ==
  /\ size = stock[k].cap \/ stock[k].cap = 0
  /\ stock[k].used + q <= size
  /\ stock' = [stock EXCEPT ![k] = [cap |-> size, used |-> @.used + q, sold |-> @.sold]]

GiveBack(k, q) ==
  /\ stock[k].sold + q <= stock[k].used
  /\ stock' = [stock EXCEPT ![k].used = @ - q]

Sell(k, q) ==
  /\ stock[k].sold + q <= stock[k].used
  /\ stock' = [stock EXCEPT ![k].sold = @ + q]

Init == stock = [k \in Keys |-> [cap |-> 0, used |-> 0, sold |-> 0]]

Next ==
  \E k \in Keys :
    \/ \E size \in Sizes : Open(k, size)
    \/ \E q \in 1..MaxQty :
         \/ \E size \in Sizes : Take(k, size, q)
         \/ GiveBack(k, q)
         \/ Sell(k, q)

Spec == Init /\ [][Next]_stock

=============================================================================
